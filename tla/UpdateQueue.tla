---------------------------- MODULE UpdateQueue ----------------------------
(***************************************************************************)
(* The update half of internal/repos/scheduler.go: updateQueue,            *)
(* runUpdateLoop with its limiter and the goroutine of every update, and   *)
(* RunScheduler, which stops the loop and starts another when the          *)
(* configuration changes.                                                  *)
(*                                                                         *)
(* The heap and its index are kept as what Less sorts them into: the       *)
(* waiting repositories of each priority in the order of their sequence    *)
(* numbers, and the repositories being updated, which come last.  Each     *)
(* method of updateQueue holds q.mu throughout and is one step.            *)
(*                                                                         *)
(* A reset replaces notifyEnqueue by a new channel, so channels are        *)
(* numbered.  The loop reads the field without holding q.mu and then       *)
(* blocks on the channel it read.                                          *)
(***************************************************************************)
EXTENDS LimiterList, FiniteSets

CONSTANTS Repos,        \* repository IDs
          NoRepo,
          Slots,        \* bound: acquired contexts in existence at one time
          Limits,       \* values of conf.GitMaxConcurrentClones, never 0
          MaxLoops,     \* bound: loops started, one more than restarts
          Updaters,     \* bound: loops that get a context from their limiter
          MaxStopping   \* bound: stopped loops that have not ended when
                        \* another is stopped

ASSUME QueueAssumption ==
    /\ NoRepo \notin Repos
    /\ IsFiniteSet(Slots)
    /\ Limits \subseteq Nat \ {0}
    /\ Limits # {}
    /\ MaxLoops \in Nat \ {0}
    /\ Updaters \subseteq 1 .. MaxLoops
    /\ MaxStopping \in Nat

Loops == 1 .. MaxLoops
Channels == Nat     \* a loop resets the queue at most once

VARIABLES high, low,     \* waiting repositories by priority, oldest first
          updating,      \* repositories in the queue with Updating set
          channel,       \* q.notifyEnqueue
          notified,      \* channels with a value in their buffer
          loop,          \* the loop RunScheduler started last
          pc, reading,   \* where each loop is, and the channel it blocks on:
                         \* 0 unless it is in its select
          limit, leases, \* each loop's limiter
          update         \* the goroutine that owns each acquired context

queueVars == <<high, low, updating, channel, notified>>
loopVars  == <<loop, pc, reading>>
vars      == <<queueVars, loopVars, limit, leases, update>>

Idle == [pc |-> "none", repo |-> NoRepo, loop |-> 1]

TypeOK == /\ high \in Seq(Repos) /\ low \in Seq(Repos)
          /\ updating \subseteq Repos
          /\ channel \in Channels /\ notified \subseteq Channels
          /\ loop \in Loops
          /\ pc \in [Loops -> {"off", "top", "wait", "acquire", "next", "done"}]
          /\ reading \in [Loops -> Channels]
          /\ limit \in [Loops -> Limits]
          /\ leases \in [Loops -> Seq(Slots)]
          /\ update \in [Slots -> [pc   : {"none", "held", "request",
                                           "remove", "cancel"},
                                   repo : Repos \cup {NoRepo},
                                   loop : Loops]]
          /\ \A u \in Slots : (update[u].repo = NoRepo)
                               <=> (update[u].pc \in {"none", "held"})

Init == /\ high = <<>> /\ low = <<>> /\ updating = {}
        /\ channel = 1 /\ notified = {}
        /\ loop = 1
        /\ pc = [l \in Loops |-> IF l = 1 THEN "top" ELSE "off"]
        /\ reading = [l \in Loops |-> 0]
        /\ \E n \in Limits : limit = [l \in Loops |-> n]
        /\ leases = [l \in Loops |-> <<>>]
        /\ update = [u \in Slots |-> Idle]

Waiting == ToSet(high) \cup ToSet(low)

(* RunScheduler called stop: the context of the loop is done.              *)
Stopped(l) == l < loop

-----------------------------------------------------------------------------
(* A non-blocking send: the buffer holds one value.                        *)
Notify == notified' = notified \cup {channel}

(* enqueue(repo, priorityLow): from upsert and runSchedule.                *)
EnqueueLow(r) == /\ IF r \in Waiting \cup updating
                      THEN UNCHANGED <<low, notified>>
                      ELSE /\ low' = Append(low, r)
                           /\ Notify
                 /\ UNCHANGED <<high, updating, channel>>

(* Mutant of EnqueueHigh: a bumped repository is pushed a second time.     *)
EnqueueHighAgain(r) == /\ IF r \in ToSet(high) \cup updating
                            THEN UNCHANGED <<high, notified>>
                            ELSE high' = Append(high, r) /\ Notify
                       /\ UNCHANGED <<low, updating, channel>>

(* enqueue(repo, priorityHigh): a repository waiting at low priority gets  *)
(* a new sequence number and goes behind the others of high priority.      *)
EnqueueHigh(r) == /\ IF r \in ToSet(high) \cup updating
                       THEN UNCHANGED <<high, low, notified>>
                       ELSE /\ high' = Append(high, r)
                            /\ low' = Without(low, r)
                            /\ Notify
                  /\ UNCHANGED <<updating, channel>>

(* remove(repo, false).                                                    *)
RemoveWaiting(r) == /\ high' = Without(high, r)
                    /\ low' = Without(low, r)
                    /\ UNCHANGED <<updating, channel, notified>>

(* remove(repo, true).                                                     *)
RemoveUpdating(r) == /\ updating' = updating \ {r}
                     /\ UNCHANGED <<high, low, channel, notified>>

(* A value in the old channel is lost with it, unless a loop blocks on it. *)
Reset == /\ high' = <<>> /\ low' = <<>> /\ updating' = {}
         /\ channel' = channel + 1
         /\ notified' = {c \in notified : \E l \in Loops : reading'[l] = c}

(* Mutant of Top: of equal priority, the youngest request comes first.     *)
TopYoungest == IF high # <<>> THEN Last(high) ELSE Last(low)

(* The root of the heap, if a repository is waiting.                       *)
Top == IF high # <<>> THEN Head(high) ELSE Head(low)

(* Mutant of AcquireTop: the repository leaves the queue at once.          *)
AcquireTopGone == /\ high' = Without(high, Top)
                  /\ low' = Without(low, Top)
                  /\ UNCHANGED <<updating, channel, notified>>

(* acquireNext, when the root is not updating.                             *)
AcquireTop == /\ high' = Without(high, Top)
              /\ low' = Without(low, Top)
              /\ updating' = updating \cup {Top}
              /\ UNCHANGED <<channel, notified>>

-----------------------------------------------------------------------------
(* Callers of the queue.                                                   *)
UpdateOnce(r) == EnqueueHigh(r) /\ UNCHANGED <<loopVars, limit, leases, update>>
Schedule(r)   == EnqueueLow(r) /\ UNCHANGED <<loopVars, limit, leases, update>>
Unschedule(r) == /\ RemoveWaiting(r)
                 /\ UNCHANGED <<loopVars, limit, leases, update>>

(* runUpdateLoop evaluates the channel of its select.                      *)
Select(l) == /\ pc[l] = "top"
             /\ pc' = [pc EXCEPT ![l] = "wait"]
             /\ reading' = [reading EXCEPT ![l] = channel]
             /\ UNCHANGED <<queueVars, loop, limit, leases, update>>

Receive(l) == /\ pc[l] = "wait"
              /\ reading[l] \in notified
              /\ notified' = notified \ {reading[l]}
              /\ pc' = [pc EXCEPT ![l] = "acquire"]
              /\ reading' = [reading EXCEPT ![l] = 0]
              /\ UNCHANGED <<high, low, updating, channel, loop, limit,
                             leases, update>>

(* The select takes ctx.Done: the queue is reset and the loop ends.        *)
Shutdown(l) == /\ pc[l] = "wait"
               /\ Stopped(l)
               /\ pc' = [pc EXCEPT ![l] = "done"]
               /\ reading' = [reading EXCEPT ![l] = 0]
               /\ Reset
               /\ UNCHANGED <<loop, limit, leases, update>>

(* limiter.Acquire returns a context, perhaps one that is already done.    *)
Acquire(l) == /\ pc[l] = "acquire" /\ l \in Updaters
              /\ ~AtLimit(leases[l], limit[l])
              /\ pc' = [pc EXCEPT ![l] = "next"]
              /\ \E u \in Slots :
                   /\ update[u].pc = "none"
                   /\ leases' = [leases EXCEPT ![l] = Append(@, u)]
                   /\ update' = [update EXCEPT ![u].pc = "held",
                                               ![u].loop = l]
              /\ UNCHANGED <<queueVars, loop, reading, limit>>

(* limiter.Acquire returns the error of a context that is done.            *)
AcquireFails(l) == /\ pc[l] = "acquire"
                   /\ Stopped(l)
                   /\ pc' = [pc EXCEPT ![l] = "done"]
                   /\ UNCHANGED <<queueVars, loop, reading, limit, leases,
                                  update>>

Release(l, u) == /\ leases' = [leases EXCEPT ![l] = Without(@, u)]
                 /\ update' = [update EXCEPT ![u] = Idle]

(* Mutant of Start: the loop goes back to its select after one repository. *)
StartOne(l, u) == /\ pc[l] = "next"
                  /\ update[u].pc = "held" /\ update[u].loop = l
                  /\ Waiting # {}
                  /\ AcquireTop
                  /\ update' = [update EXCEPT ![u].pc = "request",
                                              ![u].repo = Top]
                  /\ pc' = [pc EXCEPT ![l] = "top"]
                  /\ UNCHANGED <<loop, reading, limit, leases>>

(* acquireNext finds a repository: a goroutine is started for it.          *)
Start(l, u) == /\ pc[l] = "next"
               /\ update[u].pc = "held" /\ update[u].loop = l
               /\ Waiting # {}
               /\ AcquireTop
               /\ update' = [update EXCEPT ![u].pc = "request",
                                           ![u].repo = Top]
               /\ pc' = [pc EXCEPT ![l] = "acquire"]
               /\ UNCHANGED <<loop, reading, limit, leases>>

(* acquireNext finds none: the context is given back.                      *)
Drained(l, u) == /\ pc[l] = "next"
                 /\ update[u].pc = "held" /\ update[u].loop = l
                 /\ Waiting = {}
                 /\ Release(l, u)
                 /\ pc' = [pc EXCEPT ![l] = "top"]
                 /\ UNCHANGED <<queueVars, loop, reading, limit>>

(* requestRepoUpdate returns and the schedule is told: the outcome matters *)
(* to the schedule only.                                                   *)
Respond(u) == /\ update[u].pc = "request"
              /\ update' = [update EXCEPT ![u].pc = "remove"]
              /\ UNCHANGED <<queueVars, loopVars, limit, leases>>

(* The deferred calls, in the order in which they run.                     *)
Finish(u) == /\ update[u].pc = "remove"
             /\ RemoveUpdating(update[u].repo)
             /\ update' = [update EXCEPT ![u].pc = "cancel"]
             /\ UNCHANGED <<loopVars, limit, leases>>

Cancel(u) == /\ update[u].pc = "cancel"
             /\ Release(update[u].loop, u)
             /\ UNCHANGED <<queueVars, loopVars, limit>>

(* The configuration watcher of a loop's limiter.                          *)
SetLimit(l, n) == /\ pc[l] # "off"
                  /\ limit' = [limit EXCEPT ![l] = n]
                  /\ leases' = [leases EXCEPT ![l] = WithinLimit(@, n)]
                  /\ UNCHANGED <<queueVars, loopVars, update>>

(* The loop has returned and its updates are over.                         *)
Ended(l) == /\ pc[l] = "done"
            /\ \A u \in Slots : update[u].pc = "none" \/ update[u].loop # l

(* The watcher of RunScheduler: stop(), then a new loop with a new limiter.*)
Restart(n) == /\ loop < MaxLoops
              /\ Cardinality({l \in Loops : Stopped(l) /\ ~Ended(l)}) <= MaxStopping
              /\ loop' = loop + 1
              /\ pc' = [pc EXCEPT ![loop + 1] = "top"]
              /\ limit' = [limit EXCEPT ![loop + 1] = n]
              /\ UNCHANGED <<queueVars, reading, leases, update>>

Callers == \E r \in Repos : UpdateOnce(r) \/ Schedule(r) \/ Unschedule(r)

RunUpdateLoop(l) == \/ Select(l) \/ Receive(l) \/ Shutdown(l)
                    \/ Acquire(l) \/ AcquireFails(l)
                    \/ \E u \in Slots : Start(l, u) \/ Drained(l, u)

RunUpdate(u) == Respond(u) \/ Finish(u) \/ Cancel(u)

Next == \/ Callers
        \/ \E l \in Loops : RunUpdateLoop(l)
        \/ \E u \in Slots : RunUpdate(u)
        \/ \E l \in Loops, n \in Limits : SetLimit(l, n)
        \/ \E n \in Limits : Restart(n)

Spec == Init /\ [][Next]_vars

(* Goroutines run; gitserver answers or the request times out; the         *)
(* limiter's select does not pass a request over for ever.                 *)
Fairness == /\ \A l \in Loops : WF_vars(RunUpdateLoop(l)) /\ SF_vars(Acquire(l))
            /\ \A u \in Slots : WF_vars(RunUpdate(u))

FairSpec == Spec /\ Fairness

-----------------------------------------------------------------------------
(* Updates whose context is not done.                                      *)
Live == {u \in Slots : /\ update[u].pc \in {"request", "remove"}
                       /\ u \in ToSet(leases[update[u].loop])
                       /\ ~Stopped(update[u].loop)}

(* No more than gitMaxConcurrentClones updates run at once, counting those *)
(* whose context is not done, however often the limit is lowered and the   *)
(* loop restarted with a limiter of its own.                               *)
UpdatesWithinLimit == Cardinality(Live) <= limit[loop]

(* A repository acquired for update stays in the queue until its update    *)
(* finishes, so that requests made meanwhile do not start a second one: as *)
(* long as the loop is the first one.  Nothing waits for a loop that       *)
(* RunScheduler stops, and its reset empties the queue under the next one. *)
AcquiredInQueue ==
    loop = 1 =>
      \A u \in Live : /\ update[u].repo \in updating
                      /\ \A v \in Live \ {u} : update[v].repo # update[u].repo

(* The sends on notifyEnqueue lose nothing: if a repository is waiting,    *)
(* the loop is on its way to acquireNext, or will find a value in the      *)
(* channel it blocks on.  A restart may leave the next loop on the channel *)
(* that the reset of the last one replaces.                                *)
NotifyLossless ==
    (loop = 1 /\ Waiting # {}) =>
        \/ pc[1] \in {"acquire", "next"}
        \/ channel \in notified /\ (pc[1] = "wait" => reading[1] = channel)

(* A repository is in one place of the queue only.                         *)
OnePlace == /\ ToSet(high) \cap ToSet(low) = {}
            /\ Waiting \cap updating = {}
            /\ Distinct(high) /\ Distinct(low)

(* A request made with UpdateOnce does not wait for ever, whatever else is *)
(* requested and however often the limit changes, unless the loop is       *)
(* stopped.                                                                *)
HighServed ==
    \A r \in Repos : (r \in ToSet(high)) ~> (r \notin ToSet(high) \/ Stopped(1))

(* Nor does one of low priority, unless requests of high priority keep     *)
(* arriving.                                                               *)
LowServed ==
    (<>[](high = <<>>)) =>
        \A r \in Repos : (r \in ToSet(low)) ~> (r \notin ToSet(low) \/ Stopped(1))

=============================================================================
