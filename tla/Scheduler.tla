----------------------------- MODULE Scheduler -----------------------------
(***************************************************************************)
(* UpdateScheduler of internal/repos/scheduler.go as a whole: the update   *)
(* queue and its loops (UpdateQueue), and the schedule, which decides when *)
(* a repository is put into the queue, with its timer, runScheduleLoop and *)
(* the callers in cmd/repo-updater: watchSyncer, which hands it the diffs  *)
(* of the syncer one after another, and manageUnclonedRepos.               *)
(*                                                                         *)
(* Time is counted in ticks, and due and timer hold what is left of it.    *)
(* The methods of schedule hold s.mu throughout and are one step each,     *)
(* except that runSchedule, which holds it too, takes q.mu for every       *)
(* repository it enqueues: the update loop may run between two of them.    *)
(***************************************************************************)
EXTENDS UpdateQueue

CONSTANTS MinDelay, MaxDelay,  \* minDelay and maxDelay, in ticks
          JitterDivisor,       \* 20: a jitter of 5% on either side
          EnabledAtStart       \* autoGitUpdatesEnabled of the first loop

ASSUME DelayAssumption == /\ MinDelay \in Nat /\ MaxDelay \in Nat
                          /\ JitterDivisor \in Nat \ {0, 1}
                          /\ JitterDivisor <= MinDelay /\ MinDelay <= MaxDelay
                          /\ EnabledAtStart \in BOOLEAN

VARIABLES scheduled,        \* repositories in the schedule
          interval, due,    \* their Interval, and the time left until Due
          timer,            \* time left until the timer fires, or Off
          firing,           \* the timer's function runs: one at a time
          wakeup, awake,    \* s.wakeup, and the channels that hold a value
          enabled,          \* loops that RunScheduler gave a schedule loop
          spc, sreading,    \* where that loop is, and the channel it blocks
                            \* on: 0 unless it is in its select
          diff,             \* the step of UpdateFromDiff in progress
          doubled           \* the interval an update that failed goes on with

scheduleVars == <<scheduled, interval, due, timer>>
wakeupVars   == <<firing, wakeup, awake>>
scheduleLoop == <<enabled, spc, sreading>>
callerVars   == <<diff, doubled>>
schedulerVars == <<vars, scheduleVars, wakeupVars, scheduleLoop, callerVars>>

Off == -1
NoDiff == [op |-> "none", repo |-> NoRepo]

SchedulerTypeOK ==
    /\ TypeOK
    /\ scheduled \subseteq Repos
    /\ interval \in [Repos -> Nat] /\ due \in [Repos -> Nat]
    /\ timer \in Nat \cup {Off}
    /\ firing \in BOOLEAN
    /\ wakeup \in Channels /\ awake \subseteq Channels
    /\ enabled \subseteq Loops
    /\ spc \in [Loops -> {"off", "top", "wait", "woken", "run", "done"}]
    /\ sreading \in [Loops -> Channels]
    /\ diff \in [op : {"none", "upsert", "remove"}, repo : Repos \cup {NoRepo}]
    /\ doubled \in [Slots -> Nat]

SchedulerInit ==
    /\ Init
    /\ scheduled = {}
    /\ interval = [r \in Repos |-> 0] /\ due = [r \in Repos |-> 0]
    /\ timer = Off
    /\ firing = FALSE
    /\ wakeup = 1 /\ awake = {}
    /\ enabled = {l \in {1} : EnabledAtStart}
    /\ spc = [l \in Loops |-> IF l \in enabled THEN "top" ELSE "off"]
    /\ sreading = [l \in Loops |-> 0]
    /\ diff = NoDiff
    /\ doubled = [u \in Slots |-> 0]

(* runSchedule holds s.mu.                                                 *)
Locked == \E l \in Loops : spc[l] = "run"

-----------------------------------------------------------------------------
(* The Due of the heap's root.                                             *)
EarliestDue(S, time) == CHOOSE t \in {time[r] : r \in S} :
                            \A r \in S : t <= time[r]

(* The heap's root, or one of those that may be: Less leaves ties open.    *)
IsRoot(r) == r \in scheduled /\ \A q \in scheduled : due[r] <= due[q]

RescheduleTimer == timer' = IF scheduled' = {} THEN Off
                                               ELSE EarliestDue(scheduled', due')

(* heap.Push of the repositories of S, as new ones.                        *)
Push(S) == /\ scheduled' = scheduled \cup S
           /\ interval' = [r \in Repos |-> IF r \in S THEN MinDelay
                                                      ELSE interval[r]]
           /\ due' = [r \in Repos |-> IF r \in S THEN MinDelay ELSE due[r]]

(* insertNew, and upsert for one repository: known ones are left alone.    *)
InsertNew(S) == IF S \subseteq scheduled THEN UNCHANGED scheduleVars
                                         ELSE /\ Push(S \ scheduled)
                                              /\ RescheduleTimer

(* prioritiseUncloned.                                                     *)
Prioritise(S) ==
    LET new  == S \ scheduled
        late == {r \in S \cap scheduled : due[r] > MinDelay}
    IN  IF new \cup late = {} THEN UNCHANGED scheduleVars
        ELSE /\ scheduled' = scheduled \cup new
             /\ interval' = [r \in Repos |-> IF r \in new THEN MinDelay
                                                          ELSE interval[r]]
             /\ due' = [r \in Repos |-> IF r \in new \cup late THEN MinDelay
                                                               ELSE due[r]]
             /\ RescheduleTimer

(* Mutant of Clamp: there is no longest interval.                          *)
ClampBelow(i) == IF i < MinDelay THEN MinDelay ELSE i

Clamp(i) == IF i > MaxDelay THEN MaxDelay
            ELSE IF i < MinDelay THEN MinDelay ELSE i

(* Int63n(2*delta) - delta: delta itself is never added.                   *)
Jittered(i) == LET delta == i \div JitterDivisor
               IN  {i + k : k \in -delta .. delta - 1}

(* Mutant of UpdateInterval: the timer keeps its old time.                 *)
UpdateIntervalLazily(r, i) ==
    IF r \notin scheduled THEN UNCHANGED scheduleVars
    ELSE \E j \in Jittered(Clamp(i)) :
           /\ interval' = [interval EXCEPT ![r] = j]
           /\ due' = [due EXCEPT ![r] = j]
           /\ UNCHANGED <<scheduled, timer>>

(* updateInterval.                                                         *)
UpdateInterval(r, i) ==
    IF r \notin scheduled THEN UNCHANGED scheduleVars
    ELSE \E j \in Jittered(Clamp(i)) :
           /\ interval' = [interval EXCEPT ![r] = j]
           /\ due' = [due EXCEPT ![r] = j]
           /\ UNCHANGED scheduled
           /\ RescheduleTimer

(* schedule.remove: the timer is set again only if the root is removed.    *)
RemoveScheduled(r) ==
    IF r \notin scheduled THEN UNCHANGED scheduleVars
    ELSE /\ scheduled' = scheduled \ {r}
         /\ interval' = [interval EXCEPT ![r] = 0]
         /\ due' = [due EXCEPT ![r] = 0]
         /\ \/ IsRoot(r) /\ RescheduleTimer
            \/ /\ \E q \in scheduled \ {r} : IsRoot(q)
               /\ UNCHANGED timer

ResetSchedule == /\ scheduled' = {}
                 /\ interval' = [r \in Repos |-> 0]
                 /\ due' = [r \in Repos |-> 0]
                 /\ timer' = Off
                 /\ wakeup' = wakeup + 1
                 /\ awake' = {c \in awake : \E l \in Loops : sreading'[l] = c}

-----------------------------------------------------------------------------
(* UpdateFromDiff, run by watchSyncer.  The two steps of upsert ...        *)
DiffUpsert(r, enqueue) ==
    /\ diff = NoDiff /\ ~Locked
    /\ InsertNew({r})
    /\ diff' = IF enqueue THEN [op |-> "upsert", repo |-> r] ELSE NoDiff
    /\ UNCHANGED <<vars, wakeupVars, scheduleLoop, doubled>>

DiffEnqueue == /\ diff.op = "upsert"
               /\ Schedule(diff.repo)
               /\ diff' = NoDiff
               /\ UNCHANGED <<scheduleVars, wakeupVars, scheduleLoop, doubled>>

(* ... and those of remove.                                                *)
DiffRemove(r) == /\ diff = NoDiff /\ ~Locked
                 /\ RemoveScheduled(r)
                 /\ diff' = [op |-> "remove", repo |-> r]
                 /\ UNCHANGED <<vars, wakeupVars, scheduleLoop, doubled>>

DiffDequeue == /\ diff.op = "remove"
               /\ Unschedule(diff.repo)
               /\ diff' = NoDiff
               /\ UNCHANGED <<scheduleVars, wakeupVars, scheduleLoop, doubled>>

(* manageUnclonedRepos: the lists come from queries made before, so that a *)
(* repository in one may have been removed from the schedule meanwhile.    *)
EnsureScheduled(S) == /\ ~Locked
                      /\ InsertNew(S)
                      /\ UNCHANGED <<vars, wakeupVars, scheduleLoop, callerVars>>

PrioritiseUncloned(S) == /\ ~Locked
                         /\ Prioritise(S)
                         /\ UNCHANGED <<vars, wakeupVars, scheduleLoop,
                                        callerVars>>

(* A request made by a user or a webhook.                                  *)
Request(r) == /\ UpdateOnce(r)
              /\ UNCHANGED <<scheduleVars, wakeupVars, scheduleLoop, callerVars>>

-----------------------------------------------------------------------------
(* A method holds the lock for far less than a tick.                       *)
Tick == /\ ~Locked
        /\ due' = [r \in Repos |-> IF due[r] > 0 THEN due[r] - 1 ELSE 0]
        /\ timer' = IF timer > 0 THEN timer - 1 ELSE timer
        /\ UNCHANGED <<vars, scheduled, interval, wakeupVars, scheduleLoop,
                       callerVars>>

(* The timer fires; a Stop comes too late from here on.                    *)
Fire == /\ timer = 0 /\ ~firing
        /\ timer' = Off
        /\ firing' = TRUE
        /\ UNCHANGED <<vars, scheduled, interval, due, wakeup, awake,
                       scheduleLoop, callerVars>>

(* Its function reads s.wakeup, without the lock, and notifies it.         *)
Wake == /\ firing
        /\ firing' = FALSE
        /\ awake' = awake \cup {wakeup}
        /\ UNCHANGED <<vars, scheduleVars, wakeup, scheduleLoop, callerVars>>

SelectWakeup(l) == /\ spc[l] = "top"
                   /\ spc' = [spc EXCEPT ![l] = "wait"]
                   /\ sreading' = [sreading EXCEPT ![l] = wakeup]
                   /\ UNCHANGED <<vars, scheduleVars, wakeupVars, enabled,
                                  callerVars>>

(* The wakeup is received ...                                              *)
WakeUp(l) == /\ spc[l] = "wait"
             /\ sreading[l] \in awake
             /\ awake' = awake \ {sreading[l]}
             /\ spc' = [spc EXCEPT ![l] = "woken"]
             /\ sreading' = [sreading EXCEPT ![l] = 0]
             /\ UNCHANGED <<vars, scheduleVars, firing, wakeup, enabled,
                            callerVars>>

(* ... and runSchedule takes s.mu.                                         *)
LockSchedule(l) == /\ spc[l] = "woken" /\ ~Locked
                   /\ spc' = [spc EXCEPT ![l] = "run"]
                   /\ UNCHANGED <<vars, scheduleVars, wakeupVars, enabled,
                                  sreading, callerVars>>

(* Mutant of EnqueueDue: the queue's index is not consulted.               *)
EnqueueDueAgain(l, r) == /\ spc[l] = "run"
                         /\ IsRoot(r) /\ due[r] = 0
                         /\ low' = Append(low, r)
                         /\ Notify
                         /\ due' = [due EXCEPT ![r] = interval[r]]
                         /\ UNCHANGED <<high, updating, channel, loopVars, limit,
                                        leases, update>>
                         /\ UNCHANGED <<scheduled, interval, timer, wakeupVars,
                                        scheduleLoop, callerVars>>

(* Mutant of EnqueueDue: the next Due is set and nothing enqueued.         *)
SkipDue(l, r) == /\ spc[l] = "run"
                 /\ IsRoot(r) /\ due[r] = 0
                 /\ due' = [due EXCEPT ![r] = interval[r]]
                 /\ UNCHANGED <<vars, scheduled, interval, timer, wakeupVars,
                                scheduleLoop, callerVars>>

(* One turn of runSchedule's loop: the root is due.                        *)
EnqueueDue(l, r) == /\ spc[l] = "run"
                    /\ IsRoot(r) /\ due[r] = 0
                    /\ Schedule(r)
                    /\ due' = [due EXCEPT ![r] = interval[r]]
                    /\ UNCHANGED <<scheduled, interval, timer, wakeupVars,
                                   scheduleLoop, callerVars>>

(* No root is due: the timer is set and the lock released.                 *)
EndSchedule(l) == /\ spc[l] = "run"
                  /\ \A r \in scheduled : due[r] > 0
                  /\ UNCHANGED <<scheduled, interval, due>>
                  /\ RescheduleTimer
                  /\ spc' = [spc EXCEPT ![l] = "top"]
                  /\ UNCHANGED <<vars, wakeupVars, enabled, sreading,
                                 callerVars>>

(* The select takes ctx.Done.                                              *)
ShutdownSchedule(l) == /\ spc[l] = "wait" /\ Stopped(l) /\ ~Locked
                       /\ spc' = [spc EXCEPT ![l] = "done"]
                       /\ sreading' = [sreading EXCEPT ![l] = 0]
                       /\ ResetSchedule
                       /\ UNCHANGED <<vars, firing, enabled, callerVars>>

RunScheduleLoop(l) == \/ SelectWakeup(l) \/ WakeUp(l) \/ LockSchedule(l)
                      \/ EndSchedule(l) \/ ShutdownSchedule(l)
                      \/ \E r \in Repos : EnqueueDue(l, r)

(* RunScheduler stops the loops, and starts others, when DisableAutoGit-   *)
(* Updates changes.                                                        *)
RestartScheduler(n) ==
    /\ Restart(n)
    /\ IF loop \in enabled
         THEN UNCHANGED <<enabled, spc>>
         ELSE /\ enabled' = enabled \cup {loop + 1}
              /\ spc' = [spc EXCEPT ![loop + 1] = "top"]
    /\ UNCHANGED <<scheduleVars, wakeupVars, sreading, callerVars>>

-----------------------------------------------------------------------------
(* The goroutine of an update after requestRepoUpdate returns: a custom    *)
(* interval is configured, or the times of the last fetch and change tell  *)
(* one ...                                                                 *)
ApplyInterval(u, i) == /\ ~Locked /\ doubled[u] = 0
                       /\ Respond(u)
                       /\ UpdateInterval(update[u].repo, i)
                       /\ UNCHANGED <<wakeupVars, scheduleLoop, callerVars>>

(* ... or the response has no times, or none was successful and the        *)
(* repository is not scheduled ...                                         *)
NoInterval(u) == /\ doubled[u] = 0
                 /\ Respond(u)
                 /\ UNCHANGED <<scheduleVars, wakeupVars, scheduleLoop,
                                callerVars>>

(* ... or the update failed: getCurrentInterval ...                        *)
ReadInterval(u) == /\ ~Locked /\ doubled[u] = 0
                   /\ update[u].pc = "request"
                   /\ update[u].repo \in scheduled
                   /\ doubled' = [doubled EXCEPT
                                    ![u] = 2 * interval[update[u].repo]]
                   /\ UNCHANGED <<vars, scheduleVars, wakeupVars, scheduleLoop,
                                  diff>>

(* ... and updateInterval with its double, the lock released in between.   *)
BackOff(u) == /\ ~Locked /\ doubled[u] > 0
              /\ Respond(u)
              /\ UpdateInterval(update[u].repo, doubled[u])
              /\ doubled' = [doubled EXCEPT ![u] = 0]
              /\ UNCHANGED <<wakeupVars, scheduleLoop, diff>>

(* Intervals below MinDelay and above MaxDelay become the bounds.          *)
Answers == MinDelay .. MaxDelay

RunScheduledUpdate(u) ==
    \/ \E i \in Answers : ApplyInterval(u, i)
    \/ NoInterval(u) \/ ReadInterval(u) \/ BackOff(u)
    \/ /\ Finish(u) \/ Cancel(u)
       /\ UNCHANGED <<scheduleVars, wakeupVars, scheduleLoop, callerVars>>

(* The update loop and its limiter, which leave the schedule alone.        *)
UpdateLoopStep(l) ==
    /\ RunUpdateLoop(l) \/ \E n \in Limits : SetLimit(l, n)
    /\ UNCHANGED <<scheduleVars, wakeupVars, scheduleLoop, callerVars>>

(* Mutant of Syncer: the two steps of remove change places.                *)
SyncerQueueFirst ==
    \/ \E r \in Repos : /\ diff = NoDiff
                         /\ Unschedule(r)
                         /\ diff' = [op |-> "remove", repo |-> r]
                         /\ UNCHANGED <<scheduleVars, wakeupVars, scheduleLoop,
                                        doubled>>
    \/ /\ diff.op = "remove" /\ ~Locked
       /\ RemoveScheduled(diff.repo)
       /\ diff' = NoDiff
       /\ UNCHANGED <<vars, wakeupVars, scheduleLoop, doubled>>
    \/ \E r \in Repos, e \in BOOLEAN : DiffUpsert(r, e)
    \/ DiffEnqueue

(* UpdateFromDiff takes the repositories of a diff one after another.      *)
Syncer == \/ \E r \in Repos : DiffRemove(r)
          \/ \E r \in Repos, e \in BOOLEAN : DiffUpsert(r, e)
          \/ DiffEnqueue \/ DiffDequeue

SchedulerNext ==
    \/ Syncer
    \/ \E S \in SUBSET Repos : EnsureScheduled(S) \/ PrioritiseUncloned(S)
    \/ \E r \in Repos : Request(r)
    \/ Tick \/ Fire \/ Wake
    \/ \E l \in Loops : RunScheduleLoop(l) \/ UpdateLoopStep(l)
    \/ \E u \in Slots : RunScheduledUpdate(u)
    \/ \E n \in Limits : RestartScheduler(n)

SchedulerSpec == SchedulerInit /\ [][SchedulerNext]_schedulerVars

(* Goroutines run, the mutex is granted, and time passes.                  *)
SchedulerFairness ==
    /\ WF_schedulerVars(Tick)
    /\ WF_schedulerVars(Fire) /\ WF_schedulerVars(Wake)
    /\ \A l \in Loops : WF_schedulerVars(RunScheduleLoop(l))

FairSchedulerSpec == SchedulerSpec /\ SchedulerFairness

-----------------------------------------------------------------------------
(* A loop has been woken and has not set the timer yet.                    *)
AtWork == \E l \in Loops : spc[l] \in {"woken", "run"}

(* The schedule never sleeps past a repository that is due: unless a loop  *)
(* is at work, or the timer has fired and its wakeup is in the channel or  *)
(* on its way there, a timer is set, for the earliest Due or before it.    *)
(* Whether a loop blocks on that channel is another matter: see Deaf.      *)
TimerOnTime ==
    scheduled # {} => \/ AtWork \/ firing \/ wakeup \in awake
                      \/ timer # Off /\ \A r \in scheduled : timer <= due[r]

(* The queue holds no request of low priority for a repository that the    *)
(* schedule has forgotten, unless remove is between its two steps: it      *)
(* takes a repository out of the schedule first, so that runSchedule       *)
(* cannot put it back into the queue.  A restart resets the two apart.     *)
LowScheduled ==
    loop = 1 => \A r \in ToSet(low) :
                    r \in scheduled \/ diff = [op |-> "remove", repo |-> r]

(* However often an update fails, the interval is within the bounds, give  *)
(* or take the jitter.                                                     *)
IntervalBounded ==
    \A r \in scheduled :
        /\ interval[r] >= MinDelay - (MinDelay \div JitterDivisor)
        /\ interval[r] < MaxDelay + (MaxDelay \div JitterDivisor)
        /\ due[r] <= interval[r]

(* Every step is one that UpdateQueue allows, or leaves the queue alone:   *)
(* what is shown of the queue and its loops holds under the schedule, its  *)
(* restarts and its callers.                                               *)
ImplementsQueue == Spec

(* The current loop is in its select with a channel that the reset of a    *)
(* loop stopped before it has replaced since.  Nobody sends on it again.   *)
Deaf == spc[loop] = "wait" /\ sreading[loop] # wakeup

(* A scheduled repository gets into the queue, whatever is requested,      *)
(* inserted, prioritised and removed besides and however often updates are *)
(* turned off and on, as long as it stays scheduled and updates are        *)
(* enabled; unless the reset of a stopped loop came late and made the      *)
(* current one Deaf.                                                       *)
ScheduledRequested ==
    \A r \in Repos : (r \in scheduled) ~> \/ r \in Waiting \cup updating
                                           \/ r \notin scheduled
                                           \/ loop \notin enabled
                                           \/ Deaf
=============================================================================
