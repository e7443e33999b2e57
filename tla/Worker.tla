------------------------------- MODULE Worker -------------------------------
(***************************************************************************)
(* Workers (internal/workerutil/worker.go) polling one job table, with the *)
(* resetter (internal/workerutil/dbworker/resetter.go) and users beside    *)
(* them.  Every worker process runs                                        *)
(*                                                                         *)
(*   - the dequeue loop of Start: take a token of handlerSemaphore, ask    *)
(*     the hook, Dequeue, register the record, spawn a handler goroutine;  *)
(*   - handler goroutines: Handle, finalize the record, return the token,  *)
(*     and only then leave runningIDSet;                                   *)
(*   - the heartbeat goroutine: Slice, Heartbeat, Remove, Cancel.          *)
(*                                                                         *)
(* A goroutine lives in a slot.  A slot number stands for the context and  *)
(* the cancel function the goroutine was started with, so an entry of      *)
(* runningIDSet is the slot whose context it cancels.  Tokens are returned *)
(* before the goroutine ends, so a worker can have more goroutines than    *)
(* NumHandlers; Slots bounds how many.                                     *)
(***************************************************************************)
EXTENDS WorkerStore

CONSTANTS NumHandlers,     \* WorkerOptions.NumHandlers
          NumTotalJobs,    \* WorkerOptions.NumTotalJobs, 0 for no limit
          Slots,           \* bound: goroutines of one worker alive at a time
          NoSlot,          \* an id that is not in runningIDSet
          NoRecord,        \* what a free slot handles
          WithPreDequeue,  \* the handler implements PreDequeue
          WithStop,        \* workers may be stopped
          Prompt,          \* heartbeats are on time (see TimePasses)
          MaxCrashes,      \* bound: crashes of worker processes
          MaxRequeues      \* bound: records requeued by their handlers

ASSUME WorkerAssumption ==
    /\ NumHandlers \in Nat \ {0}
    /\ NumTotalJobs \in Nat
    /\ IsFiniteSet(Slots)
    /\ NoSlot \notin Slots
    /\ NoRecord \notin Records
    /\ WithPreDequeue \in BOOLEAN
    /\ WithStop \in BOOLEAN
    /\ Prompt \in BOOLEAN
    /\ MaxCrashes \in Nat
    /\ MaxRequeues \in Nat

VARIABLES loop,      \* the dequeue loop of each worker
          sem,       \* tokens left in each handlerSemaphore
          running,   \* runningIDSet of each worker: record -> slot
          slot,      \* the handler goroutines of each worker
          beat,      \* the heartbeat loop of each worker
          resetter,  \* the resetter
          crashes, requeues

vars == <<jobs, loop, sem, running, slot, beat, resetter, crashes, requeues>>

-----------------------------------------------------------------------------
(* pc of the dequeue loop: "wait" is the select with delay = Interval and  *)
(* "again" the one with delay = 0 after a dequeued record.  cands and rec  *)
(* are the locals of a Dequeue in flight, which read the clock lag ticks   *)
(* ago; stopping is dequeueCtx.Err() # nil.                                *)
LoopPC == {"acquire", "hook", "snapshot", "claim", "register", "wait",
           "again", "drain", "stopped"}

Loop == [pc : LoopPC, cands : SUBSET Records, rec : Records \cup {NoRecord},
         lag : 0 .. MaxCallTicks, stopping : BOOLEAN, numDequeues : Nat]

(* A goroutine is handling (in Handle), finalizing (verdict reached, Mark  *)
(* call pending), cleanup (PostHandle, token pending) or removing (token   *)
(* returned, the deferred runningIDSet.Remove pending).  ctx is            *)
(* handleCtx.Err() # nil.                                                  *)
SlotPC == {"free", "handling", "finalizing", "cleanup", "removing"}

(* Both "failed" (a non-retryable error) and "canceled" (isJobCanceled)    *)
(* call MarkFailed.                                                        *)
Verdicts == {"none", "complete", "errored", "failed", "canceled"}

Slot == [pc : SlotPC, rec : Records \cup {NoRecord}, ctx : BOOLEAN,
         verdict : Verdicts, requeued : BOOLEAN]

FreeSlot == [pc |-> "free", rec |-> NoRecord, ctx |-> FALSE,
             verdict |-> "none", requeued |-> FALSE]

(* ids was sliced from runningIDSet for a Heartbeat that read the clock    *)
(* lag ticks ago; unknown and cancel are what is left to apply of the      *)
(* answer.                                                                 *)
Beat == [pc : {"idle", "sent", "apply", "done"}, ids : SUBSET Records,
         lag : 0 .. MaxCallTicks, unknown : SUBSET Records,
         cancel : SUBSET Records]

IdleBeat == [pc |-> "idle", ids |-> {}, lag |-> 0, unknown |-> {},
             cancel |-> {}]

(* ResetStalled read the clock lag ticks ago; ids were reset by its first  *)
(* statement.                                                              *)
Resetter == [pc : {"idle", "reset", "fail"}, ids : SUBSET Records,
             lag : 0 .. MaxPassTicks]

IdleResetter == [pc |-> "idle", ids |-> {}, lag |-> 0]

FirstLoop == [pc |-> "acquire", cands |-> {}, rec |-> NoRecord, lag |-> 0,
              stopping |-> FALSE, numDequeues |-> 0]

TypeOK == /\ StoreTypeOK
          /\ loop \in [Workers -> Loop]
          /\ sem \in [Workers -> 0 .. NumHandlers]
          /\ running \in [Workers -> [Records -> Slots \cup {NoSlot}]]
          /\ slot \in [Workers -> [Slots -> Slot]]
          /\ beat \in [Workers -> Beat]
          /\ resetter \in Resetter
          /\ crashes \in 0 .. MaxCrashes
          /\ requeues \in 0 .. MaxRequeues

Init == /\ StoreInit
        /\ loop = [w \in Workers |-> FirstLoop]
        /\ sem = [w \in Workers |-> NumHandlers]
        /\ running = [w \in Workers |-> [r \in Records |-> NoSlot]]
        /\ slot = [w \in Workers |-> [s \in Slots |-> FreeSlot]]
        /\ beat = [w \in Workers |-> IdleBeat]
        /\ resetter = IdleResetter
        /\ crashes = 0
        /\ requeues = 0

-----------------------------------------------------------------------------
(* The dequeue loop.                                                       *)

QuotaReached(w) ==
    NumTotalJobs # 0 /\ loop[w].numDequeues >= NumTotalJobs

EnterDrain(w) == loop' = [loop EXCEPT ![w].pc = "drain"]

(* A handler token is taken, unless the loop ends.                         *)
Acquire(w) ==
    /\ loop[w].pc = "acquire"
    /\ ~QuotaReached(w)
    /\ sem[w] > 0
    /\ sem' = [sem EXCEPT ![w] = @ - 1]
    /\ loop' = [loop EXCEPT ![w].pc = "hook"]
    /\ UNCHANGED <<jobs, running, slot, beat, resetter, crashes, requeues>>

(* The loop ends: NumTotalJobs reached, or dequeueCtx canceled while the   *)
(* loop waits for a token.                                                 *)
LoopEnds(w) ==
    /\ loop[w].pc = "acquire"
    /\ QuotaReached(w) \/ loop[w].stopping
    /\ EnterDrain(w)
    /\ UNCHANGED <<jobs, sem, running, slot, beat, resetter, crashes, requeues>>

(* The hook agrees, and Dequeue reads the clock.                           *)
PreDequeue(w) ==
    /\ loop[w].pc = "hook"
    /\ loop' = [loop EXCEPT ![w].pc = "snapshot"]
    /\ UNCHANGED <<jobs, sem, running, slot, beat, resetter, crashes, requeues>>

(* dequeueAndHandle returns without a record: the deferred function puts   *)
(* the token back.  The error of a canceled dequeueCtx ends the loop       *)
(* ("drain"), everything else waits for the next poll.                     *)
NotDequeued(w, pc) ==
    /\ sem' = [sem EXCEPT ![w] = @ + 1]
    /\ loop' = [loop EXCEPT ![w] = [@ EXCEPT !.pc = pc, !.cands = {},
                                             !.rec = NoRecord, !.lag = 0]]
    /\ UNCHANGED <<running, slot, beat, resetter, crashes, requeues>>

AfterError(w) == {"wait"} \cup (IF loop[w].stopping THEN {"drain"} ELSE {})

(* The hook declines or fails.                                             *)
PreDequeueDeclines(w) ==
    /\ loop[w].pc = "hook"
    /\ WithPreDequeue
    /\ \E pc \in AfterError(w) : NotDequeued(w, pc)
    /\ UNCHANGED jobs

(* A query on a canceled context is not sent.                              *)
DequeueRefused(w) ==
    /\ loop[w].pc = "snapshot"
    /\ loop[w].stopping
    /\ NotDequeued(w, "drain")
    /\ UNCHANGED jobs

DequeueSnapshot(w) ==
    /\ loop[w].pc = "snapshot"
    /\ ~loop[w].stopping
    /\ loop' = [loop EXCEPT ![w] =
                  [@ EXCEPT !.pc = "claim",
                            !.cands = PotentialCandidates(loop[w].lag)]]
    /\ UNCHANGED <<jobs, sem, running, slot, beat, resetter, crashes, requeues>>

DequeueRecord(w) ==
    /\ loop[w].pc = "claim"
    /\ \E r \in loop[w].cands :
         /\ DequeueClaim(r, w, loop[w].lag)
         /\ loop' = [loop EXCEPT ![w] = [@ EXCEPT !.pc = "register", !.lag = 0,
                                                  !.cands = {}, !.rec = r]]
    /\ UNCHANGED <<sem, running, slot, beat, resetter, crashes, requeues>>

DequeueNothing(w) ==
    /\ loop[w].pc = "claim"
    /\ \A r \in loop[w].cands : ~Recheck(jobs[r])
    /\ NotDequeued(w, "wait")
    /\ UNCHANGED jobs

(* The statement fails, or its answer is lost after it took effect (a      *)
(* dropped connection; dequeueCtx canceled while the answer is read).      *)
DequeueFails(w) ==
    /\ loop[w].pc = "claim"
    /\ \/ UNCHANGED jobs
       \/ \E r \in loop[w].cands : DequeueClaim(r, w, loop[w].lag)
    /\ \E pc \in AfterError(w) : NotDequeued(w, pc)

(* numDequeues is only kept when there is a limit to compare it with.      *)
Counted(n) == IF NumTotalJobs = 0 THEN n ELSE n + 1

(* runningIDSet.Add, PreHandle, wg.Add(1) and the go statement.            *)
Register(w) ==
    /\ loop[w].pc = "register"
    /\ running[w][loop[w].rec] = NoSlot
    /\ \E s \in Slots :
         /\ slot[w][s].pc = "free"
         /\ running' = [running EXCEPT ![w][loop[w].rec] = s]
         /\ slot' = [slot EXCEPT ![w][s] =
                       [FreeSlot EXCEPT !.pc = "handling", !.rec = loop[w].rec]]
    /\ loop' = [loop EXCEPT ![w] =
                  [@ EXCEPT !.pc = "again", !.rec = NoRecord,
                            !.numDequeues = Counted(loop[w].numDequeues)]]
    /\ UNCHANGED <<jobs, sem, beat, resetter, crashes, requeues>>

(* Mutant of AlreadyExists: the function returns as if it had dequeued.    *)
AlreadyExistsKeepsToken(w) ==
    /\ loop[w].pc = "register"
    /\ running[w][loop[w].rec] # NoSlot
    /\ loop' = [loop EXCEPT ![w] = [@ EXCEPT !.pc = "again", !.rec = NoRecord]]
    /\ UNCHANGED <<jobs, sem, running, slot, beat, resetter, crashes, requeues>>

(* Add returned false: ErrJobAlreadyExists.  The claimed row is left as it *)
(* is.                                                                     *)
AlreadyExists(w) ==
    /\ loop[w].pc = "register"
    /\ running[w][loop[w].rec] # NoSlot
    /\ NotDequeued(w, "wait")
    /\ UNCHANGED jobs

(* Mutant of Wait: the select does not listen to dequeueCtx.               *)
WaitDeaf(w) ==
    /\ loop[w].pc \in {"wait", "again"}
    /\ loop' = [loop EXCEPT ![w].pc = "acquire"]
    /\ UNCHANGED <<jobs, sem, running, slot, beat, resetter, crashes, requeues>>

(* The delay is over.  A loop that is being stopped is woken before the    *)
(* poll interval ends, but a delay of 0 may win the select.                *)
Wait(w) ==
    /\ \/ loop[w].pc = "wait" /\ ~loop[w].stopping
       \/ loop[w].pc = "again"
    /\ loop' = [loop EXCEPT ![w].pc = "acquire"]
    /\ UNCHANGED <<jobs, sem, running, slot, beat, resetter, crashes, requeues>>

(* dequeueCtx.Done, or MaxActiveTime elapsed.                              *)
WaitEnds(w) ==
    /\ loop[w].pc \in {"wait", "again"}
    /\ WithStop
    /\ EnterDrain(w)
    /\ UNCHANGED <<jobs, sem, running, slot, beat, resetter, crashes, requeues>>

(* Stop cancels dequeueCtx; handler contexts are not touched.              *)
Stop(w) ==
    /\ WithStop
    /\ ~loop[w].stopping
    /\ loop' = [loop EXCEPT ![w].stopping = TRUE]
    /\ UNCHANGED <<jobs, sem, running, slot, beat, resetter, crashes, requeues>>

(* What wg counts.                                                         *)
InFlight(w) ==
    {s \in Slots : slot[w][s].pc \in {"handling", "finalizing", "cleanup"}}

(* wg.Wait returns and finished is closed.                                 *)
Drained(w) ==
    /\ loop[w].pc = "drain"
    /\ InFlight(w) = {}
    /\ loop' = [loop EXCEPT ![w].pc = "stopped"]
    /\ UNCHANGED <<jobs, sem, running, slot, beat, resetter, crashes, requeues>>

-----------------------------------------------------------------------------
(* runningIDSet (internal/workerutil/idset.go).                            *)

Has(w, r) == running[w][r] # NoSlot

(* Mutant of Canceled: the cancel function is not called.                  *)
NotCanceled(w, r) == slot[w]

(* The goroutines of w once the cancel function stored for r was called.   *)
Canceled(w, r) == IF Has(w, r)
                    THEN [slot[w] EXCEPT ![running[w][r]].ctx = TRUE]
                    ELSE slot[w]

(* Remove forgets the id under the lock and calls the cancel function it   *)
(* was added with after it.  One step here: in between, the goroutine is   *)
(* one that may go on or return as if the cancel came a little later.      *)
IDSetRemove(w, r) == /\ running' = [running EXCEPT ![w][r] = NoSlot]
                     /\ slot' = [slot EXCEPT ![w] = Canceled(w, r)]

IDSetCancel(w, r) == /\ slot' = [slot EXCEPT ![w] = Canceled(w, r)]
                     /\ UNCHANGED running

-----------------------------------------------------------------------------
(* Handler goroutines.                                                     *)

(* handle's choice of the Mark call, from what Handle returned: nil, an    *)
(* error, a non-retryable error, or (only once the context is canceled)    *)
(* the context's error.  isJobCanceled looks the id up in runningIDSet.    *)
VerdictOf(w, s, result) ==
    CASE result = "nil"          -> "complete"
      [] result = "error"        -> "errored"
      [] result = "nonretryable" -> "failed"
      [] result = "ctx"          -> IF Has(w, slot[w][s].rec) THEN "canceled"
                                                              ELSE "errored"

Results(w, s) == {"nil", "error", "nonretryable"}
                   \cup (IF slot[w][s].ctx THEN {"ctx"} ELSE {})

HandlerReturns(w, s) ==
    /\ slot[w][s].pc = "handling"
    /\ \E result \in Results(w, s) :
         slot' = [slot EXCEPT ![w][s] =
                    [@ EXCEPT !.pc = "finalizing",
                              !.verdict = VerdictOf(w, s, result)]]
    /\ UNCHANGED <<jobs, loop, sem, running, beat, resetter, crashes, requeues>>

(* Some handlers requeue the record they are processing and then return.   *)
HandlerRequeues(w, s) ==
    /\ slot[w][s].pc = "handling"
    /\ requeues < MaxRequeues
    /\ requeues' = requeues + 1
    /\ \E delay \in 0 .. MaxDelay : Requeue(slot[w][s].rec, delay)
    /\ slot' = [slot EXCEPT ![w][s].requeued = TRUE]
    /\ UNCHANGED <<loop, sem, running, beat, resetter, crashes>>

(* The statement of the Mark call, with the outcomes of the verdict.       *)
MarkStatement(w, s) ==
    LET r == slot[w][s].rec
    IN  CASE slot[w][s].verdict = "complete" -> MarkComplete(r, w)
          [] slot[w][s].verdict = "errored"  -> MarkErrored(r, w)
          [] OTHER                           -> MarkFailed(r, w)

(* The Mark call; if the store cannot be reached nothing is written, and   *)
(* the error is only logged.                                               *)
Finalize(w, s) ==
    /\ slot[w][s].pc = "finalizing"
    /\ MarkStatement(w, s) \/ UNCHANGED jobs
    /\ slot' = [slot EXCEPT ![w][s].pc = "cleanup"]
    /\ UNCHANGED <<loop, sem, running, beat, resetter, crashes, requeues>>

(* PostHandle returns; the token goes back and wg is done.                 *)
ReturnToken(w, s) ==
    /\ slot[w][s].pc = "cleanup"
    /\ sem' = [sem EXCEPT ![w] = @ + 1]
    /\ slot' = [slot EXCEPT ![w][s].pc = "removing"]
    /\ UNCHANGED <<jobs, loop, running, beat, resetter, crashes, requeues>>

(* Mutant of RemoveRunning: the goroutine ends and its id stays.           *)
LeaveRunning(w, s) ==
    /\ slot[w][s].pc = "removing"
    /\ slot' = [slot EXCEPT ![w][s] = FreeSlot]
    /\ UNCHANGED <<jobs, loop, sem, running, beat, resetter, crashes, requeues>>

(* The deferred runningIDSet.Remove removes the id, whoever added it last. *)
RemoveRunning(w, s) ==
    /\ slot[w][s].pc = "removing"
    /\ running' = [running EXCEPT ![w][slot[w][s].rec] = NoSlot]
    /\ slot' = [slot EXCEPT ![w] =
                  [Canceled(w, slot[w][s].rec) EXCEPT ![s] = FreeSlot]]
    /\ UNCHANGED <<jobs, loop, sem, beat, resetter, crashes, requeues>>

-----------------------------------------------------------------------------
(* The heartbeat loop.  An answer is applied one id at a time, removals    *)
(* first.                                                                  *)

RunningIDs(w) == {r \in Records : Has(w, r)}

(* Mutant of ToApply: ids the store no longer knows are ignored.           *)
ToApplyCanceled(unknown, cancel) ==
    IF cancel = {} THEN IdleBeat
                   ELSE [IdleBeat EXCEPT !.pc = "apply", !.cancel = cancel]

ToApply(unknown, cancel) ==
    IF unknown \cup cancel = {}
      THEN IdleBeat
      ELSE [IdleBeat EXCEPT !.pc = "apply", !.unknown = unknown,
                            !.cancel = cancel]

BeatSlice(w) ==
    /\ beat[w].pc = "idle"
    /\ RunningIDs(w) # {}
    /\ beat' = [beat EXCEPT ![w] = [@ EXCEPT !.pc = "sent",
                                             !.ids = RunningIDs(w)]]
    /\ UNCHANGED <<jobs, loop, sem, running, slot, resetter, crashes, requeues>>

BeatSend(w) ==
    /\ beat[w].pc = "sent"
    /\ Heartbeat(beat[w].ids, w, beat[w].lag)
    /\ beat' = [beat EXCEPT ![w] =
                  ToApply(@.ids \ KnownIDs(@.ids, w), CancelIDs(@.ids, w))]
    /\ UNCHANGED <<loop, sem, running, slot, resetter, crashes, requeues>>

(* The heartbeat fails, before or after the statement took effect.         *)
BeatFails(w) ==
    /\ beat[w].pc = "sent"
    /\ Heartbeat(beat[w].ids, w, beat[w].lag) \/ UNCHANGED jobs
    /\ beat' = [beat EXCEPT ![w] = IdleBeat]
    /\ UNCHANGED <<loop, sem, running, slot, resetter, crashes, requeues>>

BeatRemove(w) ==
    /\ beat[w].pc = "apply"
    /\ \E r \in beat[w].unknown :
         /\ IDSetRemove(w, r)
         /\ beat' = [beat EXCEPT ![w] = ToApply(@.unknown \ {r}, @.cancel)]
    /\ UNCHANGED <<jobs, loop, sem, resetter, crashes, requeues>>

BeatCancel(w) ==
    /\ beat[w].pc = "apply"
    /\ beat[w].unknown = {}
    /\ \E r \in beat[w].cancel :
         /\ IDSetCancel(w, r)
         /\ beat' = [beat EXCEPT ![w] = ToApply({}, @.cancel \ {r})]
    /\ UNCHANGED <<jobs, loop, sem, resetter, crashes, requeues>>

(* finished is closed.                                                     *)
BeatEnds(w) ==
    /\ beat[w].pc = "idle"
    /\ loop[w].pc = "stopped"
    /\ beat' = [beat EXCEPT ![w].pc = "done"]
    /\ UNCHANGED <<jobs, loop, sem, running, slot, resetter, crashes, requeues>>

-----------------------------------------------------------------------------
(* The resetter: ResetStalled reads the clock and sends two statements.    *)

Resetting == resetter.pc \in {"reset", "fail"}

ResetterReads ==
    /\ resetter.pc = "idle"
    /\ resetter' = [resetter EXCEPT !.pc = "reset"]
    /\ UNCHANGED <<jobs, loop, sem, running, slot, beat, crashes, requeues>>

ResetterResets ==
    /\ resetter.pc = "reset"
    /\ ResetStalledQuery(resetter.lag)
    /\ resetter' = [resetter EXCEPT !.pc = "fail",
                                    !.ids = ResettableIDs(resetter.lag)]
    /\ UNCHANGED <<loop, sem, running, slot, beat, crashes, requeues>>

ResetterFails ==
    /\ resetter.pc = "fail"
    /\ ResetStalledMaxResetsQuery(resetter.lag)
    /\ resetter' = IdleResetter
    /\ UNCHANGED <<loop, sem, running, slot, beat, crashes, requeues>>

(* A statement, or the answer of the first, is lost: ResetStalled returns  *)
(* early and the resetter polls again.                                     *)
ResetterErrors ==
    /\ \/ resetter.pc = "reset" /\ ResetStalledQuery(resetter.lag)
       \/ Resetting /\ UNCHANGED jobs
    /\ resetter' = IdleResetter
    /\ UNCHANGED <<loop, sem, running, slot, beat, crashes, requeues>>

-----------------------------------------------------------------------------
(* The environment.                                                        *)

UserCancels == /\ \E r \in Records : CancelJob(r)
               /\ UNCHANGED <<loop, sem, running, slot, beat, resetter,
                               crashes, requeues>>

UserDeletes == /\ \E r \in Records : DeleteJob(r)
               /\ UNCHANGED <<loop, sem, running, slot, beat, resetter,
                               crashes, requeues>>

(* The process of w dies and is started again under the same hostname.     *)
Crash(w) ==
    /\ crashes < MaxCrashes
    /\ crashes' = crashes + 1
    /\ loop' = [loop EXCEPT ![w] = FirstLoop]
    /\ sem' = [sem EXCEPT ![w] = NumHandlers]
    /\ running' = [running EXCEPT ![w] = [r \in Records |-> NoSlot]]
    /\ slot' = [slot EXCEPT ![w] = [s \in Slots |-> FreeSlot]]
    /\ beat' = [beat EXCEPT ![w] = IdleBeat]
    /\ UNCHANGED <<jobs, resetter, requeues>>

(* Every record a worker has registered was refreshed recently enough not  *)
(* to be stalled after the next tick, no store call of a worker is under   *)
(* way, and goroutines done with their record have left runningIDSet.      *)
OnTime(w) ==
    /\ loop[w].pc \notin {"snapshot", "claim", "register"}
    /\ beat[w].pc \in {"idle", "done"}
    /\ \A s \in Slots : slot[w][s].pc \notin {"cleanup", "removing"}
    /\ \A r \in RunningIDs(w) : jobs[r].state = "processing" =>
            jobs[r].heartbeat_age < StalledMaxAge

(* Calls of a worker that have read the clock.                             *)
Dequeuing(w) == loop[w].pc \in {"snapshot", "claim"}
Beating(w) == beat[w].pc = "sent"

(* With Prompt, time only passes when every worker is on time: the         *)
(* heartbeat interval, statements and PostHandle are short against         *)
(* StalledMaxAge and RetryAfter.  Without it handlers, goroutines and Mark *)
(* calls may take for ever, and the calls that have read the clock until   *)
(* MaxCallTicks and MaxPassTicks.                                          *)
TimePasses ==
    /\ Prompt => \A w \in Workers : OnTime(w)
    /\ \A w \in Workers : /\ Dequeuing(w) => loop[w].lag < MaxCallTicks
                          /\ Beating(w) => beat[w].lag < MaxCallTicks
    /\ Resetting => resetter.lag < MaxPassTicks
    /\ Tick
    /\ loop' = [w \in Workers |-> IF Dequeuing(w)
                                    THEN [loop[w] EXCEPT !.lag = @ + 1]
                                    ELSE loop[w]]
    /\ beat' = [w \in Workers |-> IF Beating(w)
                                    THEN [beat[w] EXCEPT !.lag = @ + 1]
                                    ELSE beat[w]]
    /\ resetter' = IF Resetting THEN [resetter EXCEPT !.lag = @ + 1]
                                ELSE resetter
    /\ UNCHANGED <<sem, running, slot, crashes, requeues>>

-----------------------------------------------------------------------------
LoopStep(w) ==
    \/ Acquire(w) \/ LoopEnds(w) \/ PreDequeue(w) \/ PreDequeueDeclines(w)
    \/ DequeueSnapshot(w) \/ DequeueRefused(w) \/ DequeueRecord(w)
    \/ DequeueNothing(w) \/ DequeueFails(w) \/ Register(w) \/ AlreadyExists(w)
    \/ Wait(w) \/ WaitEnds(w) \/ Drained(w)

HandlerStep(w, s) ==
    \/ HandlerReturns(w, s) \/ HandlerRequeues(w, s) \/ Finalize(w, s)
    \/ ReturnToken(w, s) \/ RemoveRunning(w, s)

BeatStep(w) ==
    \/ BeatSlice(w) \/ BeatSend(w) \/ BeatFails(w) \/ BeatRemove(w)
    \/ BeatCancel(w) \/ BeatEnds(w)

ResetterStep ==
    ResetterReads \/ ResetterResets \/ ResetterFails \/ ResetterErrors

Next == \/ \E w \in Workers : LoopStep(w) \/ BeatStep(w) \/ Stop(w) \/ Crash(w)
        \/ \E w \in Workers, s \in Slots : HandlerStep(w, s)
        \/ ResetterStep
        \/ UserCancels \/ UserDeletes
        \/ TimePasses

Spec == Init /\ [][Next]_vars

-----------------------------------------------------------------------------
(* Safety.                                                                 *)

HoldsToken(w) == loop[w].pc \in {"hook", "snapshot", "claim", "register"}

(* No path through dequeueAndHandle or a handler goroutine loses a token   *)
(* of handlerSemaphore or returns one twice (worker.go: the deferred put   *)
(* unless a record was dequeued, the goroutine's put otherwise).           *)
TokensConserved ==
    \A w \in Workers :
        sem[w] + (IF HoldsToken(w) THEN 1 ELSE 0) + Cardinality(InFlight(w))
          = NumHandlers

(* No entry of runningIDSet outlives the goroutine it was added for: what  *)
(* an entry cancels is a goroutine still working on that record.           *)
EntriesAlive ==
    \A w \in Workers, r \in Records : running[w][r] # NoSlot =>
        /\ slot[w][running[w][r]].rec = r
        /\ slot[w][running[w][r]].pc # "free"

(* Every goroutine whose context is not canceled is in runningIDSet, so    *)
(* heartbeats cover it: an id only leaves the set together with a cancel,  *)
(* also when the heartbeat loop and two goroutines of one record race.     *)
HandlersCovered ==
    \A w \in Workers, s \in Slots :
        slot[w][s].pc # "free" /\ ~slot[w][s].ctx =>
            running[w][slot[w][s].rec] = s

(* One ResetStalled call never fails a record it has just put back, even   *)
(* if the record is dequeued again between the two statements.  This takes *)
(* MaxCallTicks <= StalledMaxAge: a Dequeue (or Heartbeat) that is under   *)
(* way for longer writes a last_heartbeat_at that is already stalled.      *)
ResetNotFailed ==
    resetter.pc = "fail" => resetter.ids \cap UnresettableIDs(resetter.lag) = {}

(* A goroutine that may act on its record: it has neither been told to     *)
(* stop nor given the record back.                                         *)
Owns(w, s) == /\ slot[w][s].pc \in {"handling", "finalizing"}
              /\ ~slot[w][s].ctx
              /\ ~slot[w][s].requeued

(* As long as heartbeats are on time and no handler has requeued a record, *)
(* nobody takes a record away from the goroutine that works on it: neither *)
(* the resetter nor the verdict of an earlier attempt.  (Only deletion     *)
(* does.)                                                                  *)
OwnersHold ==
    \A w \in Workers, s \in Slots : Owns(w, s) =>
        LET job == jobs[slot[w][s].rec]
        IN  job.state = "deleted" \/
            (job.state = "processing" /\ job.worker_hostname = w)

(* As long as heartbeats are on time and no handler has requeued a record, *)
(* no record is processed by two goroutines concurrently, in one worker or *)
(* in two (worker.go, Start).                                              *)
OneOwner ==
    \A w1, w2 \in Workers, s1, s2 \in Slots :
        /\ Owns(w1, s1)
        /\ Owns(w2, s2)
        /\ slot[w1][s1].rec = slot[w2][s2].rec
        => w1 = w2 /\ s1 = s2

(* As long as heartbeats are on time and no handler has requeued a record, *)
(* runningIDSet.Add does not refuse a record that was just dequeued:       *)
(* ErrJobAlreadyExists, which leaves the claimed row to the resetter, is   *)
(* not returned although goroutines leave the set after their Mark call    *)
(* and after their token is back (worker.go:322, :359).                    *)
AddAccepts ==
    \A w \in Workers : loop[w].pc = "register" =>
        running[w][loop[w].rec] = NoSlot

(* What the comment on isJobCanceled says: a context that is canceled      *)
(* while the id is in runningIDSet was canceled through the Cancel         *)
(* interface.                                                              *)
CanceledOnlyOnRequest ==
    \A w \in Workers, s \in Slots : slot[w][s].verdict = "canceled" =>
        jobs[slot[w][s].rec].cancel

-----------------------------------------------------------------------------
(* Liveness.                                                               *)

(* The runtime schedules every goroutine, the clock advances, and the      *)
(* database is not unreachable for ever.  A handler whose context is       *)
(* canceled returns.                                                       *)
Fairness ==
    /\ SF_vars(TimePasses)
    /\ WF_vars(ResetterReads)
    /\ SF_vars(ResetterResets) /\ SF_vars(ResetterFails)
    /\ \A w \in Workers :
         /\ WF_vars(LoopStep(w))
         /\ SF_vars(DequeueRecord(w))
         /\ WF_vars(BeatStep(w))
         /\ SF_vars(BeatSend(w))
    /\ \A w \in Workers, s \in Slots :
         /\ WF_vars(slot[w][s].ctx /\ HandlerReturns(w, s))
         /\ WF_vars(Finalize(w, s))
         /\ WF_vars(ReturnToken(w, s))
         /\ WF_vars(RemoveRunning(w, s))

FairSpec == Spec /\ Fairness

(* Handlers return by themselves as well.                                  *)
ReturningHandlers ==
    \A w \in Workers, s \in Slots : WF_vars(HandlerReturns(w, s))

(* Every record is closed for good in the end, whatever crashes, lost or   *)
(* late answers, retries and resets it goes through.                       *)
EventuallyClosed ==
    \A r \in Records : <>[](jobs[r].state \in Terminal \cup {"deleted"})

(* A worker eventually notices that a record it handles was removed from   *)
(* the database (doc/dev/background-information/workers.md, Cancellation), *)
(* or that it was canceled: it cancels the handler's context.              *)
LossNoticed ==
    \A w \in Workers, s \in Slots, r \in Records :
        (/\ slot[w][s].pc = "handling" /\ slot[w][s].rec = r
         /\ jobs[r].state = "deleted" \/ jobs[r].cancel)
          ~> (slot[w][s].ctx \/ slot[w][s].pc # "handling")

(* Stop returns if handlers do: the dequeue loop ends and they drain.      *)
StopReturns ==
    ReturningHandlers => \A w \in Workers :
        loop[w].stopping ~> (loop[w].pc = "stopped" \/ ~loop[w].stopping)

=============================================================================
