---------------------------- MODULE WorkerProofs ----------------------------
(***************************************************************************)
(* What the job table guarantees whatever its clients do, and what holds   *)
(* of any number of workers, resetters, records and goroutines, whatever   *)
(* the timing.                                                             *)
(***************************************************************************)
EXTENDS Worker, FiniteSetTheorems, TLAPS

-----------------------------------------------------------------------------
(* The job table (WorkerStore).                                            *)

(* What each statement writes into a row is again a row.                   *)
LEMMA RowTypes ==
    ASSUME NEW job \in Job
    PROVE  /\ \A h \in Workers, lag \in 0 .. MaxCallTicks :
                /\ Claimed(job, h, lag) \in Job
                /\ [job EXCEPT !.heartbeat_age = BeatAge(lag)] \in Job
           /\ \A d \in 0 .. MaxDelay : Requeued(job, d) \in Job
           /\ CompletedJob(job) \in Job
           /\ ErroredJob(job) \in Job
           /\ FailedJob(job) \in Job
           /\ ResetJob(job) \in Job
           /\ AbandonedJob(job) \in Job
           /\ CanceledJob(job) \in Job
           /\ [job EXCEPT !.state = "deleted"] \in Job
           /\ Older(job) \in Job
<1>a. /\ OldestHeartbeat \in Nat /\ OldestFinish \in Nat /\ MaxDelay \in Nat
      /\ LongDue \in Int /\ LongDue <= 0
  BY StoreAssumption DEF OldestHeartbeat, OldestFinish, LongDue
<1>b. /\ 0 \in 0 .. OldestHeartbeat /\ 0 \in 0 .. OldestFinish
      /\ \A d \in 0 .. MaxDelay : d \in LongDue .. MaxDelay
  BY <1>a
<1>c. job.num_failures + 1 \in Nat /\ job.num_resets + 1 \in Nat
  BY DEF Job
<1>d. /\ (IF job.heartbeat_age < OldestHeartbeat
            THEN job.heartbeat_age + 1 ELSE job.heartbeat_age) \in 0 .. OldestHeartbeat
      /\ (IF job.finished_age < OldestFinish
            THEN job.finished_age + 1 ELSE job.finished_age) \in 0 .. OldestFinish
      /\ (IF job.process_in > LongDue
            THEN job.process_in - 1 ELSE job.process_in) \in LongDue .. MaxDelay
  BY <1>a DEF Job
<1>e. \A lag \in 0 .. MaxCallTicks : BeatAge(lag) \in 0 .. OldestHeartbeat
  BY <1>a, StoreAssumption DEF BeatAge
<1> USE <1>b, <1>c DEF Job, States
<1>1. ASSUME NEW h \in Workers, NEW lag \in 0 .. MaxCallTicks
      PROVE  /\ Claimed(job, h, lag) \in Job
             /\ [job EXCEPT !.heartbeat_age = BeatAge(lag)] \in Job
  BY <1>e DEF Claimed
<1>2. ASSUME NEW d \in 0 .. MaxDelay PROVE Requeued(job, d) \in Job
  BY DEF Requeued
<1>4. CompletedJob(job) \in Job
  BY DEF CompletedJob
<1>5. ErroredJob(job) \in Job
  BY DEF ErroredJob
<1>6. FailedJob(job) \in Job
  BY DEF FailedJob
<1>7. ResetJob(job) \in Job
  BY DEF ResetJob
<1>8. AbandonedJob(job) \in Job
  BY DEF AbandonedJob
<1>9. CanceledJob(job) \in Job
  BY DEF CanceledJob
<1>10. [job EXCEPT !.state = "deleted"] \in Job
  OBVIOUS
<1>11. Older(job) \in Job
  BY <1>d DEF Older
<1> QED
  BY <1>1, <1>2, <1>4, <1>5, <1>6, <1>7, <1>8, <1>9, <1>10, <1>11

(* Every statement of the store keeps the table well formed.               *)
LEMMA StoreStepType == StoreTypeOK /\ [StoreNext]_jobs => StoreTypeOK'
<1> SUFFICES ASSUME StoreTypeOK, [StoreNext]_jobs
             PROVE  StoreTypeOK'
  OBVIOUS
<1> USE DEF StoreTypeOK
<1>1. CASE UNCHANGED jobs
  BY <1>1
<1>2. ASSUME NEW r \in Records, NEW h \in Workers,
             NEW lag \in 0 .. MaxCallTicks,
             DequeueClaim(r, h, lag) \/ MarkComplete(r, h) \/ MarkErrored(r, h)
               \/ MarkFailed(r, h)
      PROVE  StoreTypeOK'
  <2> DEFINE job == jobs[r]
  <2>1. /\ job \in Job
        /\ Claimed(job, h, lag) \in Job
        /\ CompletedJob(job) \in Job
        /\ ErroredJob(job) \in Job
        /\ FailedJob(job) \in Job
    BY RowTypes
  <2>2. \E row \in Job : jobs' = jobs \/ jobs' = [jobs EXCEPT ![r] = row]
    BY <1>2, <2>1
    DEF DequeueClaim, MarkComplete, MarkErrored, MarkFailed, MarkFinal
  <2> QED
    BY <2>2
<1>3. ASSUME NEW ids \in SUBSET Records, NEW h \in Workers,
             NEW lag \in 0 .. MaxCallTicks, Heartbeat(ids, h, lag)
      PROVE  StoreTypeOK'
  BY <1>3, RowTypes DEF Heartbeat
<1>4. ASSUME NEW r \in Records, NEW d \in 0 .. MaxDelay, Requeue(r, d)
      PROVE  StoreTypeOK'
  BY <1>4, RowTypes DEF Requeue
<1>5. ASSUME NEW r \in Records, CancelJob(r) \/ DeleteJob(r)
      PROVE  StoreTypeOK'
  <2>1. /\ CanceledJob(jobs[r]) \in Job
        /\ [jobs[r] EXCEPT !.state = "deleted"] \in Job
    BY RowTypes
  <2>2. \E row \in Job : jobs' = [jobs EXCEPT ![r] = row]
    BY <1>5, <2>1 DEF CancelJob, DeleteJob
  <2> QED
    BY <2>2
<1>6. ASSUME NEW lag \in 0 .. MaxPassTicks, ResetStalledQuery(lag)
      PROVE  StoreTypeOK'
  BY <1>6, RowTypes DEF ResetStalledQuery
<1>7. ASSUME NEW lag \in 0 .. MaxPassTicks, ResetStalledMaxResetsQuery(lag)
      PROVE  StoreTypeOK'
  BY <1>7, RowTypes DEF ResetStalledMaxResetsQuery
<1>8. CASE Tick
  BY <1>8, RowTypes DEF Tick
<1>9. 0 \in 0 .. MaxCallTicks
  BY StoreAssumption
<1> QED
  BY <1>1, <1>2, <1>3, <1>4, <1>5, <1>6, <1>7, <1>8, <1>9 DEF StoreNext, Statement

(* The rows of the table are well formed in every reachable state.         *)
THEOREM StoreTypeCorrect == StoreSpec => []StoreTypeOK
<1>1. StoreInit => StoreTypeOK
  BY StoreAssumption
  DEF StoreInit, StoreTypeOK, NewJob, Job, States, OldestHeartbeat, OldestFinish,
      LongDue
<1> QED
  BY <1>1, StoreStepType, PTL DEF StoreSpec

-----------------------------------------------------------------------------
(* How one row can change in one statement.                                *)
RowWrite(old, new) ==
    \/ new = old
    \/ /\ Recheck(old)
       /\ \E h \in Workers, lag \in 0 .. MaxCallTicks : new = Claimed(old, h, lag)
    \/ /\ old.state = "processing"
       /\ \/ new = CompletedJob(old)
          \/ new = ErroredJob(old)
          \/ new = FailedJob(old)
          \/ new = AbandonedJob(old)
          \/ \E lag \in 0 .. MaxCallTicks :
               new = [old EXCEPT !.heartbeat_age = BeatAge(lag)]
    \/ old.state # "deleted" /\ \E d \in 0 .. MaxDelay : new = Requeued(old, d)
    \/ /\ old.state = "processing"
       /\ old.num_resets < MaxNumResets
       /\ new = ResetJob(old)
    \/ old.state \in {"queued", "processing"} /\ new = CanceledJob(old)
    \/ new = [old EXCEPT !.state = "deleted"]

(* ... and in one step.                                                    *)
RowStep(old, new) == RowWrite(old, new) \/ new = Older(old)

(* Whatever the statement, every row changes by a RowWrite.                *)
LEMMA StatementRowWrite ==
    ASSUME StoreTypeOK, [Statement]_jobs, NEW r \in Records
    PROVE  RowWrite(jobs[r], jobs'[r])
<1> USE DEF StoreTypeOK
<1>1. CASE UNCHANGED jobs
  BY <1>1 DEF RowWrite
<1>2. ASSUME NEW q \in Records, NEW h \in Workers,
             NEW lag \in 0 .. MaxCallTicks, DequeueClaim(q, h, lag)
      PROVE  RowWrite(jobs[r], jobs'[r])
  BY <1>2 DEF DequeueClaim, RowWrite
<1>3. ASSUME NEW q \in Records, NEW h \in Workers,
             MarkComplete(q, h) \/ MarkErrored(q, h) \/ MarkFailed(q, h)
      PROVE  RowWrite(jobs[r], jobs'[r])
  BY <1>3 DEF MarkComplete, MarkErrored, MarkFailed, MarkFinal, Held, RowWrite
<1>4. ASSUME NEW ids \in SUBSET Records, NEW h \in Workers,
             NEW lag \in 0 .. MaxCallTicks, Heartbeat(ids, h, lag)
      PROVE  RowWrite(jobs[r], jobs'[r])
  BY <1>4 DEF Heartbeat, KnownIDs, Held, RowWrite
<1>5. ASSUME NEW q \in Records, NEW d \in 0 .. MaxDelay, Requeue(q, d)
      PROVE  RowWrite(jobs[r], jobs'[r])
  BY <1>5 DEF Requeue, RowWrite
<1>6. ASSUME NEW q \in Records, CancelJob(q)
      PROVE  RowWrite(jobs[r], jobs'[r])
  BY <1>6 DEF CancelJob, RowWrite
<1>7. ASSUME NEW q \in Records, DeleteJob(q)
      PROVE  RowWrite(jobs[r], jobs'[r])
  BY <1>7 DEF DeleteJob, RowWrite
<1>8. ASSUME NEW lag \in 0 .. MaxPassTicks, ResetStalledQuery(lag)
      PROVE  RowWrite(jobs[r], jobs'[r])
  BY <1>8 DEF ResetStalledQuery, ResettableIDs, Stalled, RowWrite
<1>9. ASSUME NEW lag \in 0 .. MaxPassTicks, ResetStalledMaxResetsQuery(lag)
      PROVE  RowWrite(jobs[r], jobs'[r])
  BY <1>9 DEF ResetStalledMaxResetsQuery, UnresettableIDs, Stalled, RowWrite
<1> QED
  BY <1>1, <1>2, <1>3, <1>4, <1>5, <1>6, <1>7, <1>8, <1>9 DEF Statement

LEMMA StoreRowStep ==
    ASSUME StoreTypeOK, [StoreNext]_jobs, NEW r \in Records
    PROVE  RowStep(jobs[r], jobs'[r])
<1>1. CASE [Statement]_jobs
  BY <1>1, StatementRowWrite DEF RowStep
<1>2. CASE Tick
  BY <1>2 DEF Tick, RowStep
<1> QED
  BY <1>1, <1>2 DEF StoreNext

(* The invariant of one row: the two invariants the run checks, and that   *)
(* no reset exceeds the limit, which the budget of the lifecycle needs.    *)
RowInv(job) ==
    /\ job.state = "errored" => job.num_failures < MaxNumRetries /\ ~job.cancel
    /\ job.num_resets <= MaxNumResets
    /\ job.state = "canceled" => job.cancel

LEMMA RowInvStep ==
    ASSUME NEW old \in Job, NEW new, RowStep(old, new), RowInv(old)
    PROVE  RowInv(new)
<1> USE StoreAssumption DEF RowInv, Job
<1>1. ASSUME NEW h \in Workers, NEW lag \in 0 .. MaxCallTicks,
             new = Claimed(old, h, lag)
      PROVE  RowInv(new)
  BY <1>1 DEF Claimed
<1>2. CASE old.state = "processing" /\ new = CompletedJob(old)
  BY <1>2 DEF CompletedJob
<1>3. CASE old.state = "processing" /\ new = ErroredJob(old)
  BY <1>3 DEF ErroredJob
<1>4. CASE old.state = "processing" /\ new = FailedJob(old)
  BY <1>4 DEF FailedJob
<1>5. CASE old.state = "processing" /\ new = AbandonedJob(old)
  BY <1>5 DEF AbandonedJob
<1>6. ASSUME NEW lag \in 0 .. MaxCallTicks,
             new = [old EXCEPT !.heartbeat_age = BeatAge(lag)]
      PROVE  RowInv(new)
  BY <1>6
<1>7. ASSUME NEW d \in 0 .. MaxDelay, new = Requeued(old, d) PROVE RowInv(new)
  BY <1>7 DEF Requeued
<1>8. CASE old.num_resets < MaxNumResets /\ new = ResetJob(old)
  BY <1>8 DEF ResetJob
<1>9. CASE old.state \in {"queued", "processing"} /\ new = CanceledJob(old)
  BY <1>9 DEF CanceledJob
<1>10. CASE new = [old EXCEPT !.state = "deleted"]
  BY <1>10
<1>11. CASE new = Older(old)
  BY <1>11 DEF Older
<1> QED
  BY <1>1, <1>2, <1>3, <1>4, <1>5, <1>6, <1>7, <1>8, <1>9, <1>10, <1>11
  DEF RowStep, RowWrite

StoreInv == \A r \in Records : RowInv(jobs[r])

LEMMA StoreInvInit == StoreInit => StoreInv
  BY StoreAssumption DEF StoreInit, StoreInv, RowInv, NewJob

LEMMA StoreInvStep ==
    StoreTypeOK /\ StoreInv /\ [StoreNext]_jobs => StoreInv'
<1> SUFFICES ASSUME StoreTypeOK, StoreInv, [StoreNext]_jobs, NEW r \in Records
             PROVE  RowInv(jobs'[r])
  BY DEF StoreInv
<1>1. jobs[r] \in Job /\ RowInv(jobs[r])
  BY DEF StoreTypeOK, StoreInv
<1> QED
  BY <1>1, StoreRowStep, RowInvStep

(* The three facts about a row hold in every reachable state.              *)
LEMMA StoreInvariant == StoreSpec => []StoreInv
  BY StoreInvInit, StoreInvStep, StoreTypeCorrect, PTL DEF StoreSpec

(* A record that waits for a retry has failures left and was not canceled, *)
(* although Dequeue checks neither.                                        *)
THEOREM RetriesAllowedAlways == StoreSpec => []RetriesAllowed
<1>1. StoreInv => RetriesAllowed
  BY DEF StoreInv, RowInv, RetriesAllowed
<1> QED
  BY <1>1, StoreInvariant, PTL

(* No record is in state canceled unless its cancel flag is set.           *)
THEOREM CanceledOnRequestAlways == StoreSpec => []CanceledOnRequest
<1>1. StoreInv => CanceledOnRequest
  BY DEF StoreInv, RowInv, CanceledOnRequest
<1> QED
  BY <1>1, StoreInvariant, PTL

-----------------------------------------------------------------------------
(* The table implements JobLifecycle.  First what each statement does to   *)
(* the abstract status and budget of a row.                                *)

LEMMA BudgetType ==
    ASSUME NEW job \in Job, RowInv(job)
    PROVE  /\ BudgetOf(job) \in Nat
           /\ job.state \in {"queued", "errored"} => BudgetOf(job) > 0
<1>1. RetriesLeft(job.num_failures) \in Nat
  BY StoreAssumption DEF RetriesLeft, Job
<1>2. MaxNumResets - job.num_resets \in Nat
  BY StoreAssumption DEF RowInv, Job
<1> QED
  BY <1>1, <1>2 DEF BudgetOf

LEMMA RowEffects ==
    ASSUME NEW job \in Job, RowInv(job)
    PROVE  /\ \A h \in Workers, lag \in 0 .. MaxCallTicks : Recheck(job) =>
                /\ StatusOf(job) = "waiting"
                /\ StatusOf(Claimed(job, h, lag)) = "running"
                /\ BudgetOf(Claimed(job, h, lag)) = BudgetOf(job) - 1
           /\ job.state = "processing" =>
                /\ StatusOf(job) = "running"
                /\ StatusOf(CompletedJob(job)) = "completed"
                /\ BudgetOf(CompletedJob(job)) = BudgetOf(job)
                /\ StatusOf(AbandonedJob(job)) = "failed"
                /\ BudgetOf(AbandonedJob(job)) = BudgetOf(job)
           /\ \A d \in 0 .. MaxDelay : job.state # "deleted" =>
                /\ StatusOf(job) # "gone"
                /\ StatusOf(Requeued(job, d)) = "waiting"
                /\ BudgetOf(Requeued(job, d)) =
                      IF StatusOf(job) = "waiting" THEN BudgetOf(job)
                                                   ELSE BudgetOf(job) + 1
           /\ job.state = "processing" /\ job.num_resets < MaxNumResets =>
                /\ BudgetOf(job) > 0
                /\ StatusOf(ResetJob(job)) = "waiting"
                /\ BudgetOf(ResetJob(job)) = BudgetOf(job)
<1>0. /\ RetriesLeft(job.num_failures) \in Nat
      /\ MaxNumResets - job.num_resets \in Nat
      /\ BudgetOf(job) \in Nat
  BY StoreAssumption, BudgetType DEF RetriesLeft, Job, RowInv
<1> USE <1>0, StoreAssumption DEF StatusOf, BudgetOf, Job, States
<1>1. ASSUME NEW h \in Workers, NEW lag \in 0 .. MaxCallTicks, Recheck(job)
      PROVE  /\ StatusOf(job) = "waiting"
             /\ StatusOf(Claimed(job, h, lag)) = "running"
             /\ BudgetOf(Claimed(job, h, lag)) = BudgetOf(job) - 1
  BY <1>1 DEF Recheck, Claimed
<1>2. ASSUME job.state = "processing"
      PROVE  /\ StatusOf(job) = "running"
             /\ StatusOf(CompletedJob(job)) = "completed"
             /\ BudgetOf(CompletedJob(job)) = BudgetOf(job)
             /\ StatusOf(AbandonedJob(job)) = "failed"
             /\ BudgetOf(AbandonedJob(job)) = BudgetOf(job)
  BY <1>2 DEF CompletedJob, AbandonedJob
<1>3. ASSUME NEW d \in 0 .. MaxDelay, job.state # "deleted"
      PROVE  /\ StatusOf(job) # "gone"
             /\ StatusOf(Requeued(job, d)) = "waiting"
             /\ BudgetOf(Requeued(job, d)) =
                   IF StatusOf(job) = "waiting" THEN BudgetOf(job)
                                                ELSE BudgetOf(job) + 1
  BY <1>3 DEF Requeued
<1>4. ASSUME job.state = "processing", job.num_resets < MaxNumResets
      PROVE  /\ BudgetOf(job) > 0
             /\ StatusOf(ResetJob(job)) = "waiting"
             /\ BudgetOf(ResetJob(job)) = BudgetOf(job)
  BY <1>4 DEF ResetJob
<1> QED
  BY <1>1, <1>2, <1>3, <1>4

(* The verdicts that record a failure.                                     *)
LEMMA FailureEffects ==
    ASSUME NEW job \in Job, RowInv(job), job.state = "processing"
    PROVE  /\ StatusOf(FailedJob(job)) \in {"failed", "canceled"}
           /\ BudgetOf(FailedJob(job)) \in 0 .. BudgetOf(job)
           /\ \/ /\ StatusOf(ErroredJob(job)) \in {"failed", "canceled"}
                 /\ BudgetOf(ErroredJob(job)) \in 0 .. BudgetOf(job)
              \/ /\ StatusOf(ErroredJob(job)) = "waiting"
                 /\ BudgetOf(job) > 0
                 /\ BudgetOf(ErroredJob(job)) = BudgetOf(job)
<1>1. /\ MaxNumResets - job.num_resets \in Nat
      /\ job.num_failures \in Nat
      /\ MaxNumRetries \in Nat
  BY StoreAssumption DEF Job, RowInv
<1>2. /\ RetriesLeft(job.num_failures) \in Nat
      /\ RetriesLeft(job.num_failures + 1) \in Nat
      /\ RetriesLeft(job.num_failures + 1) <= RetriesLeft(job.num_failures)
      /\ job.num_failures + 1 < MaxNumRetries =>
           RetriesLeft(job.num_failures) = RetriesLeft(job.num_failures + 1) + 1
  BY <1>1 DEF RetriesLeft
<1> USE <1>1, <1>2 DEF StatusOf, BudgetOf, Job, States
<1>3. /\ StatusOf(FailedJob(job)) \in {"failed", "canceled"}
      /\ BudgetOf(FailedJob(job)) \in 0 .. BudgetOf(job)
  BY DEF FailedJob
<1>4. CASE job.cancel \/ job.num_failures + 1 >= MaxNumRetries
  BY <1>3, <1>4 DEF ErroredJob
<1>5. CASE ~job.cancel /\ job.num_failures + 1 < MaxNumRetries
  BY <1>3, <1>5 DEF ErroredJob
<1> QED
  BY <1>4, <1>5

(* What a user's cancel and the removal of a row do.                       *)
LEMMA UserEffects ==
    ASSUME NEW job \in Job, RowInv(job)
    PROVE  /\ job.state = "queued" =>
                /\ StatusOf(job) = "waiting"
                /\ StatusOf(CanceledJob(job)) = "canceled"
                /\ BudgetOf(CanceledJob(job)) = BudgetOf(job) - 1
           /\ job.state = "processing" =>
                /\ StatusOf(CanceledJob(job)) = StatusOf(job)
                /\ BudgetOf(CanceledJob(job)) = BudgetOf(job)
           /\ StatusOf([job EXCEPT !.state = "deleted"]) = "gone"
           /\ BudgetOf([job EXCEPT !.state = "deleted"]) \in 0 .. BudgetOf(job)
           /\ StatusOf(Older(job)) = StatusOf(job)
           /\ BudgetOf(Older(job)) = BudgetOf(job)
           /\ \A lag \in 0 .. MaxCallTicks :
                LET beaten == [job EXCEPT !.heartbeat_age = BeatAge(lag)]
                IN  /\ StatusOf(beaten) = StatusOf(job)
                    /\ BudgetOf(beaten) = BudgetOf(job)
<1>0. /\ RetriesLeft(job.num_failures) \in Nat
      /\ MaxNumResets - job.num_resets \in Nat
  BY StoreAssumption DEF RetriesLeft, Job, RowInv
<1> USE <1>0 DEF StatusOf, BudgetOf, Job, States
<1>1. job.state = "processing" =>
        /\ StatusOf(CanceledJob(job)) = StatusOf(job)
        /\ BudgetOf(CanceledJob(job)) = BudgetOf(job)
  BY DEF CanceledJob
<1>2. /\ StatusOf([job EXCEPT !.state = "deleted"]) = "gone"
      /\ BudgetOf([job EXCEPT !.state = "deleted"]) \in 0 .. BudgetOf(job)
  OBVIOUS
<1>3. /\ StatusOf(Older(job)) = StatusOf(job)
      /\ BudgetOf(Older(job)) = BudgetOf(job)
  BY DEF Older
<1>4. ASSUME NEW lag \in 0 .. MaxCallTicks
      PROVE  LET beaten == [job EXCEPT !.heartbeat_age = BeatAge(lag)]
             IN  /\ StatusOf(beaten) = StatusOf(job)
                 /\ BudgetOf(beaten) = BudgetOf(job)
  OBVIOUS
<1>5. job.state = "queued" =>
        /\ StatusOf(job) = "waiting"
        /\ StatusOf(CanceledJob(job)) = "canceled"
        /\ BudgetOf(CanceledJob(job)) = BudgetOf(job) - 1
  BY DEF CanceledJob
<1> QED
  BY <1>1, <1>2, <1>3, <1>4, <1>5

LEMMA RefinementStep ==
    StoreTypeOK /\ StoreInv /\ [StoreNext]_jobs =>
        [Lifecycle!Next]_(Lifecycle!lifecycleVars)
<1> SUFFICES ASSUME StoreTypeOK, StoreInv, [StoreNext]_jobs
             PROVE  [Lifecycle!Next]_(Lifecycle!lifecycleVars)
  OBVIOUS
<1> DEFINE st == [r \in Records |-> StatusOf(jobs[r])]
           bu == [r \in Records |-> BudgetOf(jobs[r])]
<1>r. \A r \in Records : jobs[r] \in Job /\ RowInv(jobs[r])
  BY DEF StoreTypeOK, StoreInv
<1>b. \A r \in Records : bu[r] \in Nat
  BY <1>r, BudgetType
<1> USE <1>r DEF StoreTypeOK
<1>1. CASE UNCHANGED jobs
  BY <1>1 DEF Lifecycle!lifecycleVars
<1>2. ASSUME NEW q \in Records, NEW h \in Workers,
             NEW lag \in 0 .. MaxCallTicks, DequeueClaim(q, h, lag)
      PROVE  Lifecycle!Claim(q)
  <2>1. /\ Recheck(jobs[q])
        /\ jobs' = [jobs EXCEPT ![q] = Claimed(jobs[q], h, lag)]
    BY <1>2 DEF DequeueClaim
  <2>2. /\ st[q] = "waiting"
        /\ bu[q] > 0
        /\ StatusOf(Claimed(jobs[q], h, lag)) = "running"
        /\ BudgetOf(Claimed(jobs[q], h, lag)) = bu[q] - 1
    BY <2>1, RowEffects, BudgetType DEF Recheck
  <2>3. /\ st' = [st EXCEPT ![q] = "running"]
        /\ bu' = [bu EXCEPT ![q] = bu[q] - 1]
    BY <2>1, <2>2
  <2> QED
    BY <2>2, <2>3 DEF Lifecycle!Claim
<1>3. ASSUME NEW q \in Records, NEW h \in Workers,
             MarkComplete(q, h) \/ MarkErrored(q, h) \/ MarkFailed(q, h)
      PROVE  [Lifecycle!Next]_(Lifecycle!lifecycleVars)
  <2>1. CASE ~Held(jobs[q], h)
    <3>1. UNCHANGED jobs
      BY <1>3, <2>1 DEF MarkComplete, MarkErrored, MarkFailed, MarkFinal
    <3> QED
      BY <1>1, <3>1
  <2>2. CASE Held(jobs[q], h)
    <3>1. PICK new \in {CompletedJob(jobs[q]), ErroredJob(jobs[q]),
                         FailedJob(jobs[q])} : jobs' = [jobs EXCEPT ![q] = new]
      BY <1>3, <2>2 DEF MarkComplete, MarkErrored, MarkFailed, MarkFinal
    <3>2. jobs[q].state = "processing" /\ st[q] = "running"
      BY <2>2, RowEffects DEF Held
    <3>3. /\ st' = [st EXCEPT ![q] = StatusOf(new)]
          /\ bu' = [bu EXCEPT ![q] = BudgetOf(new)]
      BY <3>1
    <3>4. \/ StatusOf(new) = "waiting" /\ bu[q] > 0 /\ BudgetOf(new) = bu[q]
          \/ /\ StatusOf(new) \in {"completed", "failed", "canceled"}
             /\ BudgetOf(new) \in 0 .. bu[q]
      BY <1>b, <3>2, RowEffects, FailureEffects
    <3>5. CASE StatusOf(new) = "waiting" /\ bu[q] > 0 /\ BudgetOf(new) = bu[q]
      <4>1. bu' = bu
        BY <3>3, <3>5
      <4> QED
        BY <3>2, <3>3, <3>5, <4>1 DEF Lifecycle!GiveBack, Lifecycle!Next
    <3>6. CASE /\ StatusOf(new) \in {"completed", "failed", "canceled"}
               /\ BudgetOf(new) \in 0 .. bu[q]
      BY <3>2, <3>3, <3>6 DEF Lifecycle!Close, Lifecycle!Closed, Lifecycle!Next
    <3> QED
      BY <3>4, <3>5, <3>6
  <2> QED
    BY <2>1, <2>2
<1>4. ASSUME NEW ids \in SUBSET Records, NEW h \in Workers,
             NEW lag \in 0 .. MaxCallTicks, Heartbeat(ids, h, lag)
      PROVE  UNCHANGED <<st, bu>>
  <2>1. \A r \in Records :
          \/ jobs'[r] = jobs[r]
          \/ jobs'[r] = [jobs[r] EXCEPT !.heartbeat_age = BeatAge(lag)]
    BY <1>4 DEF Heartbeat
  <2>2. ASSUME NEW r \in Records
        PROVE  /\ StatusOf(jobs'[r]) = StatusOf(jobs[r])
               /\ BudgetOf(jobs'[r]) = BudgetOf(jobs[r])
    <3> DEFINE beaten == [jobs[r] EXCEPT !.heartbeat_age = BeatAge(lag)]
    <3>1. StatusOf(beaten) = StatusOf(jobs[r]) /\ BudgetOf(beaten) = BudgetOf(jobs[r])
      BY <1>4, UserEffects
    <3> HIDE DEF beaten
    <3>2. jobs'[r] = jobs[r] \/ jobs'[r] = beaten
      BY <2>1 DEF beaten
    <3> QED
      BY <3>1, <3>2
  <2> QED
    BY <2>2
<1>5. ASSUME NEW q \in Records, NEW d \in 0 .. MaxDelay, Requeue(q, d)
      PROVE  UNCHANGED jobs \/ Lifecycle!Requeue(q)
  <2>1. CASE jobs[q].state = "deleted"
    BY <1>5, <2>1 DEF Requeue
  <2>2. CASE jobs[q].state # "deleted"
    <3>1. jobs' = [jobs EXCEPT ![q] = Requeued(jobs[q], d)]
      BY <1>5, <2>2 DEF Requeue
    <3>2. /\ st[q] # "gone"
          /\ StatusOf(Requeued(jobs[q], d)) = "waiting"
          /\ BudgetOf(Requeued(jobs[q], d)) =
                IF st[q] = "waiting" THEN bu[q] ELSE bu[q] + 1
      BY <2>2, RowEffects
    <3>3. /\ st' = [st EXCEPT ![q] = "waiting"]
          /\ bu' = [bu EXCEPT ![q] =
                       IF st[q] = "waiting" THEN bu[q] ELSE bu[q] + 1]
      BY <3>1, <3>2
    <3> QED
      BY <3>2, <3>3 DEF Lifecycle!Requeue
  <2> QED
    BY <2>1, <2>2
<1>6. ASSUME NEW q \in Records, CancelJob(q)
      PROVE  UNCHANGED <<st, bu>> \/ Lifecycle!Withdraw(q)
  <2>1. /\ jobs[q].state \in {"queued", "processing"}
        /\ jobs' = [jobs EXCEPT ![q] = CanceledJob(jobs[q])]
    BY <1>6 DEF CancelJob
  <2>2. /\ st' = [st EXCEPT ![q] = StatusOf(CanceledJob(jobs[q]))]
        /\ bu' = [bu EXCEPT ![q] = BudgetOf(CanceledJob(jobs[q]))]
    BY <2>1
  <2>3. CASE jobs[q].state = "queued"
    BY <2>2, <2>3, UserEffects DEF Lifecycle!Withdraw
  <2>4. CASE jobs[q].state = "processing"
    <3>1. /\ StatusOf(CanceledJob(jobs[q])) = st[q]
          /\ BudgetOf(CanceledJob(jobs[q])) = bu[q]
      BY <2>4, UserEffects
    <3>2. st' = st
      BY <2>2, <3>1
    <3>3. bu' = bu
      BY <2>2, <3>1
    <3> QED
      BY <3>2, <3>3
  <2> QED
    BY <2>1, <2>3, <2>4
<1>7. ASSUME NEW q \in Records, DeleteJob(q)
      PROVE  Lifecycle!Remove(q)
  <2> DEFINE new == [jobs[q] EXCEPT !.state = "deleted"]
  <2>1. jobs' = [jobs EXCEPT ![q] = new]
    BY <1>7 DEF DeleteJob
  <2>2. StatusOf(new) = "gone" /\ BudgetOf(new) \in 0 .. bu[q]
    BY UserEffects
  <2>3. st' = [st EXCEPT ![q] = "gone"] /\ bu' = [bu EXCEPT ![q] = BudgetOf(new)]
    BY <2>1, <2>2
  <2> QED
    BY <2>2, <2>3 DEF Lifecycle!Remove
<1>8. ASSUME NEW lag \in 0 .. MaxPassTicks, ResetStalledQuery(lag)
      PROVE  \E S \in SUBSET Records : Lifecycle!GiveBackMany(S)
  <2> DEFINE S == ResettableIDs(lag)
  <2>1. S \in SUBSET Records
        /\ \A r \in S : jobs[r].state = "processing"
                         /\ jobs[r].num_resets < MaxNumResets
    BY DEF ResettableIDs, Stalled
  <2>2. \A r \in S : /\ st[r] = "running"
                     /\ bu[r] > 0
                     /\ StatusOf(ResetJob(jobs[r])) = "waiting"
                     /\ BudgetOf(ResetJob(jobs[r])) = bu[r]
    BY <2>1, RowEffects
  <2>3. st' = [r \in Records |-> IF r \in S THEN "waiting" ELSE st[r]]
    BY <1>8, <2>2 DEF ResetStalledQuery
  <2>4. bu' = bu
    BY <1>8, <2>2 DEF ResetStalledQuery
  <2>5. Lifecycle!GiveBackMany(S)
    BY <2>1, <2>2, <2>3, <2>4 DEF Lifecycle!GiveBackMany
  <2> QED
    BY <2>1, <2>5
<1>9. ASSUME NEW lag \in 0 .. MaxPassTicks, ResetStalledMaxResetsQuery(lag)
      PROVE  \E S \in SUBSET Records : Lifecycle!FailMany(S)
  <2> DEFINE S == UnresettableIDs(lag)
  <2>1. S \in SUBSET Records /\ \A r \in S : jobs[r].state = "processing"
    BY DEF UnresettableIDs, Stalled
  <2>2. \A r \in S : /\ st[r] = "running"
                     /\ StatusOf(AbandonedJob(jobs[r])) = "failed"
                     /\ BudgetOf(AbandonedJob(jobs[r])) = bu[r]
    BY <2>1, RowEffects
  <2>3. st' = [r \in Records |-> IF r \in S THEN "failed" ELSE st[r]]
    BY <1>9, <2>2 DEF ResetStalledMaxResetsQuery
  <2>4. bu' = bu
    BY <1>9, <2>2 DEF ResetStalledMaxResetsQuery
  <2>5. Lifecycle!FailMany(S)
    BY <2>1, <2>2, <2>3, <2>4 DEF Lifecycle!FailMany
  <2> QED
    BY <2>1, <2>5
<1>10. ASSUME Tick
       PROVE  UNCHANGED <<st, bu>>
  <2>1. \A r \in Records : jobs'[r] = Older(jobs[r])
    BY <1>10 DEF Tick
  <2>2. \A r \in Records : /\ StatusOf(jobs'[r]) = StatusOf(jobs[r])
                           /\ BudgetOf(jobs'[r]) = BudgetOf(jobs[r])
    BY <2>1, UserEffects
  <2> QED
    BY <2>2
<1>11. ASSUME UNCHANGED <<st, bu>>
       PROVE  [Lifecycle!Next]_(Lifecycle!lifecycleVars)
  BY <1>11 DEF Lifecycle!lifecycleVars
<1>12. ASSUME NEW q \in Records,
              Lifecycle!Claim(q) \/ Lifecycle!Requeue(q) \/ Lifecycle!Withdraw(q)
                \/ Lifecycle!Remove(q)
       PROVE  [Lifecycle!Next]_(Lifecycle!lifecycleVars)
  BY <1>12 DEF Lifecycle!Next
<1>13. ASSUME NEW S \in SUBSET Records,
              Lifecycle!FailMany(S) \/ Lifecycle!GiveBackMany(S)
       PROVE  [Lifecycle!Next]_(Lifecycle!lifecycleVars)
  BY <1>13 DEF Lifecycle!Next
<1> HIDE DEF st, bu
<1> QED
  BY <1>1, <1>2, <1>3, <1>4, <1>5, <1>6, <1>7, <1>8, <1>9, <1>10, <1>11,
     <1>12, <1>13
  DEF StoreNext, Statement

LEMMA RefinementInit == StoreInit => Lifecycle!Init
<1> SUFFICES ASSUME StoreInit PROVE Lifecycle!Init
  OBVIOUS
<1>1. StatusOf(NewJob) = "waiting"
  BY DEF StatusOf, NewJob
<1>2. RetriesLeft(0) \in Nat /\ MaxNumResets \in Nat
  BY StoreAssumption DEF RetriesLeft
<1>3. BudgetOf(NewJob) = 1 + MaxNumResets + RetriesLeft(0)
  BY <1>2 DEF BudgetOf, NewJob
<1> QED
  BY <1>1, <1>3 DEF StoreInit, Lifecycle!Init

(* Whatever the clients of the table do, a record is attempted only as     *)
(* often as its resets, retries and requeues allow, and a closed record is *)
(* reopened by Requeue alone.                                              *)
THEOREM StoreImplementsLifecycle == StoreSpec => LifecycleSpec
  BY RefinementInit, RefinementStep, StoreTypeCorrect, StoreInvariant, PTL
  DEF StoreSpec, LifecycleSpec, Lifecycle!Spec

-----------------------------------------------------------------------------
(* Workers, resetter and users.                                            *)

(* TypeOK but for the bound on the semaphore, which needs the accounting   *)
(* of tokens below, and the facts that a goroutine and a dequeued record   *)
(* have a row.                                                             *)
Shape == /\ loop \in [Workers -> Loop]
         /\ sem \in [Workers -> Nat]
         /\ running \in [Workers -> [Records -> Slots \cup {NoSlot}]]
         /\ slot \in [Workers -> [Slots -> Slot]]
         /\ beat \in [Workers -> Beat]
         /\ resetter \in Resetter
         /\ crashes \in 0 .. MaxCrashes
         /\ requeues \in 0 .. MaxRequeues

RowsNamed ==
    \A w \in Workers :
        /\ loop[w].pc = "register" => loop[w].rec \in Records
        /\ \A s \in Slots : slot[w][s].pc # "free" => slot[w][s].rec \in Records

LEMMA NoLag == 0 \in 0 .. MaxCallTicks /\ 0 \in 0 .. MaxPassTicks
  BY StoreAssumption

LEMMA FreshTypes == /\ FirstLoop \in Loop
                    /\ FreeSlot \in Slot /\ FreeSlot.pc = "free"
                    /\ IdleBeat \in Beat
                    /\ IdleResetter \in Resetter
  BY NoLag
  DEF Loop, LoopPC, FirstLoop, Slot, SlotPC, FreeSlot, Verdicts, Beat, IdleBeat,
      Resetter, IdleResetter

LEMMA ShapeInit == Init => Shape /\ RowsNamed
<1> SUFFICES ASSUME Init PROVE Shape /\ RowsNamed
  OBVIOUS
<1>1. 0 \in 0 .. MaxCrashes /\ 0 \in 0 .. MaxRequeues /\ NumHandlers \in Nat
  BY WorkerAssumption
<1>2. Shape
  BY <1>1, FreshTypes DEF Init, Shape
<1>3. RowsNamed
  <2>1. FirstLoop.pc # "register"
    BY DEF FirstLoop
  <2> QED
    BY <2>1, FreshTypes DEF Init, RowsNamed
<1> QED
  BY <1>2, <1>3

(* The steps of the dequeue loop.                                          *)
LEMMA LoopShape ==
    ASSUME Shape, RowsNamed, NEW w \in Workers, LoopStep(w)
    PROVE  Shape' /\ RowsNamed'
<1> USE DEF Shape, RowsNamed
<1>l. loop[w] \in Loop /\ sem[w] \in Nat
  OBVIOUS
<1>1. ASSUME NEW pc \in LoopPC \ {"register"},
             loop' = [loop EXCEPT ![w].pc = pc],
             sem' = sem \/ (sem[w] > 0 /\ sem' = [sem EXCEPT ![w] = @ - 1]),
             UNCHANGED <<running, slot, beat, resetter, crashes, requeues>>
      PROVE  Shape' /\ RowsNamed'
  <2>1. [loop[w] EXCEPT !.pc = pc] \in Loop
    BY <1>l DEF Loop
  <2>2. loop' = [loop EXCEPT ![w] = [loop[w] EXCEPT !.pc = pc]]
    BY <1>1
  <2>3. sem' \in [Workers -> Nat]
    <3>1. CASE sem' = sem
      BY <3>1
    <3>2. CASE sem[w] > 0 /\ sem' = [sem EXCEPT ![w] = sem[w] - 1]
      <4>1. sem[w] - 1 \in Nat
        BY <1>l, <3>2
      <4> QED
        BY <3>2, <4>1
    <3> QED
      BY <1>1, <3>1, <3>2
  <2>4. Shape'
    BY <1>1, <2>1, <2>2, <2>3
  <2>5. loop'[w].pc = pc /\ \A v \in Workers \ {w} : loop'[v] = loop[v]
    BY <2>1, <2>2 DEF Loop
  <2>6. RowsNamed'
    BY <1>1, <2>5
  <2> QED
    BY <2>4, <2>6
<1>2. ASSUME NEW pc \in LoopPC \ {"register"}, NotDequeued(w, pc)
      PROVE  Shape' /\ RowsNamed'
  <2>1. [loop[w] EXCEPT !.pc = pc, !.cands = {}, !.rec = NoRecord,
                        !.lag = 0] \in Loop
    BY <1>l, NoLag DEF Loop
  <2>2. /\ loop' = [loop EXCEPT ![w] = [loop[w] EXCEPT !.pc = pc, !.cands = {},
                                                        !.rec = NoRecord,
                                                        !.lag = 0]]
        /\ sem' = [sem EXCEPT ![w] = sem[w] + 1]
        /\ UNCHANGED <<running, slot, beat, resetter, crashes, requeues>>
    BY <1>2 DEF NotDequeued
  <2>3. Shape'
    BY <1>l, <2>1, <2>2
  <2>4. loop'[w].pc = pc /\ \A v \in Workers \ {w} : loop'[v] = loop[v]
    BY <2>1, <2>2 DEF Loop
  <2>5. RowsNamed'
    BY <2>2, <2>4
  <2> QED
    BY <2>3, <2>5
<1>3. CASE Acquire(w) \/ LoopEnds(w) \/ PreDequeue(w) \/ Wait(w) \/ WaitEnds(w)
             \/ Drained(w)
  BY <1>1, <1>3
  DEF Acquire, LoopEnds, EnterDrain, PreDequeue, Wait, WaitEnds, Drained, LoopPC
<1>4. CASE PreDequeueDeclines(w) \/ DequeueRefused(w) \/ DequeueNothing(w)
             \/ DequeueFails(w) \/ AlreadyExists(w)
  BY <1>2, <1>4
  DEF PreDequeueDeclines, DequeueRefused, DequeueNothing, DequeueFails,
      AlreadyExists, AfterError, LoopPC
<1>5. CASE DequeueSnapshot(w)
  <2>1. [loop[w] EXCEPT !.pc = "claim",
                        !.cands = PotentialCandidates(loop[w].lag)] \in Loop
    BY <1>l DEF Loop, LoopPC, PotentialCandidates
  <2>2. Shape'
    BY <1>5, <2>1 DEF DequeueSnapshot
  <2>3. loop'[w].pc = "claim" /\ \A v \in Workers \ {w} : loop'[v] = loop[v]
    BY <1>5, <2>1 DEF DequeueSnapshot, Loop
  <2> QED
    BY <1>5, <2>2, <2>3 DEF DequeueSnapshot
<1>6. CASE DequeueRecord(w)
  <2>1. PICK r \in loop[w].cands :
          loop' = [loop EXCEPT ![w] = [@ EXCEPT !.pc = "register", !.lag = 0,
                                                !.cands = {}, !.rec = r]]
    BY <1>6 DEF DequeueRecord
  <2>2. r \in Records
    BY <1>l DEF Loop
  <2>3. [loop[w] EXCEPT !.pc = "register", !.lag = 0, !.cands = {},
                        !.rec = r] \in Loop
    BY <1>l, <2>2, NoLag DEF Loop, LoopPC
  <2>4. Shape'
    BY <1>6, <2>1, <2>3 DEF DequeueRecord
  <2>5. loop'[w].rec = r /\ \A v \in Workers \ {w} : loop'[v] = loop[v]
    BY <2>1, <2>3 DEF Loop
  <2> QED
    BY <1>6, <2>2, <2>4, <2>5 DEF DequeueRecord
<1>7. CASE Register(w)
  <2> DEFINE r == loop[w].rec
             n == Counted(loop[w].numDequeues)
             lp == [loop[w] EXCEPT !.pc = "again", !.rec = NoRecord,
                                   !.numDequeues = n]
             new == [FreeSlot EXCEPT !.pc = "handling", !.rec = r]
  <2>1. PICK s \in Slots :
          /\ running' = [running EXCEPT ![w] = [running[w] EXCEPT ![r] = s]]
          /\ slot' = [slot EXCEPT ![w] = [slot[w] EXCEPT ![s] = new]]
    BY <1>7 DEF Register
  <2>2. loop' = [loop EXCEPT ![w] = lp]
    BY <1>7 DEF Register
  <2>3. n \in Nat /\ r \in Records
    <3>1. n \in Nat
      BY <1>l DEF Loop, Counted
    <3>2. r \in Records
      BY <1>7 DEF Register
    <3> QED
      BY <3>1, <3>2
  <2>4. lp \in Loop /\ lp.pc = "again"
    BY <1>l, <2>3 DEF Loop, LoopPC
  <2>5. new \in Slot /\ new.rec = r
    BY <2>3 DEF FreeSlot, Slot, SlotPC, Verdicts
  <2>6. Shape'
    BY <1>7, <2>1, <2>2, <2>4, <2>5 DEF Register
  <2>7. ASSUME NEW v \in Workers
        PROVE  /\ loop'[v].pc = "register" => loop'[v].rec \in Records
               /\ \A t \in Slots : slot'[v][t].pc # "free" =>
                                     slot'[v][t].rec \in Records
    BY <2>1, <2>2, <2>3, <2>4, <2>5
  <2> QED
    BY <2>6, <2>7
<1> QED
  BY <1>3, <1>4, <1>5, <1>6, <1>7 DEF LoopStep

(* The goroutines of one worker move among legal slots and keep their row. *)
LEMMA SlotsShape ==
    ASSUME Shape, RowsNamed, NEW w \in Workers, NEW new,
           slot' = [slot EXCEPT ![w] = new],
           new \in [Slots -> Slot],
           \A s \in Slots : new[s].pc # "free" => new[s].rec \in Records,
           sem' \in [Workers -> Nat],
           running' \in [Workers -> [Records -> Slots \cup {NoSlot}]],
           beat' \in [Workers -> Beat],
           requeues' \in 0 .. MaxRequeues,
           UNCHANGED <<loop, resetter, crashes>>
    PROVE  Shape' /\ RowsNamed'
<1>1. Shape'
  BY DEF Shape
<1>2. ASSUME NEW v \in Workers, NEW s \in Slots, slot'[v][s].pc # "free"
      PROVE  slot'[v][s].rec \in Records
  BY <1>2 DEF Shape, RowsNamed
<1>3. ASSUME NEW v \in Workers, loop'[v].pc = "register"
      PROVE  loop'[v].rec \in Records
  BY <1>3 DEF RowsNamed
<1> QED
  BY <1>1, <1>2, <1>3 DEF RowsNamed

(* Canceling the context stored for an id changes nothing but a context.   *)
LEMMA CanceledSlots ==
    ASSUME Shape, NEW w \in Workers, NEW r, NEW s \in Slots
    PROVE  /\ Canceled(w, r) \in [Slots -> Slot]
           /\ Canceled(w, r)[s].pc = slot[w][s].pc
           /\ Canceled(w, r)[s].rec = slot[w][s].rec
           /\ ~Canceled(w, r)[s].ctx =>
                ~slot[w][s].ctx /\ ~(Has(w, r) /\ running[w][r] = s)
<1> DEFINE canceled(t) == [slot[w][t] EXCEPT !.ctx = TRUE]
<1>1. \A t \in Slots : /\ slot[w][t] \in Slot
                       /\ slot[w][t].ctx \in BOOLEAN
                       /\ canceled(t) \in Slot
                       /\ canceled(t).pc = slot[w][t].pc
                       /\ canceled(t).rec = slot[w][t].rec
                       /\ canceled(t).ctx = TRUE
  <2> SUFFICES ASSUME NEW t \in Slots
               PROVE  /\ slot[w][t] \in Slot
                      /\ slot[w][t].ctx \in BOOLEAN
                      /\ canceled(t) \in Slot
                      /\ canceled(t).pc = slot[w][t].pc
                      /\ canceled(t).rec = slot[w][t].rec
                      /\ canceled(t).ctx = TRUE
    OBVIOUS
  <2>1. slot[w][t] \in Slot
    BY DEF Shape
  <2> QED
    BY <2>1 DEF Slot
<1>2. slot[w] \in [Slots -> Slot]
  BY DEF Shape
<1>3. CASE ~Has(w, r)
  BY <1>1, <1>2, <1>3 DEF Canceled
<1>4. CASE Has(w, r)
  <2>1. Canceled(w, r) = [slot[w] EXCEPT ![running[w][r]] =
                            canceled(running[w][r])]
    BY <1>4 DEF Canceled
  <2> HIDE DEF canceled
  <2>2. CASE running[w][r] \in Slots
    BY <1>1, <1>2, <1>4, <2>1, <2>2
  <2>3. CASE running[w][r] \notin Slots
    <3>1. Canceled(w, r) = slot[w]
      BY <1>2, <2>1, <2>3
    <3> QED
      BY <1>1, <1>2, <2>3, <3>1
  <2> QED
    BY <2>2, <2>3
<1> QED
  BY <1>3, <1>4

(* The steps of the handler goroutines.                                    *)
LEMMA HandlerShape ==
    ASSUME Shape, RowsNamed, NEW w \in Workers, NEW s \in Slots,
           HandlerStep(w, s)
    PROVE  Shape' /\ RowsNamed'
<1>s. /\ slot \in [Workers -> [Slots -> Slot]]
      /\ slot[w] \in [Slots -> Slot]
      /\ slot[w][s] \in Slot
      /\ sem \in [Workers -> Nat]
      /\ sem[w] \in Nat
      /\ running \in [Workers -> [Records -> Slots \cup {NoSlot}]]
      /\ beat \in [Workers -> Beat]
      /\ requeues \in 0 .. MaxRequeues
  BY DEF Shape
<1>n. \A t \in Slots : slot[w][t].pc # "free" => slot[w][t].rec \in Records
  BY DEF RowsNamed
<1>0. ASSUME NEW row \in Slot, row.rec = slot[w][s].rec,
             slot[w][s].pc # "free",
             slot' = [slot EXCEPT ![w] = [slot[w] EXCEPT ![s] = row]],
             sem' \in [Workers -> Nat], requeues' \in 0 .. MaxRequeues,
             UNCHANGED <<loop, running, beat, resetter, crashes>>
      PROVE  Shape' /\ RowsNamed'
  <2> DEFINE new == [slot[w] EXCEPT ![s] = row]
  <2>1. new \in [Slots -> Slot]
    BY <1>s, <1>0
  <2>2. \A t \in Slots : new[t].pc # "free" => new[t].rec \in Records
    BY <1>n, <1>s, <1>0
  <2> HIDE DEF new
  <2>3. slot' = [slot EXCEPT ![w] = new]
    BY <1>0 DEF new
  <2> QED
    BY <1>s, <1>0, <2>1, <2>2, <2>3, SlotsShape
<1>1. CASE HandlerReturns(w, s)
  <2>1. PICK result \in Results(w, s) :
          slot' = [slot EXCEPT ![w][s] =
                     [@ EXCEPT !.pc = "finalizing",
                               !.verdict = VerdictOf(w, s, result)]]
    BY <1>1 DEF HandlerReturns
  <2>2. VerdictOf(w, s, result) \in Verdicts
    BY DEF VerdictOf, Verdicts, Results
  <2> DEFINE row == [slot[w][s] EXCEPT !.pc = "finalizing",
                                       !.verdict = VerdictOf(w, s, result)]
  <2>3. row \in Slot /\ row.rec = slot[w][s].rec
    BY <1>s, <2>2 DEF Slot, SlotPC
  <2> QED
    BY <1>0, <1>1, <1>s, <2>1, <2>3 DEF HandlerReturns
<1>2. CASE HandlerRequeues(w, s)
  <2> DEFINE row == [slot[w][s] EXCEPT !.requeued = TRUE]
  <2>1. row \in Slot /\ row.rec = slot[w][s].rec
    BY <1>s DEF Slot
  <2>2. requeues' \in 0 .. MaxRequeues
    BY <1>2, <1>s, WorkerAssumption DEF HandlerRequeues
  <2> QED
    BY <1>0, <1>2, <1>s, <2>1, <2>2 DEF HandlerRequeues
<1>3. CASE Finalize(w, s)
  <2> DEFINE row == [slot[w][s] EXCEPT !.pc = "cleanup"]
  <2>1. row \in Slot /\ row.rec = slot[w][s].rec
    BY <1>s DEF Slot, SlotPC
  <2> QED
    BY <1>0, <1>3, <1>s, <2>1 DEF Finalize
<1>4. CASE ReturnToken(w, s)
  <2> DEFINE row == [slot[w][s] EXCEPT !.pc = "removing"]
  <2>1. row \in Slot /\ row.rec = slot[w][s].rec
    BY <1>s DEF Slot, SlotPC
  <2>2. sem' \in [Workers -> Nat]
    BY <1>4, <1>s DEF ReturnToken
  <2> QED
    BY <1>0, <1>4, <1>s, <2>1, <2>2 DEF ReturnToken
<1>5. CASE RemoveRunning(w, s)
  <2> DEFINE r == slot[w][s].rec
             new == [Canceled(w, r) EXCEPT ![s] = FreeSlot]
  <2>1. new \in [Slots -> Slot]
    BY CanceledSlots, FreshTypes
  <2>2. ASSUME NEW t \in Slots, new[t].pc # "free"
        PROVE  new[t].rec \in Records
    BY <1>n, <2>2, CanceledSlots, FreshTypes
  <2>3. running' \in [Workers -> [Records -> Slots \cup {NoSlot}]]
    BY <1>5, <1>s DEF RemoveRunning
  <2>4. slot' = [slot EXCEPT ![w] = new]
    BY <1>5 DEF RemoveRunning
  <2> HIDE DEF new
  <2> QED
    BY <1>5, <1>s, <2>1, <2>2, <2>3, <2>4, SlotsShape DEF RemoveRunning
<1> QED
  BY <1>1, <1>2, <1>3, <1>4, <1>5 DEF HandlerStep

(* The steps of the heartbeat loop.                                        *)
LEMMA ToApplyType ==
    ASSUME NEW unknown \in SUBSET Records, NEW cancel \in SUBSET Records
    PROVE  ToApply(unknown, cancel) \in Beat
  BY NoLag DEF ToApply, IdleBeat, Beat

LEMMA BeatShape ==
    ASSUME Shape, RowsNamed, NEW w \in Workers, BeatStep(w)
    PROVE  Shape' /\ RowsNamed'
<1>b. /\ beat \in [Workers -> Beat]
      /\ beat[w] \in Beat
      /\ beat[w].ids \in SUBSET Records
      /\ beat[w].unknown \in SUBSET Records
      /\ beat[w].cancel \in SUBSET Records
      /\ slot \in [Workers -> [Slots -> Slot]]
      /\ slot[w] \in [Slots -> Slot]
      /\ sem \in [Workers -> Nat]
      /\ running \in [Workers -> [Records -> Slots \cup {NoSlot}]]
      /\ requeues \in 0 .. MaxRequeues
  BY DEF Shape, Beat
<1>n. \A t \in Slots : slot[w][t].pc # "free" => slot[w][t].rec \in Records
  BY DEF RowsNamed
<1>0. ASSUME NEW new \in Beat, beat' = [beat EXCEPT ![w] = new],
             UNCHANGED <<loop, sem, running, slot, resetter, crashes, requeues>>
      PROVE  Shape' /\ RowsNamed'
  BY <1>0, <1>b DEF Shape, RowsNamed
<1>1. CASE BeatSlice(w)
  <2>1. [beat[w] EXCEPT !.pc = "sent", !.ids = RunningIDs(w)] \in Beat
    BY <1>b DEF Beat, RunningIDs
  <2> QED
    BY <1>0, <1>1, <2>1 DEF BeatSlice
<1>2. CASE BeatSend(w)
  <2>1. /\ beat[w].ids \ KnownIDs(beat[w].ids, w) \in SUBSET Records
        /\ CancelIDs(beat[w].ids, w) \in SUBSET Records
    BY <1>b DEF CancelIDs, KnownIDs
  <2>2. ToApply(beat[w].ids \ KnownIDs(beat[w].ids, w),
                CancelIDs(beat[w].ids, w)) \in Beat
    BY <2>1, ToApplyType
  <2> QED
    BY <1>0, <1>2, <2>2 DEF BeatSend
<1>3. CASE BeatFails(w)
  BY <1>0, <1>3, FreshTypes DEF BeatFails
<1>4. CASE BeatRemove(w)
  <2>1. PICK r \in beat[w].unknown :
          /\ IDSetRemove(w, r)
          /\ beat' = [beat EXCEPT ![w] = ToApply(@.unknown \ {r}, @.cancel)]
    BY <1>4 DEF BeatRemove
  <2>2. ToApply(beat[w].unknown \ {r}, beat[w].cancel) \in Beat
    BY <1>b, ToApplyType
  <2>3. beat' \in [Workers -> Beat]
    BY <1>b, <2>1, <2>2
  <2>4. running' \in [Workers -> [Records -> Slots \cup {NoSlot}]]
    BY <1>b, <2>1 DEF IDSetRemove
  <2>5. slot' = [slot EXCEPT ![w] = Canceled(w, r)]
    BY <2>1 DEF IDSetRemove
  <2>6. Canceled(w, r) \in [Slots -> Slot]
    BY <1>b, CanceledSlots DEF Canceled
  <2>7. \A s \in Slots : Canceled(w, r)[s].pc # "free" =>
                            Canceled(w, r)[s].rec \in Records
    BY <1>n, CanceledSlots
  <2> QED
    BY <1>4, <1>b, <2>3, <2>4, <2>5, <2>6, <2>7, SlotsShape DEF BeatRemove
<1>5. CASE BeatCancel(w)
  <2>1. PICK r \in beat[w].cancel :
          /\ IDSetCancel(w, r)
          /\ beat' = [beat EXCEPT ![w] = ToApply({}, @.cancel \ {r})]
    BY <1>5 DEF BeatCancel
  <2>2. ToApply({}, beat[w].cancel \ {r}) \in Beat
    BY <1>b, ToApplyType
  <2>3. beat' \in [Workers -> Beat]
    BY <1>b, <2>1, <2>2
  <2>4. slot' = [slot EXCEPT ![w] = Canceled(w, r)] /\ UNCHANGED running
    BY <2>1 DEF IDSetCancel
  <2>5. Canceled(w, r) \in [Slots -> Slot]
    BY <1>b, CanceledSlots DEF Canceled
  <2>6. \A s \in Slots : Canceled(w, r)[s].pc # "free" =>
                            Canceled(w, r)[s].rec \in Records
    BY <1>n, CanceledSlots
  <2> QED
    BY <1>5, <1>b, <2>3, <2>4, <2>5, <2>6, SlotsShape DEF BeatCancel
<1>6. CASE BeatEnds(w)
  <2>1. [beat[w] EXCEPT !.pc = "done"] \in Beat
    BY <1>b DEF Beat
  <2> QED
    BY <1>0, <1>6, <2>1 DEF BeatEnds
<1> QED
  BY <1>1, <1>2, <1>3, <1>4, <1>5, <1>6 DEF BeatStep

(* The resetter, users, time and failures.                                 *)
LEMMA ResetterShape ==
    ASSUME Shape, RowsNamed, ResetterStep \/ UserCancels \/ UserDeletes
    PROVE  Shape' /\ RowsNamed'
<1>r. resetter \in Resetter
  BY DEF Shape
<1>1. resetter' \in Resetter
  <2>1. CASE ResetterReads \/ ResetterResets
    BY <1>r, <2>1 DEF ResetterReads, ResetterResets, Resetter, ResettableIDs
  <2>2. CASE ResetterFails \/ ResetterErrors
    BY <2>2, FreshTypes DEF ResetterFails, ResetterErrors
  <2>3. CASE UserCancels \/ UserDeletes
    BY <1>r, <2>3 DEF UserCancels, UserDeletes
  <2> QED
    BY <2>1, <2>2, <2>3 DEF ResetterStep
<1>2. UNCHANGED <<loop, sem, running, slot, beat, crashes, requeues>>
  BY DEF ResetterStep, ResetterReads, ResetterResets, ResetterFails,
         ResetterErrors, UserCancels, UserDeletes
<1> QED
  BY <1>1, <1>2 DEF Shape, RowsNamed

(* A tick touches the rows and the ages of the calls under way.            *)
LEMMA TickTouches ==
    ASSUME Shape, TimePasses
    PROVE  /\ UNCHANGED <<sem, running, slot, crashes, requeues>>
           /\ loop' \in [Workers -> Loop]
           /\ beat' \in [Workers -> Beat]
           /\ resetter' \in Resetter
           /\ resetter'.pc = resetter.pc /\ resetter'.ids = resetter.ids
           /\ resetter'.lag = IF Resetting THEN resetter.lag + 1 ELSE resetter.lag
           /\ \A v \in Workers :
                /\ loop'[v].pc = loop[v].pc
                /\ loop'[v].cands = loop[v].cands
                /\ loop'[v].rec = loop[v].rec
                /\ loop'[v].stopping = loop[v].stopping
                /\ loop'[v].numDequeues = loop[v].numDequeues
                /\ loop'[v].lag = IF Dequeuing(v) THEN loop[v].lag + 1
                                                  ELSE loop[v].lag
                /\ beat'[v].pc = beat[v].pc
                /\ beat'[v].ids = beat[v].ids
                /\ beat'[v].unknown = beat[v].unknown
                /\ beat'[v].cancel = beat[v].cancel
                /\ beat'[v].lag = IF Beating(v) THEN beat[v].lag + 1
                                                ELSE beat[v].lag
<1>1. ASSUME NEW v \in Workers
      PROVE  /\ loop'[v] \in Loop
             /\ loop'[v].pc = loop[v].pc
             /\ loop'[v].cands = loop[v].cands
             /\ loop'[v].rec = loop[v].rec
             /\ loop'[v].stopping = loop[v].stopping
             /\ loop'[v].numDequeues = loop[v].numDequeues
             /\ loop'[v].lag = IF Dequeuing(v) THEN loop[v].lag + 1
                                               ELSE loop[v].lag
  <2>1. loop[v] \in Loop
    BY DEF Shape
  <2>2. CASE Dequeuing(v)
    <3>1. loop[v].lag + 1 \in 0 .. MaxCallTicks
      BY <2>1, <2>2, StoreAssumption DEF TimePasses, Loop
    <3>2. loop'[v] = [loop[v] EXCEPT !.lag = loop[v].lag + 1]
      BY <2>2 DEF TimePasses
    <3> QED
      BY <2>1, <2>2, <3>1, <3>2 DEF Loop
  <2>3. CASE ~Dequeuing(v)
    BY <2>1, <2>3 DEF TimePasses
  <2> QED
    BY <2>2, <2>3
<1>2. ASSUME NEW v \in Workers
      PROVE  /\ beat'[v] \in Beat
             /\ beat'[v].pc = beat[v].pc
             /\ beat'[v].ids = beat[v].ids
             /\ beat'[v].unknown = beat[v].unknown
             /\ beat'[v].cancel = beat[v].cancel
             /\ beat'[v].lag = IF Beating(v) THEN beat[v].lag + 1
                                             ELSE beat[v].lag
  <2>1. beat[v] \in Beat
    BY DEF Shape
  <2>2. CASE Beating(v)
    <3>1. beat[v].lag + 1 \in 0 .. MaxCallTicks
      BY <2>1, <2>2, StoreAssumption DEF TimePasses, Beat
    <3>2. beat'[v] = [beat[v] EXCEPT !.lag = beat[v].lag + 1]
      BY <2>2 DEF TimePasses
    <3> QED
      BY <2>1, <2>2, <3>1, <3>2 DEF Beat
  <2>3. CASE ~Beating(v)
    BY <2>1, <2>3 DEF TimePasses
  <2> QED
    BY <2>2, <2>3
<1>3. /\ loop' = [w \in Workers |-> loop'[w]]
      /\ beat' = [w \in Workers |-> beat'[w]]
  BY DEF TimePasses
<1>4. loop' \in [Workers -> Loop] /\ beat' \in [Workers -> Beat]
  BY <1>1, <1>2, <1>3
<1>5. /\ resetter' \in Resetter
      /\ resetter'.pc = resetter.pc /\ resetter'.ids = resetter.ids
      /\ resetter'.lag = IF Resetting THEN resetter.lag + 1 ELSE resetter.lag
  <2>1. resetter \in Resetter
    BY DEF Shape
  <2>2. CASE Resetting
    <3>1. resetter.lag + 1 \in 0 .. MaxPassTicks
      BY <2>1, <2>2, StoreAssumption DEF TimePasses, Resetter
    <3>2. resetter' = [resetter EXCEPT !.lag = resetter.lag + 1]
      BY <2>2 DEF TimePasses
    <3> QED
      BY <2>1, <2>2, <3>1, <3>2 DEF Resetter
  <2>3. CASE ~Resetting
    BY <2>1, <2>3 DEF TimePasses
  <2> QED
    BY <2>2, <2>3
<1>6. UNCHANGED <<sem, running, slot, crashes, requeues>>
  BY DEF TimePasses
<1> QED
  BY <1>1, <1>2, <1>4, <1>5, <1>6

LEMMA TickShape ==
    ASSUME Shape, RowsNamed, TimePasses
    PROVE  Shape' /\ RowsNamed'
<1>1. Shape'
  BY TickTouches DEF Shape
<1>2. /\ \A v \in Workers : loop'[v].pc = loop[v].pc /\ loop'[v].rec = loop[v].rec
      /\ slot' = slot
  BY TickTouches
<1>3. RowsNamed'
  BY <1>2 DEF RowsNamed
<1> QED
  BY <1>1, <1>3

LEMMA ProcessShape ==
    ASSUME Shape, RowsNamed, NEW w \in Workers, Stop(w) \/ Crash(w)
    PROVE  Shape' /\ RowsNamed'
<1>1. CASE Stop(w)
  <2>1. loop[w] \in Loop
    BY DEF Shape
  <2> DEFINE new == [loop[w] EXCEPT !.stopping = TRUE]
  <2>2. new \in Loop /\ new.pc = loop[w].pc /\ new.rec = loop[w].rec
    BY <2>1 DEF Loop
  <2>3. /\ loop' = [loop EXCEPT ![w] = new]
        /\ UNCHANGED <<sem, running, slot, beat, resetter, crashes, requeues>>
    BY <1>1 DEF Stop
  <2> HIDE DEF new
  <2> QED
    BY <2>2, <2>3 DEF Shape, RowsNamed
<1>2. CASE Crash(w)
  <2>1. crashes' \in 0 .. MaxCrashes /\ NumHandlers \in Nat
    BY <1>2, WorkerAssumption DEF Crash, Shape
  <2>2. Shape'
    BY <1>2, <2>1, FreshTypes DEF Crash, Shape
  <2>3. FirstLoop.pc # "register"
    BY DEF FirstLoop
  <2>4. RowsNamed'
    BY <1>2, <2>3, FreshTypes DEF Crash, Shape, RowsNamed
  <2> QED
    BY <2>2, <2>4
<1> QED
  BY <1>1, <1>2

LEMMA ShapeStep == Shape /\ RowsNamed /\ [Next]_vars => Shape' /\ RowsNamed'
<1> SUFFICES ASSUME Shape, RowsNamed, [Next]_vars PROVE Shape' /\ RowsNamed'
  OBVIOUS
<1>1. CASE UNCHANGED vars
  BY <1>1 DEF vars, Shape, RowsNamed
<1>2. CASE Next
  BY <1>2, LoopShape, HandlerShape, BeatShape, ResetterShape, TickShape,
     ProcessShape
  DEF Next
<1> QED
  BY <1>1, <1>2

LEMMA ShapeAlways == Spec => [](Shape /\ RowsNamed)
  BY ShapeInit, ShapeStep, PTL DEF Spec

-----------------------------------------------------------------------------
(* Workers, resetter and users touch the table through the statements of   *)
(* the store only, so whatever holds of the store under any client holds   *)
(* of the whole system.                                                    *)
LEMMA UsesStoreStep ==
    ASSUME Shape, RowsNamed, [Next]_vars
    PROVE  [Statement]_jobs \/ TimePasses
<1>1. CASE UNCHANGED vars
  BY <1>1 DEF vars
<1>2. ASSUME NEW w \in Workers, LoopStep(w)
      PROVE  [Statement]_jobs
  <2>1. loop[w].cands \subseteq Records /\ loop[w].lag \in 0 .. MaxCallTicks
    BY DEF Shape, Loop
  <2>2. CASE UNCHANGED jobs
    BY <2>2
  <2>3. CASE DequeueRecord(w) \/ DequeueFails(w)
    BY <2>1, <2>3 DEF DequeueRecord, DequeueFails, Statement
  <2> QED
    BY <1>2, <2>2, <2>3
    DEF LoopStep, Acquire, LoopEnds, PreDequeue, PreDequeueDeclines,
        DequeueSnapshot, DequeueRefused, DequeueNothing, Register,
        AlreadyExists, Wait, WaitEnds, Drained
<1>3. ASSUME NEW w \in Workers, NEW s \in Slots, HandlerStep(w, s)
      PROVE  [Statement]_jobs
  <2>1. slot[w][s].pc # "free" => slot[w][s].rec \in Records
    BY DEF RowsNamed
  <2>2. CASE UNCHANGED jobs
    BY <2>2
  <2>3. CASE HandlerRequeues(w, s)
    BY <2>1, <2>3 DEF HandlerRequeues, Statement
  <2>4. CASE Finalize(w, s)
    <3>1. CASE MarkStatement(w, s)
      <4>1. slot[w][s].rec \in Records
        BY <2>1, <2>4 DEF Finalize
      <4>2. \/ MarkComplete(slot[w][s].rec, w)
            \/ MarkErrored(slot[w][s].rec, w)
            \/ MarkFailed(slot[w][s].rec, w)
        BY <3>1 DEF MarkStatement
      <4> QED
        BY <4>1, <4>2 DEF Statement
    <3> QED
      BY <2>2, <2>4, <3>1 DEF Finalize
  <2> QED
    BY <1>3, <2>2, <2>3, <2>4
    DEF HandlerStep, HandlerReturns, ReturnToken, RemoveRunning
<1>4. ASSUME NEW w \in Workers, BeatStep(w)
      PROVE  [Statement]_jobs
  <2>1. beat[w].ids \in SUBSET Records /\ beat[w].lag \in 0 .. MaxCallTicks
    BY DEF Shape, Beat
  <2>2. UNCHANGED jobs \/ Heartbeat(beat[w].ids, w, beat[w].lag)
    BY <1>4 DEF BeatStep, BeatSlice, BeatSend, BeatFails, BeatRemove, BeatCancel,
                BeatEnds
  <2> QED
    BY <2>1, <2>2 DEF Statement
<1>5. ASSUME NEW w \in Workers, Stop(w) \/ Crash(w)
      PROVE  [Statement]_jobs
  BY <1>5 DEF Stop, Crash
<1>6. CASE ResetterStep
  <2>1. resetter.lag \in 0 .. MaxPassTicks
    BY DEF Shape, Resetter
  <2> QED
    BY <1>6, <2>1
    DEF ResetterStep, ResetterReads, ResetterResets, ResetterFails,
        ResetterErrors, Statement
<1>7. CASE UserCancels \/ UserDeletes
  BY <1>7 DEF UserCancels, UserDeletes, Statement
<1> QED
  BY <1>1, <1>2, <1>3, <1>4, <1>5, <1>6, <1>7 DEF Next

THEOREM WorkersUseStore == Spec => StoreSpec
<1>1. Init => StoreInit
  BY DEF Init
<1>2. (Shape /\ RowsNamed) /\ [Next]_vars => [StoreNext]_jobs
  BY UsesStoreStep DEF StoreNext, TimePasses
<1> QED
  BY <1>1, <1>2, ShapeAlways, PTL DEF Spec, StoreSpec

(* Attempts stay within the budget of resets, retries and requeues however *)
(* many workers, resetters and users there are.                            *)
THEOREM WorkersKeepLifecycle == Spec => LifecycleSpec
  BY WorkersUseStore, StoreImplementsLifecycle, PTL

-----------------------------------------------------------------------------
(* The accounting of handler tokens: a token is in the semaphore, with the *)
(* dequeue loop, or with a goroutine that wg waits for.                    *)
Tokens(w) ==
    sem[w] + (IF HoldsToken(w) THEN 1 ELSE 0) + Cardinality(InFlight(w))

LEMMA InFlightFinite ==
    ASSUME NEW w \in Workers
    PROVE  IsFiniteSet(InFlight(w)) /\ Cardinality(InFlight(w)) \in Nat
<1>1. IsFiniteSet(Slots) /\ InFlight(w) \subseteq Slots
  BY WorkerAssumption DEF InFlight
<1> QED
  BY <1>1, FS_Subset, FS_CardinalityType

LEMMA TokensSame ==
    ASSUME NEW w \in Workers, sem'[w] = sem[w],
           HoldsToken(w)' = HoldsToken(w), InFlight(w)' = InFlight(w)
    PROVE  Tokens(w)' = Tokens(w)
  BY DEF Tokens

(* The loop takes a token or puts one back.                                *)
LEMMA LoopTokens ==
    ASSUME Shape, NEW w \in Workers, LoopStep(w), NEW v \in Workers
    PROVE  Tokens(v)' = Tokens(v)
<1>s. /\ sem \in [Workers -> Nat] /\ sem[w] \in Nat
      /\ loop \in [Workers -> Loop] /\ loop[w] \in Loop
      /\ slot \in [Workers -> [Slots -> Slot]]
      /\ slot[w] \in [Slots -> Slot]
      /\ Cardinality(InFlight(w)) \in Nat
  BY InFlightFinite DEF Shape
<1>0. ASSUME v # w
      PROVE  Tokens(v)' = Tokens(v)
  <2>1. sem'[v] = sem[v] /\ loop'[v] = loop[v] /\ slot'[v] = slot[v]
    BY <1>s, <1>0
    DEF LoopStep, Acquire, LoopEnds, EnterDrain, PreDequeue, PreDequeueDeclines,
        NotDequeued, DequeueSnapshot, DequeueRefused, DequeueRecord,
        DequeueNothing, DequeueFails, Register, AlreadyExists, Wait, WaitEnds,
        Drained
  <2> QED
    BY <2>1, TokensSame DEF HoldsToken, InFlight
<1>1. ASSUME NEW new \in Loop, loop' = [loop EXCEPT ![w] = new],
             sem' = sem, slot' = slot,
             new.pc \in {"hook", "snapshot", "claim", "register"} <=> HoldsToken(w)
      PROVE  Tokens(w)' = Tokens(w)
  BY <1>s, <1>1, TokensSame DEF HoldsToken, InFlight
<1>2. ASSUME NEW pc \in {"wait", "drain"}, NotDequeued(w, pc), HoldsToken(w)
      PROVE  Tokens(w)' = Tokens(w)
  <2>1. sem'[w] = sem[w] + 1 /\ InFlight(w)' = InFlight(w)
    BY <1>s, <1>2 DEF NotDequeued, InFlight
  <2>2. loop'[w].pc = pc
    BY <1>s, <1>2 DEF NotDequeued, Loop
  <2>3. ~HoldsToken(w)'
    BY <1>2, <2>2 DEF HoldsToken
  <2> QED
    BY <1>s, <1>2, <2>1, <2>3 DEF Tokens
<1>3. CASE Acquire(w)
  <2>1. sem'[w] = sem[w] - 1 /\ InFlight(w)' = InFlight(w)
    BY <1>s, <1>3 DEF Acquire, InFlight
  <2>2. loop'[w].pc = "hook"
    BY <1>s, <1>3 DEF Acquire, Loop
  <2>3. HoldsToken(w)' /\ ~HoldsToken(w)
    BY <1>3, <2>2 DEF HoldsToken, Acquire
  <2> QED
    BY <1>0, <1>s, <2>1, <2>3 DEF Tokens
<1>4. CASE LoopEnds(w) \/ PreDequeue(w) \/ Wait(w) \/ WaitEnds(w) \/ Drained(w)
  <2>1. PICK pc \in LoopPC :
          /\ loop' = [loop EXCEPT ![w].pc = pc]
          /\ pc \in {"hook", "snapshot", "claim", "register"} <=> HoldsToken(w)
    BY <1>4
    DEF LoopEnds, EnterDrain, PreDequeue, Wait, WaitEnds, Drained, LoopPC,
        HoldsToken
  <2> DEFINE new == [loop[w] EXCEPT !.pc = pc]
  <2>2. new \in Loop /\ new.pc = pc
    BY <1>s DEF Loop
  <2>3. loop' = [loop EXCEPT ![w] = new]
    BY <2>1
  <2>4. sem' = sem /\ slot' = slot
    BY <1>4 DEF LoopEnds, PreDequeue, Wait, WaitEnds, Drained
  <2> HIDE DEF new
  <2> QED
    BY <1>0, <1>1, <2>1, <2>2, <2>3, <2>4
<1>5. CASE PreDequeueDeclines(w) \/ DequeueRefused(w) \/ DequeueNothing(w)
             \/ DequeueFails(w) \/ AlreadyExists(w)
  BY <1>0, <1>2, <1>5
  DEF PreDequeueDeclines, DequeueRefused, DequeueNothing, DequeueFails,
      AlreadyExists, AfterError, HoldsToken
<1>6. CASE DequeueSnapshot(w)
  <2> DEFINE new == [loop[w] EXCEPT !.pc = "claim",
                                    !.cands = PotentialCandidates(loop[w].lag)]
  <2>1. new \in Loop /\ new.pc = "claim"
    BY <1>s DEF Loop, LoopPC, PotentialCandidates
  <2> QED
    BY <1>0, <1>1, <1>6, <2>1 DEF DequeueSnapshot, HoldsToken
<1>7. CASE DequeueRecord(w)
  <2>1. PICK r \in loop[w].cands :
          loop' = [loop EXCEPT ![w] = [@ EXCEPT !.pc = "register", !.lag = 0,
                                                !.cands = {}, !.rec = r]]
    BY <1>7 DEF DequeueRecord
  <2> DEFINE new == [loop[w] EXCEPT !.pc = "register", !.lag = 0, !.cands = {},
                                    !.rec = r]
  <2>2. new \in Loop /\ new.pc = "register"
    BY <1>s, NoLag DEF Loop, LoopPC
  <2> QED
    BY <1>0, <1>1, <1>7, <2>1, <2>2 DEF DequeueRecord, HoldsToken
<1>8. CASE Register(w)
  <2> DEFINE row == [FreeSlot EXCEPT !.pc = "handling", !.rec = loop[w].rec]
  <2>1. PICK s \in Slots : /\ slot[w][s].pc = "free"
                           /\ slot' = [slot EXCEPT ![w] = [slot[w] EXCEPT ![s] = row]]
    BY <1>8 DEF Register
  <2>2. row.pc = "handling"
    BY DEF FreeSlot
  <2>3. InFlight(w)' = InFlight(w) \cup {s} /\ s \notin InFlight(w)
    <3> HIDE DEF row
    <3> QED
      BY <1>s, <2>1, <2>2 DEF InFlight
  <2>4. Cardinality(InFlight(w))' = Cardinality(InFlight(w)) + 1
    BY <2>3, InFlightFinite, FS_AddElement
  <2>5. loop'[w].pc = "again" /\ loop[w].pc = "register"
    BY <1>8, <1>s DEF Register, Loop
  <2>6. HoldsToken(w) /\ ~HoldsToken(w)' /\ sem' = sem
    BY <1>8, <2>5 DEF HoldsToken, Register
  <2> QED
    BY <1>0, <1>s, <2>4, <2>6 DEF Tokens
<1> QED
  BY <1>3, <1>4, <1>5, <1>6, <1>7, <1>8 DEF LoopStep

(* A goroutine keeps its token until cleanup ends.                         *)
LEMMA HandlerTokens ==
    ASSUME Shape, NEW w \in Workers, NEW s \in Slots, HandlerStep(w, s),
           NEW v \in Workers
    PROVE  Tokens(v)' = Tokens(v)
<1>s. /\ sem \in [Workers -> Nat] /\ sem[w] \in Nat
      /\ slot \in [Workers -> [Slots -> Slot]]
      /\ slot[w] \in [Slots -> Slot] /\ slot[w][s] \in Slot
      /\ Cardinality(InFlight(w)) \in Nat
  BY InFlightFinite DEF Shape
<1>l. HoldsToken(v)' = HoldsToken(v)
  BY DEF HandlerStep, HandlerReturns, HandlerRequeues, Finalize, ReturnToken,
         RemoveRunning, HoldsToken
<1>0. ASSUME v # w
      PROVE  Tokens(v)' = Tokens(v)
  <2>1. sem'[v] = sem[v] /\ slot'[v] = slot[v]
    BY <1>s, <1>0
    DEF HandlerStep, HandlerReturns, HandlerRequeues, Finalize, ReturnToken,
        RemoveRunning
  <2> QED
    BY <1>l, <2>1, TokensSame DEF InFlight
<1>1. ASSUME NEW row, slot' = [slot EXCEPT ![w] = [slot[w] EXCEPT ![s] = row]],
             row.pc \in {"handling", "finalizing", "cleanup"},
             slot[w][s].pc \in {"handling", "finalizing", "cleanup"},
             sem' = sem
      PROVE  Tokens(w)' = Tokens(w)
  <2>1. HoldsToken(w)' = HoldsToken(w)
    BY DEF HandlerStep, HandlerReturns, HandlerRequeues, Finalize, ReturnToken,
           RemoveRunning, HoldsToken
  <2>2. InFlight(w)' = InFlight(w)
    BY <1>s, <1>1 DEF InFlight
  <2> QED
    BY <1>1, <2>1, <2>2, TokensSame
<1>2. CASE HandlerReturns(w, s)
  <2>1. PICK verdict :
          slot' = [slot EXCEPT ![w] = [slot[w] EXCEPT ![s] =
                     [slot[w][s] EXCEPT !.pc = "finalizing", !.verdict = verdict]]]
    BY <1>2 DEF HandlerReturns
  <2>2. [slot[w][s] EXCEPT !.pc = "finalizing", !.verdict = verdict].pc
          = "finalizing"
    BY <1>s DEF Slot
  <2> QED
    BY <1>0, <1>1, <1>2, <2>1, <2>2 DEF HandlerReturns
<1>3. CASE HandlerRequeues(w, s)
  <2>1. [slot[w][s] EXCEPT !.requeued = TRUE].pc = "handling"
    BY <1>3, <1>s DEF HandlerRequeues, Slot
  <2>2. slot' = [slot EXCEPT ![w] = [slot[w] EXCEPT ![s] =
                   [slot[w][s] EXCEPT !.requeued = TRUE]]]
    BY <1>3 DEF HandlerRequeues
  <2> QED
    BY <1>0, <1>1, <1>3, <2>1, <2>2 DEF HandlerRequeues
<1>4. CASE Finalize(w, s)
  <2>1. [slot[w][s] EXCEPT !.pc = "cleanup"].pc = "cleanup"
    BY <1>s DEF Slot
  <2>2. slot' = [slot EXCEPT ![w] = [slot[w] EXCEPT ![s] =
                   [slot[w][s] EXCEPT !.pc = "cleanup"]]]
    BY <1>4 DEF Finalize
  <2> QED
    BY <1>0, <1>1, <1>4, <2>1, <2>2 DEF Finalize
<1>5. CASE ReturnToken(w, s)
  <2> DEFINE row == [slot[w][s] EXCEPT !.pc = "removing"]
  <2>1. row.pc = "removing"
    BY <1>s DEF Slot
  <2>2. slot' = [slot EXCEPT ![w] = [slot[w] EXCEPT ![s] = row]]
    BY <1>5 DEF ReturnToken
  <2> HIDE DEF row
  <2>3. InFlight(w)' = InFlight(w) \ {s} /\ s \in InFlight(w)
    BY <1>5, <1>s, <2>1, <2>2 DEF InFlight, ReturnToken
  <2>4. Cardinality(InFlight(w))' = Cardinality(InFlight(w)) - 1
    BY <2>3, InFlightFinite, FS_RemoveElement
  <2>5. sem'[w] = sem[w] + 1
    BY <1>5, <1>s DEF ReturnToken
  <2>6. HoldsToken(w)' = HoldsToken(w)
    BY <1>5 DEF ReturnToken, HoldsToken
  <2> QED
    BY <1>0, <1>s, <2>4, <2>5, <2>6 DEF Tokens
<1>6. CASE RemoveRunning(w, s)
  <2>1. slot' = [slot EXCEPT ![w] =
                   [Canceled(w, slot[w][s].rec) EXCEPT ![s] = FreeSlot]]
    BY <1>6 DEF RemoveRunning
  <2>2. \A t \in Slots \ {s} : slot'[w][t].pc = slot[w][t].pc
    BY <1>s, <2>1, CanceledSlots
  <2>3. slot'[w][s].pc = "free" /\ slot[w][s].pc = "removing"
    BY <1>6, <1>s, <2>1, CanceledSlots, FreshTypes DEF RemoveRunning
  <2>4. InFlight(w)' = InFlight(w)
    BY <2>2, <2>3 DEF InFlight
  <2>5. sem'[w] = sem[w] /\ HoldsToken(w)' = HoldsToken(w)
    BY <1>6 DEF RemoveRunning, HoldsToken
  <2> QED
    BY <1>0, <2>4, <2>5, TokensSame
<1> QED
  BY <1>2, <1>3, <1>4, <1>5, <1>6 DEF HandlerStep

(* Nothing else touches a token; a crash forgets them all.                 *)
LEMMA OtherTokens ==
    ASSUME Shape, NEW v \in Workers,
           \/ \E w \in Workers : BeatStep(w) \/ Stop(w)
           \/ ResetterStep \/ UserCancels \/ UserDeletes \/ TimePasses
    PROVE  Tokens(v)' = Tokens(v)
<1>1. CASE ResetterStep \/ UserCancels \/ UserDeletes \/ TimePasses
  <2>1. sem'[v] = sem[v] /\ loop'[v].pc = loop[v].pc /\ slot' = slot
    BY <1>1, TickTouches
    DEF ResetterStep, ResetterReads, ResetterResets, ResetterFails,
        ResetterErrors, UserCancels, UserDeletes
  <2> QED
    BY <2>1, TokensSame DEF HoldsToken, InFlight
<1>2. ASSUME NEW w \in Workers, Stop(w)
      PROVE  Tokens(v)' = Tokens(v)
  <2>1. loop'[v].pc = loop[v].pc
    BY <1>2 DEF Stop, Shape, Loop
  <2>2. sem'[v] = sem[v] /\ slot' = slot
    BY <1>2 DEF Stop
  <2> QED
    BY <2>1, <2>2, TokensSame DEF HoldsToken, InFlight
<1>3. ASSUME NEW w \in Workers, BeatStep(w)
      PROVE  Tokens(v)' = Tokens(v)
  <2>1. sem'[v] = sem[v] /\ loop' = loop
    BY <1>3 DEF BeatStep, BeatSlice, BeatSend, BeatFails, BeatRemove, BeatCancel,
                BeatEnds
  <2>2. slot' = slot \/ \E r \in Records : slot' = [slot EXCEPT ![w] = Canceled(w, r)]
    <3>1. beat[w].unknown \subseteq Records /\ beat[w].cancel \subseteq Records
      BY DEF Shape, Beat
    <3> QED
      BY <1>3, <3>1
      DEF BeatStep, BeatSlice, BeatSend, BeatFails, BeatRemove, BeatCancel,
          BeatEnds, IDSetRemove, IDSetCancel
  <2>3. ASSUME NEW s \in Slots PROVE slot'[v][s].pc = slot[v][s].pc
    <3>1. slot'[v] = slot[v] \/ \E r \in Records : slot'[v] = Canceled(v, r)
      BY <2>2 DEF Shape
    <3> QED
      BY <3>1, CanceledSlots
  <2>4. InFlight(v)' = InFlight(v)
    BY <2>3 DEF InFlight
  <2> QED
    BY <2>1, <2>4, TokensSame DEF HoldsToken
<1> QED
  BY <1>1, <1>2, <1>3

LEMMA CrashTokens ==
    ASSUME Shape, TokensConserved, NEW w \in Workers, Crash(w)
    PROVE  TokensConserved'
<1> SUFFICES ASSUME NEW v \in Workers PROVE Tokens(v)' = NumHandlers
  BY DEF TokensConserved, Tokens
<1>1. CASE v = w
  <2>1. sem'[v] = NumHandlers /\ loop'[v] = FirstLoop
    BY <1>1 DEF Crash, Shape
  <2>2. \A s \in Slots : slot'[v][s] = FreeSlot
    BY <1>1 DEF Crash, Shape
  <2>3. InFlight(v)' = {}
    BY <2>2, FreshTypes DEF InFlight
  <2>4. ~HoldsToken(v)'
    BY <2>1 DEF HoldsToken, FirstLoop
  <2>5. Cardinality(InFlight(v))' = 0
    BY <2>3, FS_EmptySet
  <2> QED
    BY <2>1, <2>4, <2>5, WorkerAssumption DEF Tokens
<1>2. CASE v # w
  <2>1. sem'[v] = sem[v] /\ loop'[v] = loop[v] /\ slot'[v] = slot[v]
    BY <1>2 DEF Crash, Shape
  <2>2. Tokens(v)' = Tokens(v)
    BY <2>1, TokensSame DEF HoldsToken, InFlight
  <2> QED
    BY <2>2 DEF TokensConserved, Tokens
<1> QED
  BY <1>1, <1>2

LEMMA TokensStep ==
    Shape /\ TokensConserved /\ [Next]_vars => TokensConserved'
<1> SUFFICES ASSUME Shape, TokensConserved, [Next]_vars
             PROVE  TokensConserved'
  OBVIOUS
<1>1. ASSUME NEW w \in Workers, Crash(w)
      PROVE  TokensConserved'
  BY <1>1, CrashTokens
<1>2. ASSUME \A v \in Workers : Tokens(v)' = Tokens(v)
      PROVE  TokensConserved'
  BY <1>2 DEF TokensConserved, Tokens
<1>3. CASE UNCHANGED vars
  <2>1. \A v \in Workers : Tokens(v)' = Tokens(v)
    BY <1>3 DEF vars, Tokens, HoldsToken, InFlight
  <2> QED
    BY <1>2, <2>1
<1>4. CASE Next
  BY <1>1, <1>2, <1>4, LoopTokens, HandlerTokens, OtherTokens DEF Next
<1> QED
  BY <1>3, <1>4

(* handlerSemaphore never loses a token and never gets one too many.       *)
THEOREM TokensAlwaysConserved == Spec => []TokensConserved
<1>1. Init => TokensConserved
  <2> SUFFICES ASSUME Init, NEW v \in Workers PROVE Tokens(v) = NumHandlers
    BY DEF TokensConserved, Tokens
  <2>1. InFlight(v) = {} /\ ~HoldsToken(v) /\ sem[v] = NumHandlers
    BY DEF Init, InFlight, FreeSlot, HoldsToken, FirstLoop
  <2> QED
    BY <2>1, FS_EmptySet, WorkerAssumption DEF Tokens
<1>2. (Shape /\ RowsNamed) /\ TokensConserved /\ [Next]_vars => TokensConserved'
  BY TokensStep
<1> QED
  BY <1>1, <1>2, ShapeAlways, PTL DEF Spec

(* Every variable keeps its type, the semaphore its bound included.        *)
THEOREM TypeCorrect == Spec => []TypeOK
<1>1. ASSUME StoreTypeOK, Shape, TokensConserved PROVE TypeOK
  <2>1. ASSUME NEW w \in Workers PROVE sem[w] \in 0 .. NumHandlers
    BY <1>1, InFlightFinite, WorkerAssumption DEF TokensConserved, Shape
  <2> QED
    BY <1>1, <2>1 DEF TypeOK, Shape
<1>2. StoreTypeOK /\ (Shape /\ RowsNamed) /\ TokensConserved => TypeOK
  BY <1>1
<1> QED
  BY <1>2, WorkersUseStore, StoreTypeCorrect, ShapeAlways,
     TokensAlwaysConserved, PTL

-----------------------------------------------------------------------------
(* runningIDSet and the goroutines it stands for.  Neither of EntriesAlive *)
(* and HandlersCovered is inductive alone: that Remove cancels the right   *)
(* goroutine needs both.                                                   *)
Entries == EntriesAlive /\ HandlersCovered

(* The two facts for one worker, as a relation between its set and its     *)
(* goroutines.                                                             *)
Matched(ids, gs) ==
    /\ \A r \in Records : ids[r] # NoSlot =>
          gs[ids[r]].rec = r /\ gs[ids[r]].pc # "free"
    /\ \A s \in Slots : gs[s].pc # "free" /\ ~gs[s].ctx => ids[gs[s].rec] = s

LEMMA EntriesMatched == Entries <=> \A w \in Workers : Matched(running[w], slot[w])
  BY DEF Entries, EntriesAlive, HandlersCovered, Matched

LEMMA RegisterMatched ==
    ASSUME Shape, RowsNamed, NEW w \in Workers, Matched(running[w], slot[w]),
           Register(w)
    PROVE  Matched(running'[w], slot'[w])
<1> DEFINE r == loop[w].rec
           row == [FreeSlot EXCEPT !.pc = "handling", !.rec = r]
           ids == running[w]
           gs == slot[w]
<1>1. PICK s \in Slots : /\ gs[s].pc = "free"
                         /\ running' = [running EXCEPT ![w] = [ids EXCEPT ![r] = s]]
                         /\ slot' = [slot EXCEPT ![w] = [gs EXCEPT ![s] = row]]
  BY DEF Register
<1>2. row.pc = "handling" /\ row.rec = r
  BY DEF FreeSlot
<1>3. /\ r \in Records
      /\ ids[r] = NoSlot
      /\ ids \in [Records -> Slots \cup {NoSlot}]
      /\ gs \in [Slots -> Slot]
      /\ \A t \in Slots : gs[t].pc # "free" => gs[t].rec \in Records
  BY DEF Register, Shape, RowsNamed
<1>4. running'[w] = [ids EXCEPT ![r] = s] /\ slot'[w] = [gs EXCEPT ![s] = row]
  BY <1>1 DEF Shape
<1>5. ASSUME NEW q \in Records, running'[w][q] # NoSlot
      PROVE  slot'[w][running'[w][q]].rec = q /\ slot'[w][running'[w][q]].pc # "free"
  <2> HIDE DEF row
  <2>1. CASE q = r
    BY <1>2, <1>3, <1>4, <2>1
  <2>2. CASE q # r
    <3>1. ids[q] # NoSlot /\ running'[w][q] = ids[q]
      BY <1>3, <1>4, <1>5, <2>2
    <3>2. ids[q] \in Slots /\ gs[ids[q]].rec = q /\ gs[ids[q]].pc # "free"
      BY <1>3, <3>1 DEF Matched
    <3> QED
      BY <1>1, <1>3, <1>4, <3>1, <3>2
  <2> QED
    BY <2>1, <2>2
<1>6. ASSUME NEW t \in Slots, slot'[w][t].pc # "free", ~slot'[w][t].ctx
      PROVE  running'[w][slot'[w][t].rec] = t
  <2> HIDE DEF row
  <2>1. CASE t = s
    BY <1>2, <1>3, <1>4, <2>1
  <2>2. CASE t # s
    <3>1. slot'[w][t] = gs[t]
      BY <1>3, <1>4, <2>2
    <3>2. ids[gs[t].rec] = t /\ gs[t].rec \in Records
      BY <1>3, <1>6, <3>1 DEF Matched
    <3>3. gs[t].rec # r
      BY <1>3, <3>2, WorkerAssumption
    <3> QED
      BY <1>3, <1>4, <3>1, <3>2, <3>3
  <2> QED
    BY <2>1, <2>2
<1> QED
  BY <1>5, <1>6 DEF Matched

(* A goroutine that goes on with the same record and context.              *)
LEMMA SameGoroutine ==
    ASSUME Shape, NEW w \in Workers, NEW s \in Slots, NEW row,
           Matched(running[w], slot[w]),
           slot[w][s].pc # "free", row.pc # "free",
           row.rec = slot[w][s].rec, row.ctx = slot[w][s].ctx
    PROVE  Matched(running[w], [slot[w] EXCEPT ![s] = row])
  BY DEF Shape, Matched

(* Canceling the context of an entry.                                      *)
LEMMA CancelMatched ==
    ASSUME Shape, NEW w \in Workers, Matched(running[w], slot[w]), NEW r
    PROVE  Matched(running[w], Canceled(w, r))
<1> SUFFICES ASSUME NEW t \in Slots
             PROVE  Matched(running[w], Canceled(w, r))
  BY DEF Matched, Shape, Canceled, Has
<1>1. running[w] \in [Records -> Slots \cup {NoSlot}]
  BY DEF Shape
<1>2. ASSUME NEW q \in Records, running[w][q] # NoSlot
      PROVE  /\ Canceled(w, r)[running[w][q]].rec = q
             /\ Canceled(w, r)[running[w][q]].pc # "free"
  BY <1>1, <1>2, CanceledSlots DEF Matched
<1>3. ASSUME NEW s \in Slots, Canceled(w, r)[s].pc # "free", ~Canceled(w, r)[s].ctx
      PROVE  running[w][Canceled(w, r)[s].rec] = s
  BY <1>3, CanceledSlots DEF Matched
<1> QED
  BY <1>2, <1>3 DEF Matched

(* Removing an entry and canceling its context.                            *)
LEMMA RemoveMatched ==
    ASSUME Shape, RowsNamed, NEW w \in Workers, Matched(running[w], slot[w]),
           NEW r \in Records
    PROVE  Matched([running[w] EXCEPT ![r] = NoSlot], Canceled(w, r))
<1> DEFINE ids == [running[w] EXCEPT ![r] = NoSlot]
<1>1. running[w] \in [Records -> Slots \cup {NoSlot}]
  BY DEF Shape
<1>2. ASSUME NEW q \in Records, ids[q] # NoSlot
      PROVE  Canceled(w, r)[ids[q]].rec = q /\ Canceled(w, r)[ids[q]].pc # "free"
  <2>1. ids[q] = running[w][q] /\ running[w][q] \in Slots
    BY <1>1, <1>2
  <2> QED
    BY <1>2, <2>1, CanceledSlots DEF Matched
<1>3. ASSUME NEW s \in Slots, Canceled(w, r)[s].pc # "free", ~Canceled(w, r)[s].ctx
      PROVE  ids[Canceled(w, r)[s].rec] = s
  <2>1. /\ slot[w][s].pc # "free" /\ ~slot[w][s].ctx
        /\ ~(Has(w, r) /\ running[w][r] = s)
        /\ Canceled(w, r)[s].rec = slot[w][s].rec
    BY <1>3, CanceledSlots
  <2>2. running[w][slot[w][s].rec] = s /\ slot[w][s].rec \in Records
    BY <2>1 DEF Matched, RowsNamed
  <2>3. slot[w][s].rec # r
    BY <2>1, <2>2, WorkerAssumption DEF Has
  <2> QED
    BY <1>1, <2>1, <2>2, <2>3
<1> QED
  BY <1>2, <1>3 DEF Matched

(* The goroutine ends: its entry, or the one of a later goroutine for the  *)
(* same record, is removed.                                                *)
LEMMA LeaveMatched ==
    ASSUME Shape, NEW w \in Workers, NEW s \in Slots, NEW ids, NEW gs,
           ids \in [Records -> Slots \cup {NoSlot}], gs \in [Slots -> Slot],
           Matched(ids, gs), gs[s].rec \in Records, ids[gs[s].rec] = NoSlot
    PROVE  Matched(ids, [gs EXCEPT ![s] = FreeSlot])
<1>1. ASSUME NEW q \in Records, ids[q] # NoSlot PROVE ids[q] \in Slots \ {s}
  BY <1>1 DEF Matched
<1> QED
  BY <1>1, FreshTypes DEF Matched

LEMMA EntriesStep ==
    Shape /\ RowsNamed /\ Entries /\ [Next]_vars => Entries'
<1> SUFFICES ASSUME Shape, RowsNamed, Entries, [Next]_vars, NEW v \in Workers
             PROVE  Matched(running'[v], slot'[v])
  BY EntriesMatched, EntriesMatched' DEF Entries, EntriesAlive, HandlersCovered, Matched
<1> USE EntriesMatched
<1>s. /\ running \in [Workers -> [Records -> Slots \cup {NoSlot}]]
      /\ slot \in [Workers -> [Slots -> Slot]]
      /\ Matched(running[v], slot[v])
  BY DEF Shape
<1>0. CASE running'[v] = running[v] /\ slot'[v] = slot[v]
  BY <1>0, <1>s
<1>1. CASE UNCHANGED <<running, slot>>
  BY <1>0, <1>1
<1>2. ASSUME NEW w \in Workers, LoopStep(w)
      PROVE  Matched(running'[v], slot'[v])
  <2>1. CASE Register(w) /\ v # w
    BY <1>0, <1>s, <2>1 DEF Register
  <2>2. CASE Register(w) /\ v = w
    BY <1>s, <2>2, RegisterMatched
  <2> QED
    BY <1>1, <1>2, <2>1, <2>2
    DEF LoopStep, Acquire, LoopEnds, PreDequeue, PreDequeueDeclines, NotDequeued,
        DequeueSnapshot, DequeueRefused, DequeueRecord, DequeueNothing,
        DequeueFails, AlreadyExists, Wait, WaitEnds, Drained
<1>3. ASSUME NEW w \in Workers, NEW s \in Slots, HandlerStep(w, s)
      PROVE  Matched(running'[v], slot'[v])
  <2>1. CASE v # w
    BY <1>0, <1>3, <1>s, <2>1
    DEF HandlerStep, HandlerReturns, HandlerRequeues, Finalize, ReturnToken,
        RemoveRunning
  <2>2. CASE v = w /\ RemoveRunning(w, s)
    <3> DEFINE r == slot[w][s].rec
               ids == [running[w] EXCEPT ![r] = NoSlot]
    <3>1. running'[v] = ids /\ slot'[v] = [Canceled(w, r) EXCEPT ![s] = FreeSlot]
      BY <1>s, <2>2 DEF RemoveRunning
    <3>2. r \in Records
      BY <2>2 DEF RemoveRunning, RowsNamed
    <3>3. Matched(ids, Canceled(w, r))
      BY <1>s, <2>2, <3>2, RemoveMatched
    <3>4. /\ Canceled(w, r) \in [Slots -> Slot]
          /\ Canceled(w, r)[s].rec = r
      BY CanceledSlots
    <3>5. ids \in [Records -> Slots \cup {NoSlot}] /\ ids[r] = NoSlot
      BY <1>s, <3>2
    <3> HIDE DEF ids
    <3> QED
      BY <3>1, <3>2, <3>3, <3>4, <3>5, LeaveMatched
  <2>3. ASSUME v = w, NEW row, slot[w][s].pc # "free", row.pc # "free",
               row.rec = slot[w][s].rec, row.ctx = slot[w][s].ctx,
               UNCHANGED running,
               slot' = [slot EXCEPT ![w] = [slot[w] EXCEPT ![s] = row]]
        PROVE  Matched(running'[v], slot'[v])
    BY <1>s, <2>3, SameGoroutine
  <2>r. slot[w][s] \in Slot
    BY <1>s
  <2>4. CASE v = w /\ HandlerReturns(w, s)
    <3>1. PICK verdict :
            slot' = [slot EXCEPT ![w] = [slot[w] EXCEPT ![s] =
                       [slot[w][s] EXCEPT !.pc = "finalizing", !.verdict = verdict]]]
      BY <2>4 DEF HandlerReturns
    <3> DEFINE row == [slot[w][s] EXCEPT !.pc = "finalizing", !.verdict = verdict]
    <3>2. row.pc # "free" /\ row.rec = slot[w][s].rec /\ row.ctx = slot[w][s].ctx
      BY <2>r DEF Slot
    <3> QED
      BY <2>3, <2>4, <3>1, <3>2 DEF HandlerReturns
  <2>5. CASE v = w /\ HandlerRequeues(w, s)
    <3> DEFINE row == [slot[w][s] EXCEPT !.requeued = TRUE]
    <3>1. row.pc # "free" /\ row.rec = slot[w][s].rec /\ row.ctx = slot[w][s].ctx
      BY <2>5, <2>r DEF HandlerRequeues, Slot
    <3>2. slot' = [slot EXCEPT ![w] = [slot[w] EXCEPT ![s] = row]]
      BY <2>5 DEF HandlerRequeues
    <3> QED
      BY <2>3, <2>5, <3>1, <3>2 DEF HandlerRequeues
  <2>6. ASSUME v = w, NEW pc \in {"cleanup", "removing"}, UNCHANGED running,
               slot[w][s].pc # "free", slot' = [slot EXCEPT ![w][s].pc = pc]
        PROVE  Matched(running'[v], slot'[v])
    <3> DEFINE row == [slot[w][s] EXCEPT !.pc = pc]
    <3>1. row.pc # "free" /\ row.rec = slot[w][s].rec /\ row.ctx = slot[w][s].ctx
      BY <2>r DEF Slot
    <3>2. slot' = [slot EXCEPT ![w] = [slot[w] EXCEPT ![s] = row]]
      BY <2>6
    <3> QED
      BY <2>3, <2>6, <3>1, <3>2
  <2> QED
    BY <1>3, <2>1, <2>2, <2>4, <2>5, <2>6 DEF HandlerStep, Finalize, ReturnToken
<1>4. ASSUME NEW w \in Workers, BeatStep(w)
      PROVE  Matched(running'[v], slot'[v])
  <2>1. CASE v # w
    BY <1>0, <1>4, <1>s, <2>1
    DEF BeatStep, BeatSlice, BeatSend, BeatFails, BeatRemove, BeatCancel,
        BeatEnds, IDSetRemove, IDSetCancel
  <2>2. CASE v = w /\ BeatRemove(w)
    <3>1. PICK r \in beat[w].unknown : IDSetRemove(w, r)
      BY <2>2 DEF BeatRemove
    <3>2. r \in Records
      BY DEF Shape, Beat
    <3>3. /\ running'[v] = [running[w] EXCEPT ![r] = NoSlot]
          /\ slot'[v] = Canceled(w, r)
      BY <1>s, <2>2, <3>1 DEF IDSetRemove
    <3> QED
      BY <1>s, <2>2, <3>2, <3>3, RemoveMatched
  <2>3. CASE v = w /\ BeatCancel(w)
    <3>1. PICK r \in beat[w].cancel : IDSetCancel(w, r)
      BY <2>3 DEF BeatCancel
    <3>2. running'[v] = running[w] /\ slot'[v] = Canceled(w, r)
      BY <1>s, <2>3, <3>1 DEF IDSetCancel
    <3> QED
      BY <1>s, <2>3, <3>2, CancelMatched
  <2> QED
    BY <1>1, <1>4, <2>1, <2>2, <2>3
    DEF BeatStep, BeatSlice, BeatSend, BeatFails, BeatEnds
<1>5. ASSUME NEW w \in Workers, Crash(w)
      PROVE  Matched(running'[v], slot'[v])
  <2>1. CASE v # w
    BY <1>0, <1>5, <1>s, <2>1 DEF Crash
  <2>2. CASE v = w
    BY <1>5, <1>s, <2>2, FreshTypes DEF Crash, Matched
  <2> QED
    BY <2>1, <2>2
<1>6. CASE \/ \E w \in Workers : Stop(w)
           \/ ResetterStep \/ UserCancels \/ UserDeletes \/ TimePasses
           \/ UNCHANGED vars
  BY <1>1, <1>6
  DEF Stop, ResetterStep, ResetterReads, ResetterResets, ResetterFails,
      ResetterErrors, UserCancels, UserDeletes, TimePasses, vars
<1> QED
  BY <1>2, <1>3, <1>4, <1>5, <1>6 DEF Next

LEMMA EntriesAlways == Spec => []Entries
<1>1. Init => Entries
  BY FreshTypes DEF Init, Entries, EntriesAlive, HandlersCovered
<1>2. (Shape /\ RowsNamed) /\ Entries /\ [Next]_vars => Entries'
  BY EntriesStep
<1> QED
  BY <1>1, <1>2, ShapeAlways, PTL DEF Spec

(* No entry of runningIDSet outlives its goroutine.                        *)
THEOREM EntriesAlwaysAlive == Spec => []EntriesAlive
<1>1. Entries => EntriesAlive
  BY DEF Entries
<1> QED
  BY <1>1, EntriesAlways, PTL

(* A goroutine that heartbeats do not cover has been told to stop.         *)
THEOREM HandlersAlwaysCovered == Spec => []HandlersCovered
<1>1. Entries => HandlersCovered
  BY DEF Entries
<1> QED
  BY <1>1, EntriesAlways, PTL

-----------------------------------------------------------------------------
(* One ResetStalled call.  What its first statement reset can only be      *)
(* processing again with a heartbeat no older than the call and the        *)
(* Dequeue or Heartbeat that wrote it.                                     *)
ResetYoung ==
    resetter.pc = "fail" => \A r \in resetter.ids :
        jobs[r].state = "processing" =>
            jobs[r].heartbeat_age <= resetter.lag + MaxCallTicks

(* A row that a statement leaves processing has a heartbeat no older than  *)
(* before, or one a call has just written.                                 *)
LEMMA RowYoung ==
    ASSUME NEW old \in Job, NEW new, RowWrite(old, new), NEW n \in Nat,
           MaxCallTicks <= n,
           old.state = "processing" => old.heartbeat_age <= n,
           new.state = "processing"
    PROVE  new.heartbeat_age <= n
<1>b. ASSUME NEW lag \in 0 .. MaxCallTicks PROVE BeatAge(lag) <= n
  <2>1. OldestHeartbeat \in Nat /\ MaxCallTicks \in Nat
    BY StoreAssumption DEF OldestHeartbeat
  <2> QED
    BY <2>1 DEF BeatAge
<1> USE DEF Job
<1>1. ASSUME NEW h \in Workers, NEW lag \in 0 .. MaxCallTicks,
             new = Claimed(old, h, lag)
      PROVE  new.heartbeat_age <= n
  BY <1>1, <1>b DEF Claimed
<1>2. CASE new = CompletedJob(old)
  BY <1>2 DEF CompletedJob
<1>3. CASE new = ErroredJob(old) \/ new = FailedJob(old)
  <2>1. new.state \in {"canceled", "failed", "errored"}
    BY <1>3 DEF ErroredJob, FailedJob
  <2> QED
    BY <2>1
<1>4. CASE new = AbandonedJob(old) \/ new = ResetJob(old)
  BY <1>4 DEF AbandonedJob, ResetJob
<1>5. ASSUME NEW lag \in 0 .. MaxCallTicks,
             new = [old EXCEPT !.heartbeat_age = BeatAge(lag)]
      PROVE  new.heartbeat_age <= n
  BY <1>5, <1>b
<1>6. ASSUME NEW d \in 0 .. MaxDelay, new = Requeued(old, d)
      PROVE  new.heartbeat_age <= n
  BY <1>6 DEF Requeued
<1>7. CASE old.state = "queued" /\ new = CanceledJob(old)
  BY <1>7 DEF CanceledJob
<1>8. CASE old.state = "processing" /\ new = CanceledJob(old)
  <2>1. new.heartbeat_age = old.heartbeat_age
    BY <1>8 DEF CanceledJob
  <2> QED
    BY <1>8, <2>1
<1>9. CASE new = [old EXCEPT !.state = "deleted"]
  BY <1>9
<1>10. CASE new = old
  BY <1>10
<1> QED
  BY <1>1, <1>2, <1>3, <1>4, <1>5, <1>6, <1>7, <1>8, <1>9, <1>10 DEF RowWrite

LEMMA OlderYoung ==
    ASSUME NEW old \in Job, NEW lag \in Nat, old.heartbeat_age <= lag
    PROVE  /\ Older(old).state = old.state
           /\ Older(old).heartbeat_age <= lag + 1
<1>1. /\ Older(old).state = old.state
      /\ Older(old).heartbeat_age =
           IF old.heartbeat_age < OldestHeartbeat THEN old.heartbeat_age + 1
                                                  ELSE old.heartbeat_age
  BY DEF Older, Job
<1>2. old.heartbeat_age \in Nat
  BY DEF Job
<1> QED
  BY <1>1, <1>2

LEMMA ResetYoungStep ==
    StoreTypeOK /\ Shape /\ RowsNamed /\ ResetYoung /\ [Next]_vars => ResetYoung'
<1> SUFFICES ASSUME StoreTypeOK, Shape, RowsNamed, ResetYoung, [Next]_vars,
                    resetter'.pc = "fail", NEW r \in resetter'.ids,
                    jobs'[r].state = "processing"
             PROVE  jobs'[r].heartbeat_age <= resetter'.lag + MaxCallTicks
  BY DEF ResetYoung
<1>r. resetter \in Resetter /\ resetter.lag \in Nat /\ MaxCallTicks \in Nat
  BY StoreAssumption DEF Shape, Resetter
<1>1. CASE ResetterResets
  <2>1. r \in ResettableIDs(resetter.lag)
    BY <1>1, <1>r DEF ResetterResets, Resetter
  <2>2. jobs'[r] = ResetJob(jobs[r]) /\ jobs[r] \in Job
    BY <1>1, <2>1 DEF ResetterResets, ResetStalledQuery, StoreTypeOK, ResettableIDs
  <2>3. jobs'[r].state = "queued"
    BY <2>2 DEF ResetJob, Job
  <2> QED
    BY <2>3
<1>2. CASE ResetterReads \/ ResetterFails \/ ResetterErrors
  BY <1>2, <1>r
  DEF ResetterReads, ResetterFails, ResetterErrors, IdleResetter, Resetter
<1>3. CASE UNCHANGED resetter /\ [Statement]_jobs
  <2>1. r \in Records /\ jobs[r] \in Job
    BY <1>3, <1>r DEF Resetter, StoreTypeOK
  <2>2. jobs[r].state = "processing" =>
          jobs[r].heartbeat_age <= resetter.lag + MaxCallTicks
    BY <1>3 DEF ResetYoung
  <2>3. RowWrite(jobs[r], jobs'[r])
    BY <1>3, <2>1, StatementRowWrite
  <2>4. /\ resetter.lag + MaxCallTicks \in Nat
        /\ MaxCallTicks <= resetter.lag + MaxCallTicks
    BY <1>r
  <2>5. jobs'[r].heartbeat_age <= resetter.lag + MaxCallTicks
    BY <2>1, <2>2, <2>3, <2>4, RowYoung
  <2> QED
    BY <1>3, <2>5
<1>4. CASE TimePasses
  <2>1. resetter.pc = "fail" /\ resetter'.ids = resetter.ids
    BY <1>4, TickTouches
  <2>2. resetter'.lag = resetter.lag + 1
    BY <1>4, <2>1, TickTouches DEF Resetting
  <2>3. r \in Records /\ jobs[r] \in Job /\ jobs'[r] = Older(jobs[r])
    BY <1>4, <1>r, <2>1 DEF Resetter, StoreTypeOK, TimePasses, Tick
  <2>4. Older(jobs[r]).state = jobs[r].state
    BY <2>3 DEF Older, Job
  <2>5. jobs[r].heartbeat_age <= resetter.lag + MaxCallTicks
    BY <2>1, <2>3, <2>4 DEF ResetYoung
  <2>6. Older(jobs[r]).heartbeat_age <= (resetter.lag + MaxCallTicks) + 1
    BY <1>r, <2>3, <2>5, OlderYoung
  <2> QED
    BY <1>r, <2>2, <2>3, <2>6 DEF Job
<1>5. CASE UNCHANGED vars
  BY <1>3, <1>5 DEF vars
<1>6. CASE \/ \E w \in Workers : LoopStep(w) \/ BeatStep(w) \/ Stop(w) \/ Crash(w)
           \/ \E w \in Workers, s \in Slots : HandlerStep(w, s)
           \/ UserCancels \/ UserDeletes
  <2>1. UNCHANGED resetter
    BY <1>6
    DEF LoopStep, Acquire, LoopEnds, PreDequeue, PreDequeueDeclines, NotDequeued,
        DequeueSnapshot, DequeueRefused, DequeueRecord, DequeueNothing,
        DequeueFails, Register, AlreadyExists, Wait, WaitEnds, Drained,
        BeatStep, BeatSlice, BeatSend, BeatFails, BeatRemove, BeatCancel,
        BeatEnds, Stop, Crash, HandlerStep, HandlerReturns, HandlerRequeues,
        Finalize, ReturnToken, RemoveRunning, UserCancels, UserDeletes
  <2>2. [Statement]_jobs \/ TimePasses
    BY UsesStoreStep
  <2> QED
    BY <1>3, <1>4, <2>1, <2>2
<1> QED
  BY <1>1, <1>2, <1>4, <1>5, <1>6 DEF Next, ResetterStep

(* A ResetStalled call never fails a record that it has just reset,        *)
(* however long it takes and whoever dequeues the record meanwhile, if no  *)
(* Dequeue or Heartbeat is under way for longer than StalledMaxAge: both   *)
(* statements compare with the same now.                                   *)
THEOREM ResetNeverFailed ==
    ASSUME MaxCallTicks <= StalledMaxAge
    PROVE  Spec => []ResetNotFailed
<1>1. Init => ResetYoung
  BY DEF Init, ResetYoung, IdleResetter
<1>2. StoreTypeOK /\ (Shape /\ RowsNamed) /\ ResetYoung /\ [Next]_vars
        => ResetYoung'
  BY ResetYoungStep
<1>3. ASSUME StoreTypeOK, Shape, ResetYoung PROVE ResetNotFailed
  <2> SUFFICES ASSUME resetter.pc = "fail", NEW r \in resetter.ids,
                      r \in UnresettableIDs(resetter.lag)
               PROVE  FALSE
    BY DEF ResetNotFailed
  <2>1. resetter.lag \in Nat /\ r \in Records /\ jobs[r] \in Job
    BY <1>3 DEF Shape, Resetter, StoreTypeOK
  <2>2. /\ jobs[r].state = "processing"
        /\ jobs[r].heartbeat_age - resetter.lag > StalledMaxAge
    BY DEF UnresettableIDs, Stalled
  <2>3. jobs[r].heartbeat_age <= resetter.lag + MaxCallTicks
    BY <1>3, <2>2 DEF ResetYoung
  <2>4. jobs[r].heartbeat_age \in Nat
    BY <2>1 DEF Job
  <2> QED
    BY <2>1, <2>2, <2>3, <2>4, StoreAssumption
<1>4. StoreTypeOK /\ (Shape /\ RowsNamed) /\ ResetYoung => ResetNotFailed
  BY <1>3
<1> QED
  BY <1>1, <1>2, <1>4, ShapeAlways, WorkersUseStore, StoreTypeCorrect, PTL
  DEF Spec

-----------------------------------------------------------------------------
(* The end of a worker: Stop, or NumTotalJobs records.                     *)

(* Once finished is closed (Stop and Start have returned) no handler runs. *)
StoppedIdle ==
    \A w \in Workers : loop[w].pc = "stopped" => InFlight(w) = {}

(* A worker process never gives its handler more records than NumTotalJobs,*)
(* the one it holds a token for included.  (A claim whose answer was lost  *)
(* is not counted: the resetter takes it back.)                            *)
WithinQuota ==
    NumTotalJobs # 0 => \A w \in Workers :
        /\ loop[w].numDequeues <= NumTotalJobs
        /\ HoldsToken(w) => loop[w].numDequeues < NumTotalJobs

(* Nothing but a dequeue loop starts a goroutine.                          *)
LEMMA NoNewGoroutine ==
    ASSUME Shape, [Next]_vars, NEW v \in Workers, ~Register(v)
    PROVE  InFlight(v)' \subseteq InFlight(v)
<1>s. slot \in [Workers -> [Slots -> Slot]]
  BY DEF Shape
<1>1. CASE slot'[v] = slot[v]
  BY <1>1 DEF InFlight
<1>2. ASSUME NEW w \in Workers, LoopStep(w)
      PROVE  InFlight(v)' \subseteq InFlight(v)
  <2>1. CASE Register(w)
    BY <1>1, <1>s, <2>1 DEF Register
  <2>2. CASE UNCHANGED slot
    BY <1>1, <2>2
  <2> QED
    BY <1>2, <2>1, <2>2
    DEF LoopStep, Acquire, LoopEnds, PreDequeue, PreDequeueDeclines, NotDequeued,
        DequeueSnapshot, DequeueRefused, DequeueRecord, DequeueNothing,
        DequeueFails, AlreadyExists, Wait, WaitEnds, Drained
<1>3. ASSUME NEW w \in Workers, NEW s \in Slots, HandlerStep(w, s)
      PROVE  InFlight(v)' \subseteq InFlight(v)
  <2>1. CASE v # w
    BY <1>1, <1>3, <1>s, <2>1
    DEF HandlerStep, HandlerReturns, HandlerRequeues, Finalize, ReturnToken,
        RemoveRunning
  <2>2. ASSUME v = w, s \in InFlight(v), \A t \in Slots \ {s} : slot'[v][t] = slot[v][t]
        PROVE  InFlight(v)' \subseteq InFlight(v)
    BY <2>2 DEF InFlight
  <2>3. CASE v = w /\ ~ReturnToken(w, s) /\ ~RemoveRunning(w, s)
    <3>1. s \in InFlight(v)
      BY <1>3, <2>3
      DEF HandlerStep, HandlerReturns, HandlerRequeues, Finalize, InFlight
    <3>2. PICK row : slot' = [slot EXCEPT ![w] = [slot[w] EXCEPT ![s] = row]]
      BY <1>3, <2>3 DEF HandlerStep, HandlerReturns, HandlerRequeues, Finalize
    <3> QED
      BY <1>s, <2>2, <2>3, <3>1, <3>2
  <2>4. CASE v = w /\ ReturnToken(w, s)
    BY <1>s, <2>2, <2>4 DEF ReturnToken, InFlight
  <2>5. CASE v = w /\ RemoveRunning(w, s)
    <3> DEFINE r == slot[w][s].rec
    <3>1. slot'[v] = [Canceled(w, r) EXCEPT ![s] = FreeSlot]
      BY <1>s, <2>5 DEF RemoveRunning
    <3>2. \A t \in Slots : slot'[v][t].pc \in {"free", slot[v][t].pc}
      BY <2>5, <3>1, CanceledSlots, FreshTypes
    <3> QED
      BY <3>2 DEF InFlight
  <2> QED
    BY <2>1, <2>3, <2>4, <2>5
<1>4. ASSUME NEW w \in Workers, BeatStep(w)
      PROVE  InFlight(v)' \subseteq InFlight(v)
  <2>1. \/ UNCHANGED slot
        \/ \E r \in Records : slot' = [slot EXCEPT ![w] = Canceled(w, r)]
    BY <1>4
    DEF BeatStep, BeatSlice, BeatSend, BeatFails, BeatRemove, BeatCancel, BeatEnds,
        IDSetRemove, IDSetCancel, Shape, Beat
  <2>2. CASE UNCHANGED slot
    BY <1>1, <2>2
  <2>3. ASSUME NEW r \in Records, slot' = [slot EXCEPT ![w] = Canceled(w, r)]
        PROVE  InFlight(v)' \subseteq InFlight(v)
    <3>1. slot'[v] = IF v = w THEN Canceled(w, r) ELSE slot[v]
      BY <1>s, <2>3
    <3>2. \A t \in Slots : slot'[v][t].pc = slot[v][t].pc
      BY <3>1, CanceledSlots
    <3> QED
      BY <3>2 DEF InFlight
  <2> QED
    BY <2>1, <2>2, <2>3
<1>5. ASSUME NEW w \in Workers, Crash(w)
      PROVE  InFlight(v)' \subseteq InFlight(v)
  <2>1. CASE v # w
    BY <1>1, <1>5, <1>s, <2>1 DEF Crash
  <2>2. CASE v = w
    BY <1>5, <1>s, <2>2, FreshTypes DEF Crash, InFlight
  <2> QED
    BY <2>1, <2>2
<1>6. CASE \/ \E w \in Workers : Stop(w)
           \/ ResetterStep \/ UserCancels \/ UserDeletes \/ TimePasses
           \/ UNCHANGED vars
  BY <1>1, <1>6
  DEF Stop, ResetterStep, ResetterReads, ResetterResets, ResetterFails,
      ResetterErrors, UserCancels, UserDeletes, TimePasses, vars
<1> QED
  BY <1>2, <1>3, <1>4, <1>5, <1>6 DEF Next

(* What a step does to the position and the count of a dequeue loop.       *)
LEMMA LoopMoves ==
    ASSUME Shape, [Next]_vars, NEW v \in Workers
    PROVE  \/ loop'[v].pc = loop[v].pc /\ loop'[v].numDequeues = loop[v].numDequeues
           \/ Drained(v)
           \/ /\ loop'[v].numDequeues = loop[v].numDequeues
              /\ loop'[v].pc \notin {"stopped", "hook", "snapshot", "claim", "register"}
           \/ /\ loop'[v].numDequeues = loop[v].numDequeues
              /\ loop'[v].pc # "stopped"
              /\ HoldsToken(v) \/ Acquire(v)
           \/ Register(v)
           \/ loop'[v] = FirstLoop
<1>l. loop \in [Workers -> Loop] /\ loop[v] \in Loop
  BY DEF Shape
<1>1. CASE loop'[v] = loop[v]
  BY <1>1
<1>2. ASSUME NEW w \in Workers, LoopStep(w), w # v
      PROVE  loop'[v] = loop[v]
  BY <1>2, <1>l
  DEF LoopStep, Acquire, LoopEnds, EnterDrain, PreDequeue, PreDequeueDeclines,
      NotDequeued, DequeueSnapshot, DequeueRefused, DequeueRecord, DequeueNothing,
      DequeueFails, Register, AlreadyExists, Wait, WaitEnds, Drained
<1>3. CASE LoopEnds(v) \/ Wait(v) \/ WaitEnds(v)
  BY <1>3, <1>l DEF LoopEnds, EnterDrain, Wait, WaitEnds, Loop
<1>4. CASE Acquire(v)
  BY <1>4, <1>l DEF Acquire, Loop
<1>5. CASE PreDequeue(v) \/ DequeueSnapshot(v) \/ DequeueRecord(v)
  BY <1>5, <1>l DEF PreDequeue, DequeueSnapshot, DequeueRecord, HoldsToken, Loop
<1>6. CASE PreDequeueDeclines(v) \/ DequeueRefused(v) \/ DequeueNothing(v)
             \/ DequeueFails(v) \/ AlreadyExists(v)
  <2>1. PICK pc \in {"wait", "drain"} : NotDequeued(v, pc)
    BY <1>6 DEF PreDequeueDeclines, DequeueRefused, DequeueNothing, DequeueFails,
                AlreadyExists, AfterError
  <2> QED
    BY <1>l, <2>1 DEF NotDequeued, Loop
<1>7. ASSUME NEW w \in Workers, Stop(w)
      PROVE  loop'[v].pc = loop[v].pc /\ loop'[v].numDequeues = loop[v].numDequeues
  BY <1>7, <1>l DEF Stop, Loop
<1>8. ASSUME NEW w \in Workers, Crash(w)
      PROVE  loop'[v] = loop[v] \/ loop'[v] = FirstLoop
  BY <1>8, <1>l DEF Crash
<1>9. CASE \/ \E w \in Workers : BeatStep(w)
           \/ \E w \in Workers, s \in Slots : HandlerStep(w, s)
           \/ ResetterStep \/ UserCancels \/ UserDeletes
           \/ UNCHANGED vars
  BY <1>1, <1>9
  DEF BeatStep, BeatSlice, BeatSend, BeatFails, BeatRemove, BeatCancel, BeatEnds,
      HandlerStep, HandlerReturns, HandlerRequeues, Finalize, ReturnToken,
      RemoveRunning, ResetterStep, ResetterReads, ResetterResets, ResetterFails,
      ResetterErrors, UserCancels, UserDeletes, vars
<1>10. CASE TimePasses
  BY <1>10, TickTouches
<1> QED
  BY <1>1, <1>2, <1>3, <1>4, <1>5, <1>6, <1>7, <1>8, <1>9, <1>10
  DEF Next, LoopStep

(* When Stop has returned, no handler of the worker is running any more.   *)
THEOREM StoppedAlwaysIdle == Spec => []StoppedIdle
<1>1. Init => StoppedIdle
  BY DEF Init, StoppedIdle, FirstLoop
<1>2. ASSUME Shape, StoppedIdle, [Next]_vars PROVE StoppedIdle'
  <2> SUFFICES ASSUME NEW v \in Workers, loop'[v].pc = "stopped"
               PROVE  InFlight(v)' = {}
    BY DEF StoppedIdle
  <2>1. ASSUME Register(v) PROVE FALSE
    <3>1. loop[v] \in Loop /\ loop'[v].pc = "again"
      BY <1>2, <2>1 DEF Register, Shape, Loop
    <3> QED
      BY <3>1
  <2>2. InFlight(v) = {}
    <3>1. loop[v].pc = "stopped" \/ Drained(v)
      BY <1>2, <2>1, LoopMoves DEF FirstLoop
    <3> QED
      BY <1>2, <3>1 DEF StoppedIdle, Drained
  <2> QED
    BY <1>2, <2>1, <2>2, NoNewGoroutine
<1>3. (Shape /\ RowsNamed) /\ StoppedIdle /\ [Next]_vars => StoppedIdle'
  BY <1>2
<1> QED
  BY <1>1, <1>3, ShapeAlways, PTL DEF Spec

(* One process handles at most NumTotalJobs records.                       *)
THEOREM AlwaysWithinQuota == Spec => []WithinQuota
<1>1. Init => WithinQuota
  BY WorkerAssumption DEF Init, WithinQuota, FirstLoop, HoldsToken
<1>2. ASSUME Shape, WithinQuota, [Next]_vars PROVE WithinQuota'
  <2> SUFFICES ASSUME NumTotalJobs # 0, NEW v \in Workers
               PROVE  /\ loop'[v].numDequeues <= NumTotalJobs
                      /\ HoldsToken(v)' => loop'[v].numDequeues < NumTotalJobs
    BY DEF WithinQuota
  <2>1. /\ loop[v] \in Loop /\ loop[v].numDequeues \in Nat /\ NumTotalJobs \in Nat
        /\ loop[v].numDequeues <= NumTotalJobs
        /\ HoldsToken(v) => loop[v].numDequeues < NumTotalJobs
    BY <1>2, WorkerAssumption DEF Shape, Loop, WithinQuota
  <2>2. CASE Register(v)
    <3>1. /\ loop'[v].pc = "again"
          /\ loop'[v].numDequeues = loop[v].numDequeues + 1
      BY <1>2, <2>1, <2>2 DEF Register, Counted, Shape, Loop
    <3>2. HoldsToken(v)
      BY <2>2 DEF Register, HoldsToken
    <3> QED
      BY <2>1, <3>1, <3>2 DEF HoldsToken
  <2>3. CASE Acquire(v)
    <3>1. loop'[v].numDequeues = loop[v].numDequeues
      BY <1>2, <2>3 DEF Acquire, Shape, Loop
    <3> QED
      BY <2>1, <2>3, <3>1 DEF Acquire, QuotaReached
  <2>4. CASE Drained(v)
    <3>1. loop'[v].pc = "stopped" /\ loop'[v].numDequeues = loop[v].numDequeues
      BY <1>2, <2>1, <2>4 DEF Drained, Shape, Loop
    <3> QED
      BY <2>1, <3>1 DEF HoldsToken
  <2>5. CASE loop'[v] = FirstLoop
    BY <2>1, <2>5 DEF FirstLoop, HoldsToken
  <2>6. CASE loop'[v].numDequeues = loop[v].numDequeues
               /\ (HoldsToken(v)' => HoldsToken(v))
    BY <2>1, <2>6
  <2> QED
    BY <1>2, <2>2, <2>3, <2>4, <2>5, <2>6, LoopMoves DEF HoldsToken
<1>3. (Shape /\ RowsNamed) /\ WithinQuota /\ [Next]_vars => WithinQuota'
  BY <1>2
<1> QED
  BY <1>1, <1>3, ShapeAlways, PTL DEF Spec

-----------------------------------------------------------------------------
(* No late verdict, heartbeat, reset or claim reopens a closed record: only*)
(* a handler that requeues does.                                           *)
ClosedStays ==
    [][requeues' = requeues =>
         \A r \in Records : jobs[r].state \in Terminal =>
             jobs'[r].state \in {jobs[r].state, "deleted"}]_vars

LEMMA ClosedRow ==
    ASSUME StoreTypeOK, Shape, RowsNamed, [Next]_vars, requeues' = requeues,
           NEW r \in Records, jobs[r].state \in Terminal
    PROVE  jobs'[r].state \in {jobs[r].state, "deleted"}
<1>j. jobs \in [Records -> Job] /\ jobs[r] \in Job
  BY DEF StoreTypeOK
<1>t. jobs[r].state \notin {"queued", "errored", "processing", "deleted"}
  BY DEF Terminal
<1>0. CASE jobs'[r] = jobs[r]
  BY <1>0
<1>1. ASSUME NEW q \in Records, NEW h, NEW lag, DequeueClaim(q, h, lag)
      PROVE  jobs'[r] = jobs[r]
  BY <1>1, <1>j, <1>t DEF DequeueClaim, Recheck
<1>2. ASSUME NEW q, NEW h, NEW final, MarkFinal(q, h, final)
      PROVE  jobs'[r] = jobs[r]
  BY <1>2, <1>j, <1>t DEF MarkFinal, Held
<1>3. ASSUME NEW ids, NEW h, NEW lag, Heartbeat(ids, h, lag)
      PROVE  jobs'[r] = jobs[r]
  BY <1>3, <1>t DEF Heartbeat, KnownIDs, Held
<1>4. ASSUME NEW w \in Workers, LoopStep(w)
      PROVE  jobs'[r] = jobs[r]
  <2>1. loop[w].cands \subseteq Records
    BY DEF Shape, Loop
  <2> QED
    BY <1>1, <1>4, <2>1
    DEF LoopStep, Acquire, LoopEnds, PreDequeue, PreDequeueDeclines,
        DequeueSnapshot, DequeueRefused, DequeueRecord, DequeueNothing,
        DequeueFails, Register, AlreadyExists, Wait, WaitEnds, Drained
<1>5. ASSUME NEW w \in Workers, NEW s \in Slots, HandlerStep(w, s)
      PROVE  jobs'[r] = jobs[r]
  <2>1. ~HandlerRequeues(w, s)
    <3>1. requeues \in Nat
      BY WorkerAssumption DEF Shape
    <3> QED
      BY <3>1 DEF HandlerRequeues
  <2>2. CASE Finalize(w, s)
    <3>1. CASE MarkStatement(w, s)
      BY <1>2, <3>1 DEF MarkStatement, MarkComplete, MarkErrored, MarkFailed
    <3> QED
      BY <2>2, <3>1 DEF Finalize
  <2> QED
    BY <1>5, <2>1, <2>2 DEF HandlerStep, HandlerReturns, ReturnToken, RemoveRunning
<1>6. ASSUME NEW w \in Workers, BeatStep(w)
      PROVE  jobs'[r] = jobs[r]
  BY <1>3, <1>6
  DEF BeatStep, BeatSlice, BeatSend, BeatFails, BeatRemove, BeatCancel, BeatEnds
<1>7. CASE ResetterStep
  <2>1. CASE ResetStalledQuery(resetter.lag)
    BY <1>t, <2>1 DEF ResetStalledQuery, ResettableIDs, Stalled
  <2>2. CASE ResetStalledMaxResetsQuery(resetter.lag)
    BY <1>t, <2>2 DEF ResetStalledMaxResetsQuery, UnresettableIDs, Stalled
  <2> QED
    BY <1>7, <2>1, <2>2
    DEF ResetterStep, ResetterReads, ResetterResets, ResetterFails,
        ResetterErrors
<1>8. CASE UserCancels \/ UserDeletes
  BY <1>8, <1>j, <1>t DEF UserCancels, UserDeletes, CancelJob, DeleteJob, Job
<1>9. CASE TimePasses
  <2>1. jobs'[r] = Older(jobs[r])
    BY <1>9 DEF TimePasses, Tick
  <2> QED
    BY <1>j, <2>1 DEF Older, Job
<1>10. CASE \/ \E w \in Workers : Stop(w) \/ Crash(w)
            \/ UNCHANGED vars
  BY <1>10 DEF Stop, Crash, vars
<1> QED
  BY <1>4, <1>5, <1>6, <1>7, <1>8, <1>9, <1>10 DEF Next

(* A record that is completed, failed or canceled keeps its verdict,       *)
(* whatever the timing, unless a handler requeues it.                      *)
THEOREM ClosedAlwaysStays == Spec => ClosedStays
<1>1. StoreTypeOK /\ (Shape /\ RowsNamed) /\ [Next]_vars =>
        [requeues' = requeues =>
           \A r \in Records : jobs[r].state \in Terminal =>
               jobs'[r].state \in {jobs[r].state, "deleted"}]_vars
  BY ClosedRow
<1> QED
  BY <1>1, WorkersUseStore, StoreTypeCorrect, ShapeAlways, PTL
  DEF Spec, ClosedStays

=============================================================================
