---------------------------- MODULE WorkerStore ----------------------------
(***************************************************************************)
(* The database-backed job table of internal/workerutil/dbworker/store:    *)
(* one operator per SQL statement the store issues, each an atomic step on *)
(* the rows it touches.                                                    *)
(*                                                                         *)
(* Timestamps are kept as ages.  heartbeat_age is now() - last_heartbeat_at*)
(* and finished_age is now() - finished_at, both saturating past the       *)
(* threshold they are compared with; process_in is process_after - now(),  *)
(* the smallest value once it has long passed (or is NULL).  Tick lets one *)
(* unit of time pass.  Dequeue, Heartbeat and ResetStalled read the clock  *)
(* of their own process before they send a statement: lag is the time from *)
(* there to the statement.  All other timestamps are clock_timestamp().    *)
(*                                                                         *)
(* failure_message, execution_logs, started_at and queued_at are written   *)
(* and never read by the store, and are left out.                          *)
(***************************************************************************)
EXTENDS Integers, FiniteSets

CONSTANTS Records,          \* primary keys of the job table
          Workers,          \* worker hostnames
          NoHost,           \* worker_hostname of a row never dequeued
          StalledMaxAge,    \* Options.StalledMaxAge, in ticks
          MaxNumResets,     \* Options.MaxNumResets
          RetryAfter,       \* Options.RetryAfter, in ticks; 0 disables retries
          MaxNumRetries,    \* Options.MaxNumRetries
          MaxCallTicks,     \* bound: ticks during one Dequeue or Heartbeat
          MaxPassTicks,     \* bound: ticks during one ResetStalled call
          MaxDelay,         \* longest delay a caller passes to Requeue (bound)
          EnforceHostname   \* whether callers set MarkFinalOptions.WorkerHostname

ASSUME StoreAssumption ==
    /\ NoHost \notin Workers
    /\ StalledMaxAge \in Nat
    /\ MaxNumResets \in Nat
    /\ RetryAfter \in Nat
    /\ MaxNumRetries \in Nat
    /\ MaxCallTicks \in Nat
    /\ MaxPassTicks \in Nat
    /\ MaxDelay \in Nat
    /\ EnforceHostname \in BOOLEAN

VARIABLE jobs

States == {"queued", "processing", "errored", "completed", "failed",
           "canceled", "deleted"}

(* States only Requeue leaves.                                             *)
Terminal == {"completed", "failed", "canceled"}

(* Heartbeat ages above this one are not told apart by ResetStalled.       *)
OldestHeartbeat == StalledMaxAge + 1 + MaxPassTicks

(* Likewise for Dequeue, which only retries if RetryAfter is positive.     *)
OldestFinish == IF RetryAfter = 0 THEN 0 ELSE RetryAfter + 1 + MaxCallTicks

(* process_after is NULL, or past for every Dequeue under way.             *)
LongDue == -MaxCallTicks

Job == [state           : States,
        num_resets      : Nat,
        num_failures    : Nat,
        cancel          : BOOLEAN,
        heartbeat_age   : 0 .. OldestHeartbeat,
        finished_age    : 0 .. OldestFinish,
        process_in      : LongDue .. MaxDelay,
        worker_hostname : Workers \cup {NoHost}]

(* A freshly inserted row: only the columns with defaults are set.         *)
NewJob == [state           |-> "queued",
           num_resets      |-> 0,
           num_failures    |-> 0,
           cancel          |-> FALSE,
           heartbeat_age   |-> 0,
           finished_age    |-> 0,
           process_in      |-> LongDue,
           worker_hostname |-> NoHost]

StoreInit == jobs = [r \in Records |-> NewJob]

-----------------------------------------------------------------------------
(* Dequeue, first half: the potential_candidates subquery reads a snapshot *)
(* of the table and compares it with the now of the call.                  *)
Candidate(job, lag) ==
    \/ /\ job.state = "queued"
       /\ job.process_in + lag <= 0
    \/ /\ RetryAfter > 0
       /\ job.state = "errored"
       /\ job.finished_age - lag > RetryAfter

PotentialCandidates(lag) == {r \in Records : Candidate(jobs[r], lag)}

(* Mutant of Recheck: the lock is taken without looking at the state again.*)
NoRecheck(job) == job.state # "deleted"

(* Dequeue, second half: the row lock rechecks the state, and only the     *)
(* state, of a potential candidate before the update claims it.            *)
Recheck(job) == job.state \in {"queued", "errored"}

(* The age of a last_heartbeat_at that was read from the clock lag ago.    *)
BeatAge(lag) == IF lag < OldestHeartbeat THEN lag ELSE OldestHeartbeat

Claimed(job, host, lag) == [job EXCEPT !.state = "processing",
                                       !.heartbeat_age = BeatAge(lag),
                                       !.worker_hostname = host]

DequeueClaim(r, host, lag) ==
    /\ Recheck(jobs[r])
    /\ jobs' = [jobs EXCEPT ![r] = Claimed(@, host, lag)]

-----------------------------------------------------------------------------
(* The condition MarkFinalOptions and HeartbeatOptions add to a statement. *)
HostnameMatches(job, host) == EnforceHostname => job.worker_hostname = host

(* Rows a heartbeat, or a call that finalizes a record, applies to.        *)
Held(job, host) == job.state = "processing" /\ HostnameMatches(job, host)

KnownIDs(ids, host) == {r \in ids : Held(jobs[r], host)}

CancelIDs(ids, host) == {r \in KnownIDs(ids, host) : jobs[r].cancel}

(* last_heartbeat_at may go back: to what the clock said before another    *)
(* call wrote it.                                                          *)
Heartbeat(ids, host, lag) ==
    jobs' = [r \in Records |->
               IF r \in KnownIDs(ids, host)
                 THEN [jobs[r] EXCEPT !.heartbeat_age = BeatAge(lag)]
                 ELSE jobs[r]]

Requeued(job, delay) == [job EXCEPT !.state = "queued",
                                    !.process_in = delay,
                                    !.cancel = FALSE]

(* Requeue has no condition on the state; a deleted row stays deleted.     *)
Requeue(r, delay) ==
    jobs' = IF jobs[r].state = "deleted"
              THEN jobs
              ELSE [jobs EXCEPT ![r] = Requeued(@, delay)]

CompletedJob(job) == [job EXCEPT !.state = "completed", !.finished_age = 0]

(* Mutant of ErroredJob: MaxNumRetries is compared with the old count.     *)
ErroredOnceTooOften(job) ==
    [job EXCEPT !.state = IF job.cancel THEN "canceled"
                          ELSE IF job.num_failures >= MaxNumRetries
                          THEN "failed" ELSE "errored",
                !.finished_age = 0,
                !.num_failures = IF job.cancel THEN @ ELSE @ + 1]

ErroredJob(job) ==
    [job EXCEPT !.state = IF job.cancel THEN "canceled"
                          ELSE IF job.num_failures + 1 >= MaxNumRetries
                          THEN "failed" ELSE "errored",
                !.finished_age = 0,
                !.num_failures = IF job.cancel THEN @ ELSE @ + 1]

FailedJob(job) ==
    [job EXCEPT !.state = IF job.cancel THEN "canceled" ELSE "failed",
                !.finished_age = 0,
                !.num_failures = IF job.cancel THEN @ ELSE @ + 1]

(* A statement of MarkComplete, MarkErrored or MarkFailed: no effect on a  *)
(* row that is not processing (or not this host's).                        *)
MarkFinal(r, host, final) ==
    jobs' = IF Held(jobs[r], host) THEN [jobs EXCEPT ![r] = final] ELSE jobs

MarkComplete(r, host) == MarkFinal(r, host, CompletedJob(jobs[r]))
MarkErrored(r, host) == MarkFinal(r, host, ErroredJob(jobs[r]))
MarkFailed(r, host) == MarkFinal(r, host, FailedJob(jobs[r]))

-----------------------------------------------------------------------------
(* Mutant of Stalled: an age of exactly StalledMaxAge is stalled.          *)
StalledEarly(job, lag) == /\ job.state = "processing"
                          /\ job.heartbeat_age - lag >= StalledMaxAge

(* ResetStalled issues two statements with the now it read before the      *)
(* first.                                                                  *)
Stalled(job, lag) == /\ job.state = "processing"
                     /\ job.heartbeat_age - lag > StalledMaxAge

ResettableIDs(lag) ==
    {r \in Records : Stalled(jobs[r], lag) /\ jobs[r].num_resets < MaxNumResets}

(* Mutant of UnresettableIDs: the second statement reads the clock again.  *)
UnresettableNow(lag) ==
    {r \in Records : Stalled(jobs[r], 0) /\ jobs[r].num_resets >= MaxNumResets}

UnresettableIDs(lag) ==
    {r \in Records : Stalled(jobs[r], lag) /\ jobs[r].num_resets >= MaxNumResets}

ResetJob(job) == [job EXCEPT !.state = "queued", !.num_resets = @ + 1]

ResetStalledQuery(lag) ==
    jobs' = [r \in Records |-> IF r \in ResettableIDs(lag)
                                 THEN ResetJob(jobs[r])
                                 ELSE jobs[r]]

AbandonedJob(job) == [job EXCEPT !.state = "failed", !.finished_age = 0]

(* Mutant of ResetStalledMaxResetsQuery: nothing gives up on a record.     *)
NeverAbandon(lag) == UNCHANGED jobs

ResetStalledMaxResetsQuery(lag) ==
    jobs' = [r \in Records |-> IF r \in UnresettableIDs(lag)
                                 THEN AbandonedJob(jobs[r])
                                 ELSE jobs[r]]

-----------------------------------------------------------------------------
(* Statements of the packages that own a job table, on the columns the     *)
(* store reads: a user cancels a job, or its row is removed.               *)

(* Mutant of CanceledJob: the state is moved and the flag is forgotten.    *)
CanceledWithoutFlag(job) ==
    [job EXCEPT !.state = IF @ = "processing" THEN @ ELSE "canceled"]

CanceledJob(job) ==
    [job EXCEPT !.cancel = TRUE,
                !.state = IF @ = "processing" THEN @ ELSE "canceled",
                !.finished_age = IF job.state = "processing" THEN @ ELSE 0]

CancelJob(r) == /\ jobs[r].state \in {"queued", "processing"}
                /\ ~jobs[r].cancel
                /\ jobs' = [jobs EXCEPT ![r] = CanceledJob(@)]

DeleteJob(r) == /\ jobs[r].state # "deleted"
                /\ jobs' = [jobs EXCEPT ![r].state = "deleted"]

(* One unit of time passes.                                                *)
Older(job) ==
    [job EXCEPT !.heartbeat_age = IF @ < OldestHeartbeat THEN @ + 1 ELSE @,
                !.finished_age = IF @ < OldestFinish THEN @ + 1 ELSE @,
                !.process_in = IF @ > LongDue THEN @ - 1 ELSE @]

Tick == jobs' = [r \in Records |-> Older(jobs[r])]

-----------------------------------------------------------------------------
(* The store under any client: statements in any order, with any claim of  *)
(* a stale snapshot.                                                       *)
Statement ==
    \/ \E r \in Records, h \in Workers :
         \/ \E lag \in 0 .. MaxCallTicks : DequeueClaim(r, h, lag)
         \/ MarkComplete(r, h)
         \/ MarkErrored(r, h)
         \/ MarkFailed(r, h)
    \/ \E ids \in SUBSET Records, h \in Workers, lag \in 0 .. MaxCallTicks :
         Heartbeat(ids, h, lag)
    \/ \E r \in Records, d \in 0 .. MaxDelay : Requeue(r, d)
    \/ \E r \in Records : CancelJob(r) \/ DeleteJob(r)
    \/ \E lag \in 0 .. MaxPassTicks :
         ResetStalledQuery(lag) \/ ResetStalledMaxResetsQuery(lag)

StoreNext == Statement \/ Tick

StoreSpec == StoreInit /\ [][StoreNext]_jobs

StoreTypeOK == jobs \in [Records -> Job]

-----------------------------------------------------------------------------
(* Refinement mapping to JobLifecycle: the attempts a record has left are  *)
(* the resets and the retries its counters still allow, and the one it is  *)
(* waiting for.                                                            *)
StatusOf(job) ==
    CASE job.state \in {"queued", "errored"} -> "waiting"
      [] job.state = "processing"            -> "running"
      [] job.state = "deleted"               -> "gone"
      [] OTHER                               -> job.state

RetriesLeft(failures) ==
    IF failures + 1 < MaxNumRetries THEN MaxNumRetries - 1 - failures ELSE 0

BudgetOf(job) ==
    (IF job.state \in {"queued", "errored"} THEN 1 ELSE 0)
      + (MaxNumResets - job.num_resets) + RetriesLeft(job.num_failures)

Lifecycle == INSTANCE JobLifecycle
    WITH InitialBudget <- 1 + MaxNumResets + RetriesLeft(0),
         status        <- [r \in Records |-> StatusOf(jobs[r])],
         budget        <- [r \in Records |-> BudgetOf(jobs[r])]

(* Every statement of the store, under any client, is a step the lifecycle *)
(* allows: a record is never attempted more often than its resets, retries *)
(* and requeues permit, and only Requeue reopens a closed one.             *)
LifecycleSpec == Lifecycle!Spec

-----------------------------------------------------------------------------
(* A record waits for a retry only while it has failures left, and never   *)
(* after a user canceled it.  (MarkErrored decides this when the failure   *)
(* is recorded; Dequeue does not look at num_failures or cancel again.)    *)
RetriesAllowed ==
    \A r \in Records : jobs[r].state = "errored" =>
        jobs[r].num_failures < MaxNumRetries /\ ~jobs[r].cancel

(* A record is in state canceled only if somebody asked for it: Requeue    *)
(* and the verdicts keep state and cancel in step.                         *)
CanceledOnRequest ==
    \A r \in Records : jobs[r].state = "canceled" => jobs[r].cancel

=============================================================================
