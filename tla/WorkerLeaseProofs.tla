------------------------- MODULE WorkerLeaseProofs -------------------------
(***************************************************************************)
(* A record belongs to one goroutine as long as heartbeats are on time     *)
(* (Prompt) and no handler has given its record back (Requeue): for any    *)
(* number of workers, records and goroutines, and any StalledMaxAge,       *)
(* RetryAfter and hostname checks, with crashes, failing statements, lost  *)
(* answers, cancellations and deletions.                                   *)
(***************************************************************************)
EXTENDS WorkerProofs

(* Nothing but the passing of time lets a Dequeue take this row, or the    *)
(* resetter reset it.                                                      *)
Settled(job) ==
    /\ job.state # "queued"
    /\ job.state = "errored" => job.finished_age = 0
    /\ job.state = "processing" => job.heartbeat_age <= StalledMaxAge

(* The row is w's, with a heartbeat the resetter accepts, unless a user    *)
(* deleted it.                                                             *)
Leased(w, job) ==
    \/ job.state = "deleted"
    \/ /\ job.state = "processing"
       /\ job.worker_hostname = w
       /\ job.heartbeat_age <= StalledMaxAge

(* Goroutine s of w works on r (Owns, told to stop or not), or still has   *)
(* to leave runningIDSet.                                                  *)
Works(w, s, r) == slot[w][s].pc \in {"handling", "finalizing"} /\ slot[w][s].rec = r
Lives(w, s, r) == slot[w][s].pc # "free" /\ slot[w][s].rec = r

(* The dequeue loop of w has claimed r, or may still claim it from the     *)
(* snapshot it read.                                                       *)
Claims(w, r) == loop[w].pc = "register" /\ loop[w].rec = r
Takes(w, r) == Claims(w, r) \/ (loop[w].pc = "claim" /\ r \in loop[w].cands)

(* A heartbeat of w about r is under way or its answer is being applied.   *)
Beats(w, r) == r \in beat[w].ids \cup beat[w].unknown \cup beat[w].cancel

(* The row of whoever works on a record, or has just claimed it, is leased.*)
RowsLeased ==
    \A w \in Workers, r \in Records :
        /\ Claims(w, r) => Leased(w, jobs[r])
        /\ \A s \in Slots : Works(w, s, r) => Leased(w, jobs[r])

(* Heartbeats cover a goroutine until it has finalized its record, even    *)
(* when its context is canceled.                                           *)
WorkCovered ==
    \A w \in Workers, s \in Slots, r \in Records : Works(w, s, r) =>
        jobs[r].state = "deleted" \/ running[w][r] = s

(* One goroutine, or one dequeue loop, at a time.                          *)
WorkAlone ==
    \A w, v \in Workers, r \in Records :
        /\ Claims(w, r) /\ Claims(v, r) => w = v
        /\ \A s \in Slots : Works(w, s, r) => ~Claims(v, r)
        /\ \A s, t \in Slots : Works(w, s, r) /\ Works(v, t, r) => w = v /\ s = t

(* What a goroutine or a heartbeat still refers to has not come back.      *)
ReferredSettled ==
    \A w \in Workers, r \in Records :
        /\ Beats(w, r) => Settled(jobs[r])
        /\ \A s \in Slots : Lives(w, s, r) => Settled(jobs[r])

(* So a worker never meets a record it still refers to: it has one         *)
(* goroutine for a record, and none for one it is about to dequeue.        *)
MetOnce ==
    \A w \in Workers, r \in Records :
        /\ \A s, t \in Slots : Lives(w, s, r) /\ Lives(w, t, r) => s = t
        /\ Takes(w, r) => ~Beats(w, r) /\ \A s \in Slots : ~Lives(w, s, r)

(* A heartbeat only drops a working goroutine whose row was deleted.       *)
UnknownDeleted ==
    \A w \in Workers, s \in Slots, r \in Records :
        Works(w, s, r) /\ r \in beat[w].unknown => jobs[r].state = "deleted"

BeatsAtRest ==
    \A w \in Workers, r \in Records :
        beat[w].pc \in {"idle", "done"} => ~Beats(w, r)

(* Calls read the clock in the tick in which their statement takes effect. *)
CallsFresh == \A w \in Workers : loop[w].lag = 0 /\ beat[w].lag = 0

Lease == /\ RowsLeased /\ WorkCovered /\ WorkAlone /\ ReferredSettled
         /\ MetOnce /\ UnknownDeleted /\ BeatsAtRest

(* The inductive invariant.                                                *)
LeaseInv == requeues = 0 => Lease

-----------------------------------------------------------------------------
LEMMA FreshBeatAge == BeatAge(0) = 0
  BY StoreAssumption DEF BeatAge, OldestHeartbeat

(* Rows.  A statement other than Requeue and Mark takes no row away.       *)
Quiet(old, new) ==
    /\ Settled(old) => Settled(new)
    /\ \A w \in Workers : Leased(w, old) => Leased(w, new)
    /\ old.state = "deleted" => new.state = "deleted"

LEMMA QuietRow ==
    ASSUME NEW old \in Job, NEW new,
           \/ new = old
           \/ Recheck(old) /\ \E h \in Workers : new = Claimed(old, h, 0)
           \/ new = [old EXCEPT !.heartbeat_age = 0]
           \/ old.state \in {"queued", "processing"} /\ new = CanceledJob(old)
           \/ new = [old EXCEPT !.state = "deleted"]
    PROVE  Quiet(old, new)
<1> USE StoreAssumption DEF Quiet, Settled, Leased, Job
<1>1. CASE new = old
  BY <1>1
<1>2. ASSUME NEW h \in Workers, Recheck(old), new = Claimed(old, h, 0)
      PROVE  Quiet(old, new)
  <2>1. /\ old.state \in {"queued", "errored"}
        /\ new.state = "processing" /\ new.heartbeat_age = 0
    BY <1>2, FreshBeatAge DEF Recheck, Claimed
  <2> QED
    BY <2>1
<1>3. CASE new = [old EXCEPT !.heartbeat_age = 0]
  BY <1>3
<1>4. CASE old.state = "queued" /\ new = CanceledJob(old)
  BY <1>4 DEF CanceledJob
<1>5. CASE old.state = "processing" /\ new = CanceledJob(old)
  <2>1. /\ new.state = "processing"
        /\ new.heartbeat_age = old.heartbeat_age
        /\ new.worker_hostname = old.worker_hostname
    BY <1>5 DEF CanceledJob
  <2> QED
    BY <1>5, <2>1
<1>6. CASE new = [old EXCEPT !.state = "deleted"]
  BY <1>6
<1> QED
  BY <1>1, <1>2, <1>3, <1>4, <1>5, <1>6

QuietTable == \A r \in Records : Quiet(jobs[r], jobs'[r])

LEMMA QuietStatements ==
    ASSUME StoreTypeOK
    PROVE  /\ UNCHANGED jobs => QuietTable
           /\ \A r \in Records, h \in Workers : DequeueClaim(r, h, 0) => QuietTable
           /\ \A ids \in SUBSET Records, h \in Workers :
                 Heartbeat(ids, h, 0) => QuietTable
           /\ \A r \in Records : CancelJob(r) => QuietTable
           /\ \A r \in Records : DeleteJob(r) => QuietTable
           /\ \A lag \in Nat : ResetStalledQuery(lag) => QuietTable
           /\ \A lag \in Nat : ResetStalledMaxResetsQuery(lag) => QuietTable
<1>1. \A r \in Records : jobs[r] \in Job
  BY DEF StoreTypeOK
<1>2. ASSUME UNCHANGED jobs PROVE QuietTable
  BY <1>1, <1>2, QuietRow DEF QuietTable
<1>3. ASSUME NEW q \in Records, NEW h \in Workers, DequeueClaim(q, h, 0)
      PROVE  QuietTable
  <2>1. ASSUME NEW r \in Records PROVE Quiet(jobs[r], jobs'[r])
    <3>1. \/ jobs'[r] = jobs[r]
          \/ Recheck(jobs[r]) /\ jobs'[r] = Claimed(jobs[r], h, 0)
      BY <1>3 DEF DequeueClaim, StoreTypeOK
    <3> QED
      BY <1>1, <3>1, QuietRow
  <2> QED
    BY <2>1 DEF QuietTable
<1>4. ASSUME NEW ids \in SUBSET Records, NEW h \in Workers, Heartbeat(ids, h, 0)
      PROVE  QuietTable
  <2>1. ASSUME NEW r \in Records PROVE Quiet(jobs[r], jobs'[r])
    <3>1. jobs'[r] \in {jobs[r], [jobs[r] EXCEPT !.heartbeat_age = 0]}
      BY <1>4, FreshBeatAge DEF Heartbeat
    <3> QED
      BY <1>1, <3>1, QuietRow
  <2> QED
    BY <2>1 DEF QuietTable
<1>5. ASSUME NEW q \in Records, CancelJob(q) PROVE QuietTable
  <2>1. ASSUME NEW r \in Records PROVE Quiet(jobs[r], jobs'[r])
    <3>1. \/ jobs'[r] = jobs[r]
          \/ /\ jobs[r].state \in {"queued", "processing"}
             /\ jobs'[r] = CanceledJob(jobs[r])
      BY <1>5 DEF CancelJob, StoreTypeOK
    <3> QED
      BY <1>1, <3>1, QuietRow
  <2> QED
    BY <2>1 DEF QuietTable
<1>6. ASSUME NEW q \in Records, DeleteJob(q) PROVE QuietTable
  <2>1. ASSUME NEW r \in Records PROVE Quiet(jobs[r], jobs'[r])
    <3>1. jobs'[r] \in {jobs[r], [jobs[r] EXCEPT !.state = "deleted"]}
      BY <1>6 DEF DeleteJob, StoreTypeOK
    <3> QED
      BY <1>1, <3>1, QuietRow
  <2> QED
    BY <2>1 DEF QuietTable
<1>7. ASSUME NEW lag \in Nat, NEW r \in Records, Stalled(jobs[r], lag)
      PROVE  ~Settled(jobs[r]) /\ \A w \in Workers : ~Leased(w, jobs[r])
  <2>1. jobs[r].heartbeat_age \in Nat
    BY <1>1 DEF Job
  <2> QED
    BY <1>7, <2>1, StoreAssumption DEF Stalled, Settled, Leased
<1>8. ASSUME NEW lag \in Nat,
             \A r \in Records : jobs'[r] = jobs[r] \/ Stalled(jobs[r], lag)
      PROVE  QuietTable
  <2>1. ASSUME NEW r \in Records PROVE Quiet(jobs[r], jobs'[r])
    <3>1. CASE jobs'[r] = jobs[r]
      BY <1>1, <3>1, QuietRow
    <3>2. CASE Stalled(jobs[r], lag)
      BY <1>7, <3>2 DEF Quiet, Stalled
    <3> QED
      BY <1>8, <3>1, <3>2
  <2> QED
    BY <2>1 DEF QuietTable
<1>9. ASSUME NEW lag \in Nat, ResetStalledQuery(lag) PROVE QuietTable
  BY <1>8, <1>9 DEF ResetStalledQuery, ResettableIDs
<1>10. ASSUME NEW lag \in Nat, ResetStalledMaxResetsQuery(lag) PROVE QuietTable
  BY <1>8, <1>10 DEF ResetStalledMaxResetsQuery, UnresettableIDs
<1> QED
  BY <1>2, <1>3, <1>4, <1>5, <1>6, <1>9, <1>10

-----------------------------------------------------------------------------
(* Steps after which there is less to keep track of.                       *)
WorkShrinks ==
    \A w \in Workers, r \in Records :
        /\ Claims(w, r)' => Claims(w, r)
        /\ \A s \in Slots : Works(w, s, r)' => Works(w, s, r)

ReferShrinks ==
    \A w \in Workers, r \in Records :
        /\ Beats(w, r)' => Beats(w, r)
        /\ \A s \in Slots : Lives(w, s, r)' => Lives(w, s, r)

TakesShrink == \A w \in Workers, r \in Records : Takes(w, r)' => Takes(w, r)

LEMMA RowsLeasedKept ==
    ASSUME Lease, QuietTable, WorkShrinks
    PROVE  RowsLeased' /\ WorkAlone'
<1>1. RowsLeased'
  <2> SUFFICES ASSUME NEW w \in Workers, NEW r \in Records
               PROVE  /\ Claims(w, r)' => Leased(w, jobs'[r])
                      /\ \A s \in Slots : Works(w, s, r)' => Leased(w, jobs'[r])
    BY DEF RowsLeased, Leased
  <2> QED
    BY DEF Lease, RowsLeased, QuietTable, Quiet, WorkShrinks
<1>2. WorkAlone'
  <2> SUFFICES ASSUME NEW w \in Workers, NEW v \in Workers, NEW r \in Records
      PROVE  /\ Claims(w, r)' /\ Claims(v, r)' => w = v
             /\ \A s \in Slots : Works(w, s, r)' => ~Claims(v, r)'
             /\ \A s, t \in Slots :
                   Works(w, s, r)' /\ Works(v, t, r)' => w = v /\ s = t
    BY DEF WorkAlone
  <2> QED
    BY DEF Lease, WorkAlone, WorkShrinks
<1> QED
  BY <1>1, <1>2

LEMMA ReferredSettledKept ==
    ASSUME Lease, QuietTable, ReferShrinks
    PROVE  ReferredSettled'
<1> SUFFICES ASSUME NEW w \in Workers, NEW r \in Records
    PROVE  /\ Beats(w, r)' => Settled(jobs'[r])
           /\ \A s \in Slots : Lives(w, s, r)' => Settled(jobs'[r])
  BY DEF ReferredSettled, Settled
<1> QED
  BY DEF Lease, ReferredSettled, QuietTable, Quiet, ReferShrinks

LEMMA MetOnceKept ==
    ASSUME Lease, ReferShrinks, TakesShrink
    PROVE  MetOnce'
<1> SUFFICES ASSUME NEW w \in Workers, NEW r \in Records
    PROVE  /\ \A s, t \in Slots : Lives(w, s, r)' /\ Lives(w, t, r)' => s = t
           /\ Takes(w, r)' => ~Beats(w, r)' /\ \A s \in Slots : ~Lives(w, s, r)'
  BY DEF MetOnce
<1> QED
  BY DEF Lease, MetOnce, ReferShrinks, TakesShrink

(* Steps that leave goroutines, entries and heartbeats alone.              *)
LEMMA SameGoroutines ==
    ASSUME UNCHANGED <<running, slot, beat>>
    PROVE  /\ \A w \in Workers, s \in Slots, r \in Records :
                 /\ Works(w, s, r)' <=> Works(w, s, r)
                 /\ Lives(w, s, r)' <=> Lives(w, s, r)
           /\ \A w \in Workers, r \in Records : Beats(w, r)' <=> Beats(w, r)
           /\ ReferShrinks
<1>1. \A w \in Workers, s \in Slots, r \in Records :
        /\ Works(w, s, r)' <=> Works(w, s, r)
        /\ Lives(w, s, r)' <=> Lives(w, s, r)
  BY DEF Works, Lives
<1>2. \A w \in Workers, r \in Records : Beats(w, r)' <=> Beats(w, r)
  BY DEF Beats
<1> QED
  BY <1>1, <1>2 DEF ReferShrinks

LEMMA SameEntries ==
    ASSUME Lease, QuietTable, UNCHANGED <<running, slot, beat>>
    PROVE  WorkCovered' /\ UnknownDeleted' /\ BeatsAtRest' /\ ReferredSettled'
<1>1. \A r \in Records : jobs[r].state = "deleted" => jobs'[r].state = "deleted"
  BY DEF QuietTable, Quiet
<1>2. WorkCovered'
  BY <1>1, SameGoroutines DEF Lease, WorkCovered
<1>3. UnknownDeleted'
  BY <1>1, SameGoroutines DEF Lease, UnknownDeleted
<1>4. BeatsAtRest'
  BY SameGoroutines DEF Lease, BeatsAtRest
<1>5. ReferredSettled'
  BY SameGoroutines, ReferredSettledKept
<1> QED
  BY <1>2, <1>3, <1>4, <1>5

LEMMA IdleKeepsLease ==
    ASSUME Lease, QuietTable, UNCHANGED <<running, slot, beat>>,
           \A w \in Workers, r \in Records :
               /\ Claims(w, r)' => Claims(w, r)
               /\ Takes(w, r)' => Takes(w, r)
    PROVE  Lease'
<1>1. WorkShrinks /\ TakesShrink
  BY SameGoroutines DEF WorkShrinks, TakesShrink
<1> QED
  BY <1>1, SameGoroutines, SameEntries, RowsLeasedKept, MetOnceKept DEF Lease

-----------------------------------------------------------------------------
(* The dequeue loop.                                                       *)

(* A snapshot holds nothing that is referred to: what it may take has been *)
(* put back, and that takes time.                                          *)
LEMMA SnapshotLease ==
    ASSUME StoreTypeOK, Shape, CallsFresh, Lease, NEW w \in Workers,
           DequeueSnapshot(w)
    PROVE  Lease'
<1>1. /\ loop[w] \in Loop
      /\ loop'[w].pc = "claim" /\ loop'[w].cands = PotentialCandidates(0)
      /\ \A v \in Workers \ {w} : loop'[v] = loop[v]
      /\ UNCHANGED <<jobs, running, slot, beat>>
  BY DEF DequeueSnapshot, Shape, Loop, CallsFresh
<1>2. \A v \in Workers, r \in Records :
        /\ Claims(v, r)' => Claims(v, r)
        /\ Takes(v, r)' => Takes(v, r) \/ (v = w /\ r \in PotentialCandidates(0))
  BY <1>1 DEF Claims, Takes
<1>3. ASSUME NEW r \in PotentialCandidates(0) PROVE ~Settled(jobs[r])
  <2>1. Candidate(jobs[r], 0) /\ jobs[r] \in Job
    BY DEF PotentialCandidates, StoreTypeOK
  <2> QED
    BY <2>1, StoreAssumption DEF Candidate, Settled, Job
<1>4. QuietTable
  BY <1>1, QuietStatements
<1>5. MetOnce'
  <2> SUFFICES ASSUME NEW v \in Workers, NEW r \in Records
      PROVE  /\ \A s, t \in Slots : Lives(v, s, r)' /\ Lives(v, t, r)' => s = t
             /\ Takes(v, r)' => ~Beats(v, r)' /\ \A s \in Slots : ~Lives(v, s, r)'
    BY DEF MetOnce
  <2>1. CASE Takes(v, r)' => Takes(v, r)
    BY <1>1, <2>1, SameGoroutines DEF Lease, MetOnce
  <2>2. CASE r \in PotentialCandidates(0)
    BY <1>1, <1>3, <2>2, SameGoroutines DEF Lease, MetOnce, ReferredSettled
  <2> QED
    BY <1>2, <2>1, <2>2
<1>6. WorkShrinks
  BY <1>1, <1>2, SameGoroutines DEF WorkShrinks
<1> QED
  BY <1>1, <1>4, <1>5, <1>6, SameEntries, RowsLeasedKept DEF Lease

(* Claiming a row: nobody works on it, or its state would not be queued or *)
(* errored.                                                                *)
LEMMA ClaimLease ==
    ASSUME StoreTypeOK, Shape, CallsFresh, Lease, NEW w \in Workers,
           DequeueRecord(w)
    PROVE  Lease'
<1>1. PICK q \in loop[w].cands :
        /\ DequeueClaim(q, w, 0)
        /\ loop' = [loop EXCEPT ![w] = [@ EXCEPT !.pc = "register", !.lag = 0,
                                                 !.cands = {}, !.rec = q]]
  BY DEF DequeueRecord, CallsFresh
<1>2. /\ loop[w] \in Loop /\ q \in Records
      /\ loop[w].pc = "claim"
      /\ loop'[w].pc = "register" /\ loop'[w].rec = q
      /\ \A v \in Workers \ {w} : loop'[v] = loop[v]
      /\ UNCHANGED <<running, slot, beat>>
  BY <1>1 DEF DequeueRecord, Shape, Loop
<1>3. \A v \in Workers, r \in Records :
        /\ Claims(v, r)' => Claims(v, r) \/ (v = w /\ r = q)
        /\ Takes(v, r)' => Takes(v, r)
  BY <1>2 DEF Claims, Takes
<1>4. /\ \A v \in Workers : ~Leased(v, jobs[q])
      /\ Leased(w, jobs'[q])
  <2>1. jobs[q] \in Job /\ jobs'[q] = Claimed(jobs[q], w, 0)
    BY <1>1, <1>2 DEF DequeueClaim, StoreTypeOK
  <2>2. jobs[q].state \in {"queued", "errored"}
    BY <1>1 DEF DequeueClaim, Recheck
  <2> QED
    BY <2>1, <2>2, FreshBeatAge, StoreAssumption DEF Leased, Claimed, Job
<1>5. QuietTable
  BY <1>1, <1>2, QuietStatements
<1>6. \A v \in Workers : ~Claims(v, q) /\ \A s \in Slots : ~Works(v, s, q)
  BY <1>2, <1>4 DEF Lease, RowsLeased
<1>7. RowsLeased'
  <2> SUFFICES ASSUME NEW v \in Workers, NEW r \in Records
               PROVE  /\ Claims(v, r)' => Leased(v, jobs'[r])
                      /\ \A s \in Slots : Works(v, s, r)' => Leased(v, jobs'[r])
    BY DEF RowsLeased, Leased
  <2> QED
    BY <1>2, <1>3, <1>4, <1>5, SameGoroutines
    DEF Lease, RowsLeased, QuietTable, Quiet
<1>8. WorkAlone'
  <2> SUFFICES ASSUME NEW u \in Workers, NEW v \in Workers, NEW r \in Records
      PROVE  /\ Claims(u, r)' /\ Claims(v, r)' => u = v
             /\ \A s \in Slots : Works(u, s, r)' => ~Claims(v, r)'
             /\ \A s, t \in Slots :
                   Works(u, s, r)' /\ Works(v, t, r)' => u = v /\ s = t
    BY DEF WorkAlone
  <2> QED
    BY <1>2, <1>3, <1>6, SameGoroutines DEF Lease, WorkAlone
<1>9. MetOnce'
  BY <1>2, <1>3, SameGoroutines, MetOnceKept DEF TakesShrink
<1> QED
  BY <1>2, <1>5, <1>7, <1>8, <1>9, SameEntries DEF Lease

(* The claimed record gets its goroutine: the only one of this worker, and *)
(* the only one that works on the record.                                  *)
LEMMA RegisterLease ==
    ASSUME StoreTypeOK, Shape, RowsNamed, Lease, NEW w \in Workers, Register(w)
    PROVE  Lease'
<1> DEFINE q == loop[w].rec
           row == [FreeSlot EXCEPT !.pc = "handling", !.rec = q]
<1>1. PICK z \in Slots :
        /\ slot[w][z].pc = "free"
        /\ running' = [running EXCEPT ![w] = [running[w] EXCEPT ![q] = z]]
        /\ slot' = [slot EXCEPT ![w] = [slot[w] EXCEPT ![z] = row]]
  BY DEF Register
<1>2. row.pc = "handling" /\ row.rec = q
  BY DEF FreeSlot
<1>3. q \in Records /\ Claims(w, q) /\ Takes(w, q)
  BY DEF Register, RowsNamed, Claims, Takes
<1> HIDE DEF row
<1>4. /\ UNCHANGED <<jobs, beat>>
      /\ loop'[w].pc = "again"
      /\ \A v \in Workers \ {w} : loop'[v] = loop[v]
  BY DEF Register, Shape, Loop
<1>5. \A v \in Workers, r \in Records :
        /\ Claims(v, r)' => Claims(v, r) /\ v # w
        /\ Takes(v, r)' => Takes(v, r) /\ v # w
        /\ Beats(v, r)' <=> Beats(v, r)
  BY <1>4 DEF Claims, Takes, Beats
<1>6. ASSUME NEW v \in Workers, NEW s \in Slots, NEW r \in Records
      PROVE  /\ Works(v, s, r)' => Works(v, s, r) \/ (v = w /\ s = z /\ r = q)
             /\ Lives(v, s, r)' => Lives(v, s, r) \/ (v = w /\ s = z /\ r = q)
             /\ Works(v, s, r) => Lives(v, s, r)
             /\ running'[v][r] = running[v][r] \/ (v = w /\ r = q)
  BY <1>1, <1>2 DEF Shape, Works, Lives
<1>7. running'[w][q] = z
  BY <1>1, <1>3 DEF Shape
<1>8. Leased(w, jobs[q]) /\ Settled(jobs[q])
  BY <1>3 DEF Lease, RowsLeased, Leased, Settled
<1>9. ~Beats(w, q) /\ \A s \in Slots : ~Lives(w, s, q)
  BY <1>3 DEF Lease, MetOnce
<1> HIDE DEF q
<1>10. RowsLeased'
  <2> SUFFICES ASSUME NEW v \in Workers, NEW r \in Records
               PROVE  /\ Claims(v, r)' => Leased(v, jobs'[r])
                      /\ \A s \in Slots : Works(v, s, r)' => Leased(v, jobs'[r])
    BY DEF RowsLeased, Leased
  <2> QED
    BY <1>4, <1>5, <1>6, <1>8 DEF Lease, RowsLeased
<1>11. WorkCovered'
  <2> SUFFICES ASSUME NEW v \in Workers, NEW s \in Slots, NEW r \in Records,
                      Works(v, s, r)'
               PROVE  jobs[r].state = "deleted" \/ running'[v][r] = s
    BY <1>4 DEF WorkCovered
  <2> QED
    BY <1>6, <1>7, <1>9 DEF Lease, WorkCovered
<1>12. WorkAlone'
  <2> SUFFICES ASSUME NEW u \in Workers, NEW v \in Workers, NEW r \in Records
      PROVE  /\ Claims(u, r)' /\ Claims(v, r)' => u = v
             /\ \A s \in Slots : Works(u, s, r)' => ~Claims(v, r)'
             /\ \A s, t \in Slots :
                   Works(u, s, r)' /\ Works(v, t, r)' => u = v /\ s = t
    BY DEF WorkAlone
  <2> QED
    BY <1>3, <1>5, <1>6 DEF Lease, WorkAlone
<1>13. ReferredSettled'
  <2> SUFFICES ASSUME NEW v \in Workers, NEW r \in Records
      PROVE  /\ Beats(v, r)' => Settled(jobs[r])
             /\ \A s \in Slots : Lives(v, s, r)' => Settled(jobs[r])
    BY <1>4 DEF ReferredSettled, Settled
  <2> QED
    BY <1>5, <1>6, <1>8 DEF Lease, ReferredSettled
<1>14. MetOnce'
  <2> SUFFICES ASSUME NEW v \in Workers, NEW r \in Records
      PROVE  /\ \A s, t \in Slots : Lives(v, s, r)' /\ Lives(v, t, r)' => s = t
             /\ Takes(v, r)' => ~Beats(v, r)' /\ \A s \in Slots : ~Lives(v, s, r)'
    BY DEF MetOnce
  <2> QED
    BY <1>5, <1>6, <1>9 DEF Lease, MetOnce
<1>15. UnknownDeleted'
  <2> SUFFICES ASSUME NEW v \in Workers, NEW s \in Slots, NEW r \in Records,
                      Works(v, s, r)', r \in beat[v].unknown
               PROVE  jobs[r].state = "deleted"
    BY <1>4 DEF UnknownDeleted
  <2>1. Beats(v, r)
    BY DEF Beats
  <2> QED
    BY <1>6, <1>9, <2>1 DEF Lease, UnknownDeleted
<1>16. BeatsAtRest'
  BY <1>4, <1>5 DEF Lease, BeatsAtRest
<1> QED
  BY <1>10, <1>11, <1>12, <1>13, <1>14, <1>15, <1>16 DEF Lease

LEMMA LoopLease ==
    ASSUME StoreTypeOK, Shape, RowsNamed, CallsFresh, Lease, NEW w \in Workers,
           LoopStep(w)
    PROVE  Lease'
<1>l. loop[w] \in Loop /\ loop[w].cands \subseteq Records /\ loop[w].lag = 0
  BY DEF Shape, Loop, CallsFresh
<1>1. ASSUME NEW pc \in LoopPC \ {"claim", "register"}, loop'[w].pc = pc,
             \A v \in Workers \ {w} : loop'[v] = loop[v],
             UNCHANGED <<running, slot, beat>>, QuietTable
      PROVE  Lease'
  <2>1. \A v \in Workers, r \in Records :
          /\ Claims(v, r)' => Claims(v, r)
          /\ Takes(v, r)' => Takes(v, r)
    BY <1>1 DEF Claims, Takes
  <2> QED
    BY <1>1, <2>1, IdleKeepsLease
<1>2. CASE Acquire(w) \/ LoopEnds(w) \/ PreDequeue(w) \/ Wait(w) \/ WaitEnds(w)
             \/ Drained(w)
  <2>1. PICK pc \in LoopPC \ {"claim", "register"} :
          loop' = [loop EXCEPT ![w].pc = pc]
    BY <1>2 DEF Acquire, LoopEnds, EnterDrain, PreDequeue, Wait, WaitEnds, Drained,
                LoopPC
  <2>2. loop'[w].pc = pc /\ \A v \in Workers \ {w} : loop'[v] = loop[v]
    BY <1>l, <2>1 DEF Shape, Loop
  <2>3. UNCHANGED <<jobs, running, slot, beat>>
    BY <1>2 DEF Acquire, LoopEnds, PreDequeue, Wait, WaitEnds, Drained
  <2> QED
    BY <1>1, <2>2, <2>3, QuietStatements
<1>3. CASE PreDequeueDeclines(w) \/ DequeueRefused(w) \/ DequeueNothing(w)
             \/ DequeueFails(w) \/ AlreadyExists(w)
  <2>1. PICK pc \in LoopPC \ {"claim", "register"} : NotDequeued(w, pc)
    BY <1>3 DEF PreDequeueDeclines, DequeueRefused, DequeueNothing, DequeueFails,
                AlreadyExists, AfterError, LoopPC
  <2>2. loop'[w].pc = pc /\ \A v \in Workers \ {w} : loop'[v] = loop[v]
    BY <1>l, <2>1 DEF NotDequeued, Shape, Loop
  <2>3. UNCHANGED <<running, slot, beat>>
    BY <2>1 DEF NotDequeued
  <2>4. QuietTable
    BY <1>3, <1>l, QuietStatements
    DEF PreDequeueDeclines, DequeueRefused, DequeueNothing, DequeueFails,
        AlreadyExists
  <2> QED
    BY <1>1, <2>2, <2>3, <2>4
<1> QED
  BY <1>2, <1>3, SnapshotLease, ClaimLease, RegisterLease DEF LoopStep

-----------------------------------------------------------------------------
(* Handler goroutines.                                                     *)

(* A goroutine that moves on: the dequeue loops and the heartbeats are not *)
(* affected, and neither are the other goroutines.                         *)
LEMMA MoveFacts ==
    ASSUME Shape, NEW w \in Workers, NEW z \in Slots, NEW row,
           slot' = [slot EXCEPT ![w] = [slot[w] EXCEPT ![z] = row]],
           slot[w][z].pc # "free",
           row.rec = slot[w][z].rec,
           row.pc \in {"handling", "finalizing"} =>
               slot[w][z].pc \in {"handling", "finalizing"},
           UNCHANGED <<loop, beat>>
    PROVE  WorkShrinks /\ ReferShrinks /\ TakesShrink
<1>1. \A v \in Workers, r \in Records :
        /\ Claims(v, r)' <=> Claims(v, r)
        /\ Takes(v, r)' <=> Takes(v, r)
        /\ Beats(v, r)' <=> Beats(v, r)
  BY DEF Claims, Takes, Beats
<1>2. ASSUME NEW v \in Workers, NEW s \in Slots, NEW r \in Records
      PROVE  /\ Works(v, s, r)' => Works(v, s, r)
             /\ Lives(v, s, r)' => Lives(v, s, r)
  BY DEF Shape, Works, Lives
<1> QED
  BY <1>1, <1>2 DEF WorkShrinks, ReferShrinks, TakesShrink

(* What follows when runningIDSet and the heartbeats stay as they are.     *)
LEMMA ShrunkWork ==
    ASSUME Lease, WorkShrinks, UNCHANGED <<running, beat>>,
           \A r \in Records : jobs[r].state = "deleted" => jobs'[r].state = "deleted"
    PROVE  WorkCovered' /\ UnknownDeleted' /\ BeatsAtRest'
<1>1. WorkCovered'
  <2> SUFFICES ASSUME NEW v \in Workers, NEW s \in Slots, NEW r \in Records,
                      Works(v, s, r)'
               PROVE  jobs'[r].state = "deleted" \/ running'[v][r] = s
    BY DEF WorkCovered
  <2> QED
    BY DEF Lease, WorkShrinks, WorkCovered
<1>2. UnknownDeleted'
  <2> SUFFICES ASSUME NEW v \in Workers, NEW s \in Slots, NEW r \in Records,
                      Works(v, s, r)', r \in beat[v].unknown
               PROVE  jobs'[r].state = "deleted"
    BY DEF UnknownDeleted
  <2> QED
    BY DEF Lease, WorkShrinks, UnknownDeleted
<1>3. BeatsAtRest'
  BY DEF Lease, BeatsAtRest, Beats
<1> QED
  BY <1>1, <1>2, <1>3

(* The Mark call of a goroutine closes its row or leaves it for a retry;   *)
(* nobody else works on it.                                                *)
LEMMA MarkedRow ==
    ASSUME StoreTypeOK, NEW w \in Workers, NEW z \in Slots,
           slot[w][z].rec \in Records, Settled(jobs[slot[w][z].rec]),
           MarkStatement(w, z)
    PROVE  /\ Settled(jobs'[slot[w][z].rec])
           /\ \A r \in Records :
                /\ r # slot[w][z].rec => jobs'[r] = jobs[r]
                /\ jobs[r].state = "deleted" => jobs'[r].state = "deleted"
<1> DEFINE q == slot[w][z].rec
<1>1. PICK new \in {CompletedJob(jobs[q]), ErroredJob(jobs[q]), FailedJob(jobs[q])} :
        MarkFinal(q, w, new)
  BY DEF MarkStatement, MarkComplete, MarkErrored, MarkFailed
<1>2. jobs[q] \in Job
  BY DEF StoreTypeOK
<1>3. new.finished_age = 0
  BY <1>2 DEF CompletedJob, ErroredJob, FailedJob, Job
<1>4. new.state \in {"completed", "canceled", "failed", "errored"}
  <2>1. CASE new = CompletedJob(jobs[q])
    BY <1>2, <2>1 DEF CompletedJob, Job
  <2>2. CASE new = ErroredJob(jobs[q])
    BY <1>2, <2>2 DEF ErroredJob, Job
  <2>3. CASE new = FailedJob(jobs[q])
    BY <1>2, <2>3 DEF FailedJob, Job
  <2> QED
    BY <2>1, <2>2, <2>3
<1>5. Settled(new)
  BY <1>3, <1>4 DEF Settled
<1>6. jobs' = jobs \/ (Held(jobs[q], w) /\ jobs' = [jobs EXCEPT ![q] = new])
  BY <1>1 DEF MarkFinal
<1> QED
  BY <1>5, <1>6 DEF Held, StoreTypeOK

LEMMA FinalizeLease ==
    ASSUME StoreTypeOK, Shape, RowsNamed, Lease, NEW w \in Workers, NEW z \in Slots,
           Finalize(w, z)
    PROVE  Lease'
<1>q. PICK q \in Records : q = slot[w][z].rec
  BY DEF Finalize, RowsNamed
<1> DEFINE row == [slot[w][z] EXCEPT !.pc = "cleanup"]
<1>1. /\ slot' = [slot EXCEPT ![w] = [slot[w] EXCEPT ![z] = row]]
      /\ UNCHANGED <<loop, running, beat>>
  BY DEF Finalize
<1>2. /\ slot[w][z].pc = "finalizing"
      /\ Works(w, z, q) /\ Lives(w, z, q)
  BY <1>q DEF Finalize, Works, Lives
<1>3. row.pc = "cleanup" /\ row.rec = q
  BY <1>q DEF Shape, Slot
<1>4. WorkShrinks /\ ReferShrinks /\ TakesShrink
  <2> HIDE DEF row
  <2> QED
    BY <1>1, <1>2, <1>3, <1>q, MoveFacts
<1>5. ~Works(w, z, q)'
  BY <1>1, <1>3 DEF Works, Shape
<1>6. Settled(jobs[q])
  BY <1>2 DEF Lease, ReferredSettled
<1>7. /\ Settled(jobs'[q])
      /\ \A r \in Records :
           /\ r # q => jobs'[r] = jobs[r]
           /\ jobs[r].state = "deleted" => jobs'[r].state = "deleted"
  <2>1. CASE MarkStatement(w, z)
    BY <1>6, <1>q, <2>1, MarkedRow
  <2>2. CASE UNCHANGED jobs
    BY <1>6, <2>2
  <2> QED
    BY <2>1, <2>2 DEF Finalize
<1>8. \A v \in Workers : ~Claims(v, q)' /\ \A s \in Slots : ~Works(v, s, q)'
  BY <1>2, <1>4, <1>5 DEF Lease, WorkAlone, WorkShrinks
<1> HIDE DEF row
<1>9. RowsLeased'
  <2> SUFFICES ASSUME NEW v \in Workers, NEW r \in Records
               PROVE  /\ Claims(v, r)' => Leased(v, jobs'[r])
                      /\ \A s \in Slots : Works(v, s, r)' => Leased(v, jobs'[r])
    BY DEF RowsLeased, Leased
  <2> QED
    BY <1>4, <1>7, <1>8 DEF Lease, RowsLeased, WorkShrinks
<1>10. WorkAlone'
  <2> SUFFICES ASSUME NEW u \in Workers, NEW v \in Workers, NEW r \in Records
      PROVE  /\ Claims(u, r)' /\ Claims(v, r)' => u = v
             /\ \A s \in Slots : Works(u, s, r)' => ~Claims(v, r)'
             /\ \A s, t \in Slots :
                   Works(u, s, r)' /\ Works(v, t, r)' => u = v /\ s = t
    BY DEF WorkAlone
  <2> QED
    BY <1>4 DEF Lease, WorkAlone, WorkShrinks
<1>11. ReferredSettled'
  <2> SUFFICES ASSUME NEW v \in Workers, NEW r \in Records
      PROVE  /\ Beats(v, r)' => Settled(jobs'[r])
             /\ \A s \in Slots : Lives(v, s, r)' => Settled(jobs'[r])
    BY DEF ReferredSettled, Settled
  <2> QED
    BY <1>4, <1>7 DEF Lease, ReferredSettled, ReferShrinks
<1> QED
  BY <1>1, <1>4, <1>7, <1>9, <1>10, <1>11, ShrunkWork, MetOnceKept DEF Lease

(* The goroutine ends: the entry it removes is its own.                    *)
LEMMA RemoveLease ==
    ASSUME StoreTypeOK, Shape, RowsNamed, Lease, NEW w \in Workers, NEW z \in Slots,
           RemoveRunning(w, z)
    PROVE  Lease'
<1> DEFINE q == slot[w][z].rec
<1>1. /\ running' = [running EXCEPT ![w] = [running[w] EXCEPT ![q] = NoSlot]]
      /\ slot' = [slot EXCEPT ![w] = [Canceled(w, q) EXCEPT ![z] = FreeSlot]]
      /\ UNCHANGED <<jobs, loop, beat>>
  BY DEF RemoveRunning
<1>2. q \in Records /\ Lives(w, z, q)
  BY DEF RemoveRunning, RowsNamed, Lives
<1>3. Canceled(w, q) \in [Slots -> Slot]
  BY CanceledSlots
<1>4. ASSUME NEW v \in Workers, NEW s \in Slots
      PROVE  \/ v = w /\ s = z /\ slot'[v][s].pc = "free"
             \/ /\ ~(v = w /\ s = z)
                /\ slot'[v][s].pc = slot[v][s].pc
                /\ slot'[v][s].rec = slot[v][s].rec
  <2>1. CASE v # w
    BY <1>1, <2>1 DEF Shape
  <2>2. CASE v = w /\ s = z
    BY <1>1, <1>3, <2>2, FreshTypes DEF Shape
  <2>3. CASE v = w /\ s # z
    <3>1. slot'[v][s] = Canceled(w, q)[s]
      BY <1>1, <1>3, <2>3 DEF Shape
    <3> QED
      BY <2>3, <3>1, CanceledSlots
  <2> QED
    BY <2>1, <2>2, <2>3
<1>5. ASSUME NEW v \in Workers, NEW s \in Slots, NEW r \in Records
      PROVE  /\ Works(v, s, r)' => Works(v, s, r) /\ ~(v = w /\ s = z)
             /\ Lives(v, s, r)' => Lives(v, s, r)
             /\ Works(v, s, r) => Lives(v, s, r)
             /\ running'[v][r] = running[v][r] \/ (v = w /\ r = q)
  <2>1. running'[v][r] = running[v][r] \/ (v = w /\ r = q)
    BY <1>1 DEF Shape
  <2> QED
    BY <1>4, <2>1 DEF Works, Lives
<1>6. \A v \in Workers, r \in Records :
        /\ Claims(v, r)' <=> Claims(v, r)
        /\ Takes(v, r)' <=> Takes(v, r)
        /\ Beats(v, r)' <=> Beats(v, r)
  BY <1>1 DEF Claims, Takes, Beats
<1> HIDE DEF q
<1>7. WorkShrinks /\ ReferShrinks /\ TakesShrink
  BY <1>5, <1>6 DEF WorkShrinks, ReferShrinks, TakesShrink
<1>8. WorkCovered'
  <2> SUFFICES ASSUME NEW v \in Workers, NEW s \in Slots, NEW r \in Records,
                      Works(v, s, r)'
               PROVE  jobs[r].state = "deleted" \/ running'[v][r] = s
    BY <1>1 DEF WorkCovered
  <2>1. ~(v = w /\ r = q)
    BY <1>2, <1>5 DEF Lease, MetOnce
  <2> QED
    BY <1>5, <2>1 DEF Lease, WorkCovered
<1>9. UnknownDeleted'
  <2> SUFFICES ASSUME NEW v \in Workers, NEW s \in Slots, NEW r \in Records,
                      Works(v, s, r)', r \in beat[v].unknown
               PROVE  jobs[r].state = "deleted"
    BY <1>1 DEF UnknownDeleted
  <2> QED
    BY <1>5 DEF Lease, UnknownDeleted
<1>10. BeatsAtRest'
  BY <1>1, <1>6 DEF Lease, BeatsAtRest
<1>11. QuietTable
  BY <1>1, QuietStatements
<1> QED
  BY <1>7, <1>8, <1>9, <1>10, <1>11, RowsLeasedKept, ReferredSettledKept,
     MetOnceKept
  DEF Lease

LEMMA HandlerLease ==
    ASSUME StoreTypeOK, Shape, RowsNamed, Lease, NEW w \in Workers, NEW z \in Slots,
           HandlerStep(w, z), requeues' = 0
    PROVE  Lease'
<1>s. slot[w][z] \in Slot
  BY DEF Shape
<1>1. ASSUME NEW row, slot' = [slot EXCEPT ![w] = [slot[w] EXCEPT ![z] = row]],
             slot[w][z].pc # "free",
             row.rec = slot[w][z].rec,
             row.pc \in {"handling", "finalizing"} =>
                 slot[w][z].pc \in {"handling", "finalizing"},
             UNCHANGED <<jobs, loop, running, beat>>
      PROVE  Lease'
  <2>1. WorkShrinks /\ ReferShrinks /\ TakesShrink
    BY <1>1, MoveFacts
  <2>2. QuietTable
    BY <1>1, QuietStatements
  <2> QED
    BY <1>1, <2>1, <2>2, ShrunkWork, RowsLeasedKept, ReferredSettledKept,
       MetOnceKept
    DEF Lease
<1>2. CASE HandlerReturns(w, z)
  <2>1. PICK verdict :
          slot' = [slot EXCEPT ![w] = [slot[w] EXCEPT ![z] =
                     [slot[w][z] EXCEPT !.pc = "finalizing", !.verdict = verdict]]]
    BY <1>2 DEF HandlerReturns
  <2> DEFINE row == [slot[w][z] EXCEPT !.pc = "finalizing", !.verdict = verdict]
  <2>2. row.rec = slot[w][z].rec
    BY <1>s DEF Slot
  <2> QED
    BY <1>1, <1>2, <2>1, <2>2 DEF HandlerReturns
<1>3. CASE ReturnToken(w, z)
  <2> DEFINE row == [slot[w][z] EXCEPT !.pc = "removing"]
  <2>1. row.rec = slot[w][z].rec /\ row.pc = "removing"
    BY <1>s DEF Slot
  <2>2. slot' = [slot EXCEPT ![w] = [slot[w] EXCEPT ![z] = row]]
    BY <1>3 DEF ReturnToken
  <2> QED
    BY <1>1, <1>3, <2>1, <2>2 DEF ReturnToken
<1>4. ~HandlerRequeues(w, z)
  <2>1. requeues \in Nat
    BY WorkerAssumption DEF Shape
  <2> QED
    BY <2>1 DEF HandlerRequeues
<1> QED
  BY <1>2, <1>3, <1>4, FinalizeLease, RemoveLease DEF HandlerStep

-----------------------------------------------------------------------------
(* The heartbeat loop.                                                     *)
LEMMA ToApplyFields ==
    ASSUME NEW unknown, NEW cancel
    PROVE  /\ ToApply(unknown, cancel).ids = {}
           /\ ToApply(unknown, cancel).unknown = unknown
           /\ ToApply(unknown, cancel).cancel = cancel
           /\ ToApply(unknown, cancel).pc \in {"idle", "done"} =>
                unknown \cup cancel = {}
<1>1. CASE unknown \cup cancel = {}
  <2>1. unknown = {} /\ cancel = {}
    BY <1>1
  <2> QED
    BY <1>1, <2>1 DEF ToApply, IdleBeat
<1>2. CASE unknown \cup cancel # {}
  BY <1>2 DEF ToApply, IdleBeat
<1> QED
  BY <1>1, <1>2

(* The steps of the heartbeat loop but for the slice: nothing new is       *)
(* referred to, and goroutines are at most told to stop.                   *)
LEMMA BeatShrinks ==
    ASSUME Lease, NEW w \in Workers, UNCHANGED loop,
           \A v \in Workers, s \in Slots :
               slot'[v][s].pc = slot[v][s].pc /\ slot'[v][s].rec = slot[v][s].rec,
           \A v \in Workers \ {w} : beat'[v] = beat[v],
           beat'[w].ids \cup beat'[w].unknown \cup beat'[w].cancel
             \subseteq beat[w].ids \cup beat[w].unknown \cup beat[w].cancel,
           beat'[w].pc \in {"idle", "done"} =>
               beat'[w].ids \cup beat'[w].unknown \cup beat'[w].cancel = {}
    PROVE  /\ WorkShrinks /\ ReferShrinks /\ TakesShrink /\ BeatsAtRest'
           /\ \A v \in Workers, s \in Slots, r \in Records :
                 Works(v, s, r)' <=> Works(v, s, r)
<1>1. \A v \in Workers, s \in Slots, r \in Records :
        /\ Works(v, s, r)' <=> Works(v, s, r)
        /\ Lives(v, s, r)' <=> Lives(v, s, r)
  BY DEF Works, Lives
<1>2. \A v \in Workers, r \in Records :
        /\ Claims(v, r)' <=> Claims(v, r)
        /\ Takes(v, r)' <=> Takes(v, r)
  BY DEF Claims, Takes
<1>3. ASSUME NEW v \in Workers, NEW r \in Records
      PROVE  Beats(v, r)' => Beats(v, r)
  BY DEF Beats
<1>4. ASSUME NEW v \in Workers, NEW r \in Records
      PROVE  beat'[v].pc \in {"idle", "done"} => ~Beats(v, r)'
  <2>1. CASE v = w
    BY <2>1 DEF Beats
  <2>2. CASE v # w
    BY <2>2 DEF Beats, Lease, BeatsAtRest
  <2> QED
    BY <2>1, <2>2
<1>5. BeatsAtRest'
  BY <1>4 DEF BeatsAtRest
<1> QED
  BY <1>1, <1>2, <1>3, <1>5 DEF WorkShrinks, ReferShrinks, TakesShrink

(* The slice takes what goroutines are registered for.                     *)
LEMMA SliceLease ==
    ASSUME StoreTypeOK, Shape, RowsNamed, Entries, Lease, NEW w \in Workers,
           BeatSlice(w)
    PROVE  Lease'
<1>1. /\ beat[w] \in Beat /\ beat[w].pc = "idle"
      /\ beat'[w].ids = RunningIDs(w) /\ beat'[w].unknown = beat[w].unknown
      /\ beat'[w].cancel = beat[w].cancel
      /\ beat'[w].pc = "sent"
      /\ \A v \in Workers \ {w} : beat'[v] = beat[v]
      /\ UNCHANGED <<jobs, loop, running, slot>>
  BY DEF BeatSlice, Shape, Beat
<1>2. \A v \in Workers, r \in Records :
        /\ Claims(v, r)' <=> Claims(v, r)
        /\ Takes(v, r)' <=> Takes(v, r)
        /\ \A s \in Slots : /\ Works(v, s, r)' <=> Works(v, s, r)
                            /\ Lives(v, s, r)' <=> Lives(v, s, r)
  BY <1>1 DEF Claims, Takes, Works, Lives
<1>3. ASSUME NEW v \in Workers, NEW r \in Records
      PROVE  Beats(v, r)' => \/ Beats(v, r)
                             \/ v = w /\ \E s \in Slots : Lives(w, s, r)
  <2> SUFFICES ASSUME v = w, Beats(w, r)', ~Beats(w, r)
               PROVE  \E s \in Slots : Lives(w, s, r)
    BY <1>1 DEF Beats
  <2>1. running[w][r] # NoSlot
    BY <1>1 DEF Beats, RunningIDs, Has
  <2>2. running[w][r] \in Slots
    BY <2>1 DEF Shape
  <2> QED
    BY <2>1, <2>2 DEF Entries, EntriesAlive, Lives
<1>4. QuietTable
  BY <1>1, QuietStatements
<1>5. WorkShrinks
  BY <1>2 DEF WorkShrinks
<1>6. ReferredSettled'
  <2> SUFFICES ASSUME NEW v \in Workers, NEW r \in Records
      PROVE  /\ Beats(v, r)' => Settled(jobs[r])
             /\ \A s \in Slots : Lives(v, s, r)' => Settled(jobs[r])
    BY <1>1 DEF ReferredSettled, Settled
  <2> QED
    BY <1>2, <1>3 DEF Lease, ReferredSettled
<1>7. MetOnce'
  <2> SUFFICES ASSUME NEW v \in Workers, NEW r \in Records
      PROVE  /\ \A s, t \in Slots : Lives(v, s, r)' /\ Lives(v, t, r)' => s = t
             /\ Takes(v, r)' => ~Beats(v, r)' /\ \A s \in Slots : ~Lives(v, s, r)'
    BY DEF MetOnce
  <2> QED
    BY <1>2, <1>3 DEF Lease, MetOnce
<1>8. WorkCovered'
  BY <1>1, <1>2 DEF Lease, WorkCovered
<1>9. UnknownDeleted'
  <2> SUFFICES ASSUME NEW v \in Workers, NEW s \in Slots, NEW r \in Records,
                      Works(v, s, r)', r \in beat'[v].unknown
               PROVE  jobs[r].state = "deleted"
    BY <1>1 DEF UnknownDeleted
  <2>1. r \in beat[v].unknown
    BY <1>1
  <2> QED
    BY <1>2, <2>1 DEF Lease, UnknownDeleted
<1>10. BeatsAtRest'
  <2> SUFFICES ASSUME NEW v \in Workers, NEW r \in Records,
                      beat'[v].pc \in {"idle", "done"}
               PROVE  ~Beats(v, r)'
    BY DEF BeatsAtRest
  <2> QED
    BY <1>1 DEF Lease, BeatsAtRest, Beats
<1> QED
  BY <1>4, <1>5, <1>6, <1>7, <1>8, <1>9, <1>10, RowsLeasedKept DEF Lease

LEMMA BeatLease ==
    ASSUME StoreTypeOK, Shape, RowsNamed, Entries, CallsFresh, Lease,
           NEW w \in Workers, BeatStep(w)
    PROVE  Lease'
<1>b. /\ beat[w] \in Beat /\ beat[w].lag = 0
      /\ beat[w].ids \subseteq Records /\ beat[w].unknown \subseteq Records
      /\ beat[w].cancel \subseteq Records
  BY DEF Shape, Beat, CallsFresh
<1>1. CASE BeatSlice(w)
  BY <1>1, SliceLease
<1>2. CASE BeatSend(w)
  <2> DEFINE unknown == beat[w].ids \ KnownIDs(beat[w].ids, w)
             cancel == CancelIDs(beat[w].ids, w)
  <2>1. /\ Heartbeat(beat[w].ids, w, 0)
        /\ beat' = [beat EXCEPT ![w] = ToApply(unknown, cancel)]
        /\ UNCHANGED <<loop, running, slot>>
    BY <1>2, <1>b DEF BeatSend
  <2>2. unknown \subseteq beat[w].ids /\ cancel \subseteq beat[w].ids
    BY DEF CancelIDs, KnownIDs
  <2>3. ASSUME NEW s \in Slots, NEW r \in Records, Works(w, s, r), r \in unknown
        PROVE  jobs[r].state = "deleted"
    <3>1. ~Held(jobs[r], w)
      BY <2>3 DEF KnownIDs
    <3>2. Leased(w, jobs[r])
      BY <2>3 DEF Lease, RowsLeased
    <3> QED
      BY <3>1, <3>2 DEF Held, HostnameMatches, Leased
  <2> HIDE DEF unknown, cancel
  <2>4. /\ beat'[w].ids = {} /\ beat'[w].unknown = unknown
        /\ beat'[w].cancel = cancel
        /\ beat'[w].pc \in {"idle", "done"} => unknown \cup cancel = {}
        /\ \A v \in Workers \ {w} : beat'[v] = beat[v]
    BY <2>1, ToApplyFields DEF Shape
  <2>5. /\ WorkShrinks /\ ReferShrinks /\ TakesShrink /\ BeatsAtRest'
        /\ \A v \in Workers, s \in Slots, r \in Records :
              Works(v, s, r)' <=> Works(v, s, r)
    BY <2>1, <2>2, <2>4, BeatShrinks
  <2>6. QuietTable
    BY <1>b, <2>1, QuietStatements
  <2>7. \A r \in Records : jobs[r].state = "deleted" => jobs'[r].state = "deleted"
    BY <2>6 DEF QuietTable, Quiet
  <2>8. WorkCovered'
    BY <2>1, <2>5, <2>7 DEF Lease, WorkCovered
  <2>9. UnknownDeleted'
    <3> SUFFICES ASSUME NEW v \in Workers, NEW s \in Slots, NEW r \in Records,
                        Works(v, s, r)', r \in beat'[v].unknown
                 PROVE  jobs[r].state = "deleted"
      BY <2>7 DEF UnknownDeleted
    <3>1. CASE v = w
      BY <2>3, <2>4, <2>5, <3>1
    <3>2. CASE v # w
      BY <2>4, <2>5, <3>2 DEF Lease, UnknownDeleted
    <3> QED
      BY <3>1, <3>2
  <2> QED
    BY <2>5, <2>6, <2>8, <2>9, RowsLeasedKept, ReferredSettledKept, MetOnceKept
    DEF Lease
<1>3. ASSUME QuietTable, UNCHANGED loop,
             \A v \in Workers, s \in Slots :
               slot'[v][s].pc = slot[v][s].pc /\ slot'[v][s].rec = slot[v][s].rec,
             \A v \in Workers \ {w} : beat'[v] = beat[v],
             beat'[w].ids \subseteq beat[w].ids,
             beat'[w].unknown \subseteq beat[w].unknown,
             beat'[w].cancel \subseteq beat[w].cancel,
             beat'[w].pc \in {"idle", "done"} =>
               beat'[w].ids \cup beat'[w].unknown \cup beat'[w].cancel = {},
             \A v \in Workers, r \in Records : running'[v][r] = running[v][r]
               \/ (v = w /\ r \in beat[w].unknown)
      PROVE  Lease'
  <2>1. /\ WorkShrinks /\ ReferShrinks /\ TakesShrink /\ BeatsAtRest'
        /\ \A v \in Workers, s \in Slots, r \in Records :
              Works(v, s, r)' <=> Works(v, s, r)
    BY <1>3, BeatShrinks
  <2>2. \A r \in Records : jobs[r].state = "deleted" => jobs'[r].state = "deleted"
    BY <1>3 DEF QuietTable, Quiet
  <2>3. WorkCovered'
    <3> SUFFICES ASSUME NEW v \in Workers, NEW s \in Slots, NEW r \in Records,
                        Works(v, s, r)'
                 PROVE  jobs[r].state = "deleted" \/ running'[v][r] = s
      BY <2>2 DEF WorkCovered
    <3> QED
      BY <1>3, <2>1 DEF Lease, WorkCovered, UnknownDeleted
  <2>4. UnknownDeleted'
    <3> SUFFICES ASSUME NEW v \in Workers, NEW s \in Slots, NEW r \in Records,
                        Works(v, s, r)', r \in beat'[v].unknown
                 PROVE  jobs[r].state = "deleted"
      BY <2>2 DEF UnknownDeleted
    <3>1. r \in beat[v].unknown
      BY <1>3
    <3> QED
      BY <2>1, <3>1 DEF Lease, UnknownDeleted
  <2> QED
    BY <1>3, <2>1, <2>3, <2>4, RowsLeasedKept, ReferredSettledKept, MetOnceKept
    DEF Lease
<1>4. CASE BeatFails(w) \/ BeatEnds(w)
  <2>1. CASE BeatFails(w)
    <3>1. /\ beat'[w] = IdleBeat
          /\ \A v \in Workers \ {w} : beat'[v] = beat[v]
      BY <2>1 DEF BeatFails, Shape
    <3>2. UNCHANGED <<loop, running, slot>> /\ QuietTable
      BY <1>b, <2>1, QuietStatements DEF BeatFails
    <3> QED
      BY <1>3, <3>1, <3>2 DEF IdleBeat
  <2>2. CASE BeatEnds(w)
    <3>1. /\ beat'[w].ids = beat[w].ids /\ beat'[w].unknown = beat[w].unknown
          /\ beat'[w].cancel = beat[w].cancel
          /\ \A v \in Workers \ {w} : beat'[v] = beat[v]
          /\ beat[w].pc = "idle"
      BY <1>b, <2>2 DEF BeatEnds, Shape, Beat
    <3>2. UNCHANGED <<loop, running, slot>> /\ QuietTable
      BY <2>2, QuietStatements DEF BeatEnds
    <3>3. beat[w].ids \cup beat[w].unknown \cup beat[w].cancel = {}
      BY <1>b, <3>1 DEF Lease, BeatsAtRest, Beats
    <3> QED
      BY <1>3, <3>1, <3>2, <3>3
  <2> QED
    BY <1>4, <2>1, <2>2
<1>5. ASSUME NEW q \in Records, NEW unknown \in SUBSET beat[w].unknown,
             NEW cancel \in SUBSET beat[w].cancel,
             beat' = [beat EXCEPT ![w] = ToApply(unknown, cancel)],
             slot' = [slot EXCEPT ![w] = Canceled(w, q)],
             UNCHANGED <<jobs, loop>>,
             \A v \in Workers, r \in Records : running'[v][r] = running[v][r]
               \/ (v = w /\ r \in beat[w].unknown)
      PROVE  Lease'
  <2>1. /\ beat'[w].ids = {} /\ beat'[w].unknown = unknown
        /\ beat'[w].cancel = cancel
        /\ beat'[w].pc \in {"idle", "done"} => unknown \cup cancel = {}
        /\ \A v \in Workers \ {w} : beat'[v] = beat[v]
    BY <1>5, ToApplyFields DEF Shape
  <2>2. ASSUME NEW v \in Workers, NEW s \in Slots
        PROVE  slot'[v][s].pc = slot[v][s].pc /\ slot'[v][s].rec = slot[v][s].rec
    <3>1. slot'[v] = IF v = w THEN Canceled(w, q) ELSE slot[v]
      BY <1>5 DEF Shape
    <3> QED
      BY <3>1, CanceledSlots
  <2>3. QuietTable
    BY <1>5, QuietStatements
  <2> QED
    BY <1>3, <1>5, <2>1, <2>2, <2>3
<1>6. CASE BeatRemove(w)
  <2>1. PICK q \in beat[w].unknown :
          /\ IDSetRemove(w, q)
          /\ beat' = [beat EXCEPT ![w] = ToApply(@.unknown \ {q}, @.cancel)]
    BY <1>6 DEF BeatRemove
  <2>2. q \in Records
    BY <1>b
  <2>3. \A v \in Workers, r \in Records : running'[v][r] = running[v][r]
          \/ (v = w /\ r \in beat[w].unknown)
    BY <2>1 DEF IDSetRemove, Shape
  <2>4. beat' = [beat EXCEPT ![w] = ToApply(beat[w].unknown \ {q}, beat[w].cancel)]
    BY <2>1
  <2>5. slot' = [slot EXCEPT ![w] = Canceled(w, q)] /\ UNCHANGED <<jobs, loop>>
    BY <1>6, <2>1 DEF IDSetRemove, BeatRemove
  <2>6. beat[w].unknown \ {q} \in SUBSET beat[w].unknown
    OBVIOUS
  <2> QED
    BY <1>5, <2>2, <2>3, <2>4, <2>5, <2>6
<1>7. CASE BeatCancel(w)
  <2>1. PICK q \in beat[w].cancel :
          /\ IDSetCancel(w, q)
          /\ beat' = [beat EXCEPT ![w] = ToApply({}, @.cancel \ {q})]
    BY <1>7 DEF BeatCancel
  <2>2. q \in Records
    BY <1>b
  <2>3. beat' = [beat EXCEPT ![w] = ToApply({}, beat[w].cancel \ {q})]
    BY <2>1
  <2>4. /\ slot' = [slot EXCEPT ![w] = Canceled(w, q)]
        /\ UNCHANGED <<jobs, loop, running>>
    BY <1>7, <2>1 DEF IDSetCancel, BeatCancel
  <2>5. /\ {} \in SUBSET beat[w].unknown
        /\ beat[w].cancel \ {q} \in SUBSET beat[w].cancel
    OBVIOUS
  <2>6. \A v \in Workers, r \in Records : running'[v][r] = running[v][r]
    BY <2>4
  <2> QED
    BY <1>5, <2>2, <2>3, <2>4, <2>5, <2>6
<1> QED
  BY <1>1, <1>2, <1>4, <1>6, <1>7 DEF BeatStep

-----------------------------------------------------------------------------
(* A crash forgets everything but the rows.                                *)
LEMMA CrashLease ==
    ASSUME StoreTypeOK, Shape, Lease, NEW w \in Workers, Crash(w)
    PROVE  Lease'
<1>1. /\ loop'[w] = FirstLoop /\ beat'[w] = IdleBeat
      /\ \A s \in Slots : slot'[w][s] = FreeSlot
      /\ \A v \in Workers \ {w} :
            /\ loop'[v] = loop[v] /\ beat'[v] = beat[v]
            /\ slot'[v] = slot[v] /\ running'[v] = running[v]
      /\ UNCHANGED jobs
  BY DEF Crash, Shape
<1>2. ASSUME NEW v \in Workers, NEW r \in Records
      PROVE  /\ Claims(v, r)' => Claims(v, r)
             /\ Takes(v, r)' => Takes(v, r)
             /\ Beats(v, r)' => Beats(v, r) /\ v # w
  BY <1>1 DEF Claims, Takes, Beats, FirstLoop, IdleBeat
<1>3. ASSUME NEW v \in Workers, NEW s \in Slots, NEW r \in Records
      PROVE  /\ Works(v, s, r)' => Works(v, s, r) /\ v # w
             /\ Lives(v, s, r)' => Lives(v, s, r)
  BY <1>1, FreshTypes DEF Works, Lives
<1>4. WorkShrinks /\ ReferShrinks /\ TakesShrink
  BY <1>2, <1>3 DEF WorkShrinks, ReferShrinks, TakesShrink
<1>5. WorkCovered'
  <2> SUFFICES ASSUME NEW v \in Workers, NEW s \in Slots, NEW r \in Records,
                      Works(v, s, r)'
               PROVE  jobs[r].state = "deleted" \/ running'[v][r] = s
    BY <1>1 DEF WorkCovered
  <2> QED
    BY <1>1, <1>3 DEF Lease, WorkCovered
<1>6. UnknownDeleted'
  <2> SUFFICES ASSUME NEW v \in Workers, NEW s \in Slots, NEW r \in Records,
                      Works(v, s, r)', r \in beat'[v].unknown
               PROVE  jobs[r].state = "deleted"
    BY <1>1 DEF UnknownDeleted
  <2> QED
    BY <1>1, <1>3 DEF Lease, UnknownDeleted
<1>7. BeatsAtRest'
  <2> SUFFICES ASSUME NEW v \in Workers, NEW r \in Records,
                      beat'[v].pc \in {"idle", "done"}
               PROVE  ~Beats(v, r)'
    BY DEF BeatsAtRest
  <2> QED
    BY <1>1, <1>2 DEF Lease, BeatsAtRest
<1>8. QuietTable
  BY <1>1, QuietStatements
<1> QED
  BY <1>4, <1>5, <1>6, <1>7, <1>8, RowsLeasedKept, ReferredSettledKept, MetOnceKept
  DEF Lease

(* Time passes.  Everyone is on time: no dequeue, no heartbeat and no      *)
(* goroutine done with its record is under way, and what is worked on has  *)
(* a heartbeat to spare.                                                   *)
LEMMA TimeLease ==
    ASSUME Prompt, StoreTypeOK, Shape, RowsNamed, Lease, TimePasses
    PROVE  Lease'
<1>1. /\ UNCHANGED <<running, slot>>
      /\ \A r \in Records : jobs[r] \in Job /\ jobs'[r] = Older(jobs[r])
      /\ \A w \in Workers : OnTime(w)
  BY DEF TimePasses, Tick, StoreTypeOK
<1>t. \A v \in Workers :
        /\ loop'[v].pc = loop[v].pc /\ loop'[v].cands = loop[v].cands
        /\ loop'[v].rec = loop[v].rec
        /\ beat'[v].ids = beat[v].ids /\ beat'[v].unknown = beat[v].unknown
        /\ beat'[v].cancel = beat[v].cancel
  BY TickTouches
<1>2. \A v \in Workers, r \in Records :
        /\ ~Claims(v, r) /\ ~Claims(v, r)'
        /\ ~Takes(v, r) /\ ~Takes(v, r)'
        /\ ~Beats(v, r) /\ ~Beats(v, r)'
        /\ \A s \in Slots : /\ Works(v, s, r)' <=> Works(v, s, r)
                            /\ Lives(v, s, r)' <=> Lives(v, s, r)
  <2>1. \A v \in Workers, r \in Records : ~Claims(v, r) /\ ~Takes(v, r)
    BY <1>1 DEF OnTime, Claims, Takes
  <2>2. \A v \in Workers, r \in Records : ~Beats(v, r)
    BY <1>1 DEF OnTime, Lease, BeatsAtRest
  <2> QED
    BY <1>1, <1>t, <2>1, <2>2 DEF Claims, Takes, Beats, Works, Lives
<1>3. \A v \in Workers, s \in Slots, r \in Records : Lives(v, s, r) => Works(v, s, r)
  <2> SUFFICES ASSUME NEW v \in Workers, NEW s \in Slots, NEW r \in Records,
                      Lives(v, s, r)
               PROVE  Works(v, s, r)
    OBVIOUS
  <2>1. slot[v][s].pc \in SlotPC
    BY DEF Shape, Slot
  <2> QED
    BY <1>1, <2>1 DEF OnTime, Lives, Works, SlotPC
<1>4. ASSUME NEW v \in Workers, NEW s \in Slots, NEW r \in Records, Works(v, s, r)
      PROVE  Leased(v, jobs'[r])
  <2>1. /\ Leased(v, jobs[r])
        /\ jobs[r].state = "deleted" \/ running[v][r] = s
    BY <1>4 DEF Lease, RowsLeased, WorkCovered
  <2>2. /\ jobs'[r].state = jobs[r].state
        /\ jobs'[r].worker_hostname = jobs[r].worker_hostname
        /\ jobs'[r].heartbeat_age = jobs[r].heartbeat_age
             \/ jobs'[r].heartbeat_age = jobs[r].heartbeat_age + 1
        /\ jobs[r].heartbeat_age \in Nat
    <3>1. jobs[r] \in Job /\ jobs'[r] = Older(jobs[r])
      BY <1>1
    <3>2. jobs[r].heartbeat_age \in Nat
      BY <3>1 DEF Job
    <3>3. /\ Older(jobs[r]).state = jobs[r].state
          /\ Older(jobs[r]).worker_hostname = jobs[r].worker_hostname
          /\ Older(jobs[r]).heartbeat_age =
               IF jobs[r].heartbeat_age < OldestHeartbeat
                 THEN jobs[r].heartbeat_age + 1 ELSE jobs[r].heartbeat_age
      BY <3>1 DEF Older, Job
    <3> QED
      BY <3>1, <3>2, <3>3
  <2>3. CASE jobs[r].state = "deleted"
    BY <2>2, <2>3 DEF Leased
  <2>4. CASE jobs[r].state = "processing" /\ running[v][r] = s
    <3>1. r \in RunningIDs(v)
      BY <2>4, WorkerAssumption DEF RunningIDs, Has
    <3>2. jobs[r].heartbeat_age < StalledMaxAge
      BY <1>1, <2>4, <3>1 DEF OnTime
    <3> QED
      BY <2>1, <2>2, <2>4, <3>2, StoreAssumption DEF Leased
  <2> QED
    BY <2>1, <2>3, <2>4 DEF Leased
<1>5. \A r \in Records : jobs[r].state = "deleted" => jobs'[r].state = "deleted"
  BY <1>1 DEF Older, Job
<1>6. RowsLeased'
  <2> SUFFICES ASSUME NEW v \in Workers, NEW r \in Records
               PROVE  /\ Claims(v, r)' => Leased(v, jobs'[r])
                      /\ \A s \in Slots : Works(v, s, r)' => Leased(v, jobs'[r])
    BY DEF RowsLeased, Leased
  <2> QED
    BY <1>2, <1>4
<1>7. ReferredSettled'
  <2> SUFFICES ASSUME NEW v \in Workers, NEW r \in Records
      PROVE  /\ Beats(v, r)' => Settled(jobs'[r])
             /\ \A s \in Slots : Lives(v, s, r)' => Settled(jobs'[r])
    BY DEF ReferredSettled, Settled
  <2> QED
    BY <1>2, <1>3, <1>4 DEF Leased, Settled
<1>8. WorkCovered'
  BY <1>1, <1>2, <1>5 DEF Lease, WorkCovered
<1>9. WorkAlone'
  <2> SUFFICES ASSUME NEW u \in Workers, NEW v \in Workers, NEW r \in Records
      PROVE  /\ Claims(u, r)' /\ Claims(v, r)' => u = v
             /\ \A s \in Slots : Works(u, s, r)' => ~Claims(v, r)'
             /\ \A s, t \in Slots :
                   Works(u, s, r)' /\ Works(v, t, r)' => u = v /\ s = t
    BY DEF WorkAlone
  <2> QED
    BY <1>2 DEF Lease, WorkAlone
<1>10. MetOnce'
  <2> SUFFICES ASSUME NEW v \in Workers, NEW r \in Records
      PROVE  /\ \A s, t \in Slots : Lives(v, s, r)' /\ Lives(v, t, r)' => s = t
             /\ Takes(v, r)' => ~Beats(v, r)' /\ \A s \in Slots : ~Lives(v, s, r)'
    BY DEF MetOnce
  <2> QED
    BY <1>2 DEF Lease, MetOnce
<1>11. UnknownDeleted'
  BY <1>2 DEF UnknownDeleted, Beats
<1>12. BeatsAtRest'
  BY <1>2 DEF BeatsAtRest
<1> QED
  BY <1>6, <1>7, <1>8, <1>9, <1>10, <1>11, <1>12 DEF Lease

-----------------------------------------------------------------------------
(* Everyone is on time, so no call of a worker is under way when time      *)
(* passes.                                                                 *)
LEMMA FreshStep ==
    ASSUME Prompt, Shape, CallsFresh, [Next]_vars
    PROVE  CallsFresh'
<1> SUFFICES ASSUME NEW v \in Workers PROVE loop'[v].lag = 0 /\ beat'[v].lag = 0
  BY DEF CallsFresh
<1>t. loop \in [Workers -> Loop] /\ beat \in [Workers -> Beat]
  BY DEF Shape
<1>f. loop[v].lag = 0 /\ beat[v].lag = 0 /\ loop[v] \in Loop /\ beat[v] \in Beat
  BY <1>t DEF CallsFresh
<1>1. CASE TimePasses
  <2>1. ~Dequeuing(v) /\ ~Beating(v)
    BY <1>1 DEF TimePasses, OnTime, Dequeuing, Beating
  <2> QED
    BY <1>1, <1>f, <2>1, TickTouches
<1>2. ASSUME NEW w \in Workers, LoopStep(w) PROVE CallsFresh'
  <2>1. UNCHANGED beat
    BY <1>2 DEF LoopStep, Acquire, LoopEnds, PreDequeue, PreDequeueDeclines,
        NotDequeued, DequeueSnapshot, DequeueRefused, DequeueRecord,
        DequeueNothing, DequeueFails, Register, AlreadyExists, Wait, WaitEnds,
        Drained
  <2>2. PICK row : loop' = [loop EXCEPT ![w] = row] /\ row.lag = 0
    <3>1. loop[w] \in Loop /\ loop[w].lag = 0
      BY <1>t DEF CallsFresh
    <3>2. CASE PreDequeueDeclines(w) \/ DequeueRefused(w) \/ DequeueNothing(w)
                 \/ DequeueFails(w) \/ AlreadyExists(w)
      <4>1. PICK pc : NotDequeued(w, pc)
        BY <3>2 DEF PreDequeueDeclines, DequeueRefused, DequeueNothing,
                    DequeueFails, AlreadyExists
      <4> DEFINE new == [loop[w] EXCEPT !.pc = pc, !.cands = {},
                                        !.rec = NoRecord, !.lag = 0]
      <4>2. loop' = [loop EXCEPT ![w] = new] /\ new.lag = 0
        BY <3>1, <4>1 DEF NotDequeued, Loop
      <4> QED
        BY <4>2
    <3>3. CASE Acquire(w) \/ LoopEnds(w) \/ PreDequeue(w) \/ Wait(w) \/ WaitEnds(w)
                 \/ Drained(w)
      <4>1. PICK pc : loop' = [loop EXCEPT ![w] = [loop[w] EXCEPT !.pc = pc]]
        BY <3>3 DEF Acquire, LoopEnds, EnterDrain, PreDequeue, Wait, WaitEnds,
                    Drained
      <4>2. [loop[w] EXCEPT !.pc = pc].lag = 0
        BY <3>1 DEF Loop
      <4> QED
        BY <4>1, <4>2
    <3>4. CASE DequeueSnapshot(w)
      <4> DEFINE new == [loop[w] EXCEPT !.pc = "claim",
                                        !.cands = PotentialCandidates(loop[w].lag)]
      <4>1. loop' = [loop EXCEPT ![w] = new] /\ new.lag = 0
        BY <3>1, <3>4 DEF DequeueSnapshot, Loop
      <4> QED
        BY <4>1
    <3>5. CASE DequeueRecord(w)
      <4>1. PICK r : loop' = [loop EXCEPT ![w] =
                        [loop[w] EXCEPT !.pc = "register", !.lag = 0,
                                        !.cands = {}, !.rec = r]]
        BY <3>5 DEF DequeueRecord
      <4>2. [loop[w] EXCEPT !.pc = "register", !.lag = 0,
                            !.cands = {}, !.rec = r].lag = 0
        BY <3>1 DEF Loop
      <4> QED
        BY <4>1, <4>2
    <3>6. CASE Register(w)
      <4> DEFINE new == [loop[w] EXCEPT !.pc = "again", !.rec = NoRecord,
                            !.numDequeues = Counted(loop[w].numDequeues)]
      <4>1. loop' = [loop EXCEPT ![w] = new] /\ new.lag = 0
        BY <3>1, <3>6 DEF Register, Loop
      <4> QED
        BY <4>1
    <3> QED
      BY <1>2, <3>2, <3>3, <3>4, <3>5, <3>6 DEF LoopStep
  <2> QED
    BY <1>t, <2>1, <2>2 DEF CallsFresh
<1>3. ASSUME NEW w \in Workers, BeatStep(w) PROVE CallsFresh'
  <2>1. UNCHANGED loop
    BY <1>3 DEF BeatStep, BeatSlice, BeatSend, BeatFails, BeatRemove, BeatCancel,
                BeatEnds
  <2>2. PICK row : beat' = [beat EXCEPT ![w] = row] /\ row.lag = 0
    <3>1. beat[w] \in Beat /\ beat[w].lag = 0
      BY <1>t DEF CallsFresh
    <3>2. \A unknown, cancel : ToApply(unknown, cancel).lag = 0
      BY DEF ToApply, IdleBeat
    <3>3. CASE BeatSend(w) \/ BeatRemove(w) \/ BeatCancel(w)
      <4>1. PICK unknown, cancel :
              beat' = [beat EXCEPT ![w] = ToApply(unknown, cancel)]
        BY <3>3 DEF BeatSend, BeatRemove, BeatCancel
      <4> QED
        BY <3>2, <4>1
    <3>4. CASE BeatFails(w)
      <4>1. beat' = [beat EXCEPT ![w] = IdleBeat] /\ IdleBeat.lag = 0
        BY <3>4 DEF BeatFails, IdleBeat
      <4> QED
        BY <4>1
    <3>5. CASE BeatSlice(w)
      <4> DEFINE new == [beat[w] EXCEPT !.pc = "sent", !.ids = RunningIDs(w)]
      <4>1. beat' = [beat EXCEPT ![w] = new] /\ new.lag = 0
        BY <3>1, <3>5 DEF BeatSlice, Beat
      <4> QED
        BY <4>1
    <3>6. CASE BeatEnds(w)
      <4> DEFINE new == [beat[w] EXCEPT !.pc = "done"]
      <4>1. beat' = [beat EXCEPT ![w] = new] /\ new.lag = 0
        BY <3>1, <3>6 DEF BeatEnds, Beat
      <4> QED
        BY <4>1
    <3> QED
      BY <1>3, <3>3, <3>4, <3>5, <3>6 DEF BeatStep
  <2> QED
    BY <1>t, <2>1, <2>2 DEF CallsFresh
<1>4. ASSUME NEW w \in Workers, Crash(w) PROVE CallsFresh'
  BY <1>4, <1>t DEF Crash, CallsFresh, FirstLoop, IdleBeat
<1>5. ASSUME NEW w \in Workers, Stop(w) PROVE CallsFresh'
  <2>1. UNCHANGED beat /\ \A u \in Workers : loop'[u].lag = loop[u].lag
    BY <1>5, <1>t DEF Stop, Loop
  <2> QED
    BY <2>1 DEF CallsFresh
<1>6. ASSUME NEW w \in Workers, NEW s \in Slots, HandlerStep(w, s)
      PROVE  CallsFresh'
  BY <1>6 DEF CallsFresh, HandlerStep, HandlerReturns, HandlerRequeues, Finalize,
              ReturnToken, RemoveRunning
<1>7. CASE ResetterStep \/ UserCancels \/ UserDeletes \/ UNCHANGED vars
  BY <1>7 DEF CallsFresh, ResetterStep, ResetterReads, ResetterResets,
              ResetterFails, ResetterErrors, UserCancels, UserDeletes, vars
<1> QED
  BY <1>1, <1>2, <1>3, <1>4, <1>5, <1>6, <1>7 DEF Next, CallsFresh

LEMMA AlwaysFresh == ASSUME Prompt PROVE Spec => []CallsFresh
<1>1. Init => CallsFresh
  BY DEF Init, CallsFresh, FirstLoop, IdleBeat
<1>2. (Shape /\ RowsNamed) /\ CallsFresh /\ [Next]_vars => CallsFresh'
  BY FreshStep
<1> QED
  BY <1>1, <1>2, ShapeAlways, PTL DEF Spec

LEMMA LeaseInit == Init => Lease
<1> SUFFICES ASSUME Init PROVE Lease
  OBVIOUS
<1>1. \A w \in Workers, r \in Records :
        /\ ~Claims(w, r) /\ ~Takes(w, r) /\ ~Beats(w, r)
        /\ \A s \in Slots : ~Works(w, s, r) /\ ~Lives(w, s, r)
  BY DEF Init, Claims, Takes, Beats, Works, Lives, FirstLoop, IdleBeat, FreeSlot
<1> QED
  BY <1>1 DEF Lease, RowsLeased, WorkCovered, WorkAlone, ReferredSettled, MetOnce,
              UnknownDeleted, BeatsAtRest

LEMMA LeaseStep ==
    ASSUME Prompt, StoreTypeOK, Shape, RowsNamed, Entries, CallsFresh, LeaseInv,
           [Next]_vars
    PROVE  LeaseInv'
<1> SUFFICES ASSUME requeues' = 0 PROVE Lease'
  BY DEF LeaseInv, Lease, RowsLeased, WorkCovered, WorkAlone, ReferredSettled,
         MetOnce, UnknownDeleted, BeatsAtRest
<1>1. requeues = 0
  <2>1. requeues \in Nat
    BY WorkerAssumption DEF Shape
  <2>2. requeues' = requeues \/ requeues' = requeues + 1
    BY DEF Next, vars, LoopStep, Acquire, LoopEnds, PreDequeue, PreDequeueDeclines,
        NotDequeued, DequeueSnapshot, DequeueRefused, DequeueRecord,
        DequeueNothing, DequeueFails, Register, AlreadyExists, Wait, WaitEnds,
        Drained, BeatStep, BeatSlice, BeatSend, BeatFails, BeatRemove, BeatCancel,
        BeatEnds, Stop, Crash, HandlerStep, HandlerReturns, HandlerRequeues,
        Finalize, ReturnToken, RemoveRunning, ResetterStep, ResetterReads,
        ResetterResets, ResetterFails, ResetterErrors,
        UserCancels, UserDeletes, TimePasses
  <2> QED
    BY <2>1, <2>2
<1>2. Lease
  BY <1>1 DEF LeaseInv
<1>3. ASSUME UNCHANGED <<running, slot, beat>>, QuietTable,
             \A v \in Workers : loop'[v].pc = loop[v].pc /\ loop'[v].rec = loop[v].rec
                                  /\ loop'[v].cands = loop[v].cands
      PROVE  Lease'
  <2>1. \A v \in Workers, r \in Records :
          /\ Claims(v, r)' => Claims(v, r)
          /\ Takes(v, r)' => Takes(v, r)
    BY <1>3 DEF Claims, Takes
  <2> QED
    BY <1>2, <1>3, <2>1, IdleKeepsLease
<1>4. CASE UNCHANGED vars
  BY <1>3, <1>4, QuietStatements DEF vars
<1>5. ASSUME NEW w \in Workers, LoopStep(w) \/ BeatStep(w) \/ Crash(w)
      PROVE  Lease'
  BY <1>2, <1>5, LoopLease, BeatLease, CrashLease
<1>6. ASSUME NEW w \in Workers, Stop(w) PROVE Lease'
  <2>1. \A v \in Workers : loop'[v].pc = loop[v].pc /\ loop'[v].rec = loop[v].rec
                             /\ loop'[v].cands = loop[v].cands
    BY <1>6 DEF Stop, Shape, Loop
  <2> QED
    BY <1>3, <1>6, <2>1, QuietStatements DEF Stop
<1>7. ASSUME NEW w \in Workers, NEW s \in Slots, HandlerStep(w, s) PROVE Lease'
  BY <1>2, <1>7, HandlerLease
<1>8. CASE ResetterStep
  <2>1. resetter.lag \in Nat
    BY DEF Shape, Resetter
  <2>2. QuietTable
    BY <1>8, <2>1, QuietStatements
    DEF ResetterStep, ResetterReads, ResetterResets, ResetterFails, ResetterErrors
  <2>3. UNCHANGED <<loop, running, slot, beat>>
    BY <1>8 DEF ResetterStep, ResetterReads, ResetterResets, ResetterFails,
                ResetterErrors
  <2> QED
    BY <1>3, <2>2, <2>3
<1>9. CASE UserCancels \/ UserDeletes
  BY <1>3, <1>9, QuietStatements DEF UserCancels, UserDeletes
<1>10. CASE TimePasses
  BY <1>2, <1>10, TimeLease
<1> QED
  BY <1>4, <1>5, <1>6, <1>7, <1>8, <1>9, <1>10 DEF Next

LEMMA LeaseAlways == ASSUME Prompt PROVE Spec => []LeaseInv
<1>1. Init => LeaseInv
  BY LeaseInit DEF LeaseInv
<1>2. StoreTypeOK /\ (Shape /\ RowsNamed) /\ Entries /\ CallsFresh /\ LeaseInv
        /\ [Next]_vars => LeaseInv'
  BY LeaseStep
<1> QED
  BY <1>1, <1>2, WorkersUseStore, StoreTypeCorrect, ShapeAlways, EntriesAlways,
     AlwaysFresh, PTL
  DEF Spec

(* Nobody takes a record away from the goroutine that works on it: neither *)
(* the resetter, nor another worker with a stale snapshot, nor the late    *)
(* verdict of an earlier attempt.                                          *)
THEOREM OwnersAlwaysHold ==
    ASSUME Prompt PROVE Spec => [](requeues = 0 => OwnersHold)
<1>1. ASSUME Shape, RowsNamed, LeaseInv, requeues = 0 PROVE OwnersHold
  <2> SUFFICES ASSUME NEW w \in Workers, NEW s \in Slots, Owns(w, s)
               PROVE  LET job == jobs[slot[w][s].rec]
                      IN  job.state = "deleted" \/
                          (job.state = "processing" /\ job.worker_hostname = w)
    BY DEF OwnersHold
  <2>1. slot[w][s].rec \in Records
    BY <1>1 DEF Owns, RowsNamed
  <2>2. Works(w, s, slot[w][s].rec)
    BY DEF Owns, Works
  <2>3. Leased(w, jobs[slot[w][s].rec])
    BY <1>1, <2>1, <2>2 DEF LeaseInv, Lease, RowsLeased
  <2> QED
    BY <2>3 DEF Leased
<1>2. (Shape /\ RowsNamed) /\ LeaseInv => (requeues = 0 => OwnersHold)
  BY <1>1
<1> QED
  BY <1>2, ShapeAlways, LeaseAlways, PTL

(* No record is processed by two goroutines concurrently, in one worker or *)
(* in two.                                                                 *)
THEOREM AlwaysOneOwner ==
    ASSUME Prompt PROVE Spec => [](requeues = 0 => OneOwner)
<1>1. ASSUME Shape, RowsNamed, LeaseInv, requeues = 0 PROVE OneOwner
  <2> SUFFICES ASSUME NEW w \in Workers, NEW v \in Workers, NEW s \in Slots,
                      NEW t \in Slots, Owns(w, s), Owns(v, t),
                      slot[w][s].rec = slot[v][t].rec
               PROVE  w = v /\ s = t
    BY DEF OneOwner
  <2>1. slot[w][s].rec \in Records
    BY <1>1 DEF Owns, RowsNamed
  <2>2. Works(w, s, slot[w][s].rec) /\ Works(v, t, slot[w][s].rec)
    BY DEF Owns, Works
  <2> QED
    BY <1>1, <2>1, <2>2 DEF LeaseInv, Lease, WorkAlone
<1>2. (Shape /\ RowsNamed) /\ LeaseInv => (requeues = 0 => OneOwner)
  BY <1>1
<1> QED
  BY <1>2, ShapeAlways, LeaseAlways, PTL

(* A record the resetter finds stalled is nobody's: no goroutine works on  *)
(* it and no dequeue loop has just claimed it.  So a reset never starts a  *)
(* second attempt beside a first one.                                      *)
StalledOrphaned ==
    \A r \in Records, lag \in 0 .. MaxPassTicks : Stalled(jobs[r], lag) =>
        \A w \in Workers :
            /\ ~(loop[w].pc = "register" /\ loop[w].rec = r)
            /\ \A s \in Slots : slot[w][s].rec = r => slot[w][s].pc = "free"

THEOREM OnlyOrphansReset ==
    ASSUME Prompt PROVE Spec => [](requeues = 0 => StalledOrphaned)
<1>1. ASSUME StoreTypeOK, LeaseInv, requeues = 0 PROVE StalledOrphaned
  <2> SUFFICES ASSUME NEW r \in Records, NEW lag \in 0 .. MaxPassTicks,
                      Stalled(jobs[r], lag), NEW w \in Workers
               PROVE  ~Claims(w, r) /\ \A s \in Slots : ~Lives(w, s, r)
    BY DEF StalledOrphaned, Claims, Lives
  <2>1. jobs[r].heartbeat_age \in Nat /\ lag \in Nat
    BY <1>1 DEF StoreTypeOK, Job
  <2>2. ~Settled(jobs[r]) /\ ~Leased(w, jobs[r])
    BY <2>1, StoreAssumption DEF Stalled, Settled, Leased
  <2> QED
    BY <1>1, <2>2 DEF LeaseInv, Lease, RowsLeased, ReferredSettled
<1>2. StoreTypeOK /\ LeaseInv => (requeues = 0 => StalledOrphaned)
  BY <1>1
<1> QED
  BY <1>2, WorkersUseStore, StoreTypeCorrect, LeaseAlways, PTL

(* runningIDSet.Add never refuses a record that was just dequeued:         *)
(* ErrJobAlreadyExists, which leaves a claimed row behind until the        *)
(* resetter finds it, is not returned.                                     *)
THEOREM AddAlwaysAccepts ==
    ASSUME Prompt PROVE Spec => [](requeues = 0 => AddAccepts)
<1>1. ASSUME Shape, RowsNamed, Entries, LeaseInv, requeues = 0 PROVE AddAccepts
  <2> SUFFICES ASSUME NEW w \in Workers, loop[w].pc = "register",
                      running[w][loop[w].rec] # NoSlot
               PROVE  FALSE
    BY DEF AddAccepts
  <2>1. loop[w].rec \in Records /\ Takes(w, loop[w].rec)
    BY <1>1 DEF RowsNamed, Takes, Claims
  <2>2. running[w][loop[w].rec] \in Slots
    BY <1>1, <2>1 DEF Shape
  <2>3. Lives(w, running[w][loop[w].rec], loop[w].rec)
    BY <1>1, <2>1 DEF Entries, EntriesAlive, Lives
  <2> QED
    BY <1>1, <2>1, <2>2, <2>3 DEF LeaseInv, Lease, MetOnce
<1>2. (Shape /\ RowsNamed) /\ Entries /\ LeaseInv => (requeues = 0 => AddAccepts)
  BY <1>1
<1> QED
  BY <1>2, ShapeAlways, EntriesAlways, LeaseAlways, PTL

=============================================================================
