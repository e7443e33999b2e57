--------------------------- MODULE NotifierProofs ---------------------------
(***************************************************************************)
(* Theorems about RedisLock and RateLimitNotifier, for any number of       *)
(* calls, any lock timeout and any thresholds.                             *)
(***************************************************************************)
EXTENDS RateLimitNotifier, TLAPS

-----------------------------------------------------------------------------
(* The lock.                                                               *)

(* A call in progress is young: its token has most of its time left.       *)
Young ==
    \A c \in Calls : pc[c] # "none" => left[c] >= LockTimeout - TimeAllowed(c)

(* A call that compares, or is about to replace, a token has seen one; the *)
(* one it is about to replace has expired.                                 *)
SeenExpired ==
    \A c \in Calls : /\ pc[c] = "compare" => seen[c] \in Calls
                     /\ pc[c] = "getset" => seen[c] \in Calls /\ left[seen[c]] = 0

(* While the lock is held the key has a value, the holder's or that of a   *)
(* call that came too late, and it outlasts the holder.                    *)
Guarded == \A c \in Holders :
              /\ token \in Calls
              /\ left[token] > left[c] - (LockTimeout - OperationTime)

LockInv == LockTypeOK /\ Young /\ SeenExpired /\ Guarded /\ MutualExclusion

(* The variables of RedisLock stay within their types in every step.       *)
LEMMA LockTypeStep == LockTypeOK /\ [LockNext]_lockVars => LockTypeOK'
<1> USE LockAssumption
<1> SUFFICES ASSUME LockTypeOK, [LockNext]_lockVars PROVE LockTypeOK'
  OBVIOUS
<1>1. CASE Tick
  BY <1>1 DEF LockTypeOK, Tick
<1>2. ASSUME NEW c \in Calls, TryAcquire(c) PROVE LockTypeOK'
  BY <1>2 DEF LockTypeOK, TryAcquire, Go
<1>3. ASSUME NEW c \in Calls, SetNx(c) PROVE LockTypeOK'
  BY <1>3 DEF LockTypeOK, SetNx, Go
<1>4. ASSUME NEW c \in Calls, Get(c) PROVE LockTypeOK'
  BY <1>4 DEF LockTypeOK, Get, Go, End
<1>5. ASSUME NEW c \in Calls, Compare(c) PROVE LockTypeOK'
  BY <1>5 DEF LockTypeOK, Compare, Go, End
<1>6. ASSUME NEW c \in Calls, GetSet(c) PROVE LockTypeOK'
  BY <1>6 DEF LockTypeOK, GetSet, Go, End
<1>7. ASSUME NEW c \in Calls, Release(c) \/ Del(c) \/ Abandon(c) PROVE LockTypeOK'
  BY <1>7 DEF LockTypeOK, Release, Del, Abandon, Go, End
<1>8. CASE UNCHANGED lockVars
  BY <1>8 DEF LockTypeOK, lockVars
<1> QED
  BY <1>1, <1>2, <1>3, <1>4, <1>5, <1>6, <1>7, <1>8 DEF LockNext, Acquiring

(* If the timeout leaves room for the operation and for the time it takes  *)
(* to acquire the lock, every step of the lock preserves the invariant.    *)
LEMMA LockStep ==
    ASSUME AcquireTime + OperationTime < LockTimeout, LockInv,
           [LockNext]_lockVars
    PROVE  LockInv'
<1> USE LockAssumption
<1>0. LockTypeOK' BY LockTypeStep DEF LockInv
<1> USE DEF LockInv, LockTypeOK, Young, SeenExpired, Guarded, MutualExclusion,
            Holders, TimeAllowed
<1>1. CASE Tick
  BY <1>0, <1>1 DEF Tick
<1>2. ASSUME NEW c \in Calls, TryAcquire(c) PROVE LockInv'
  BY <1>0, <1>2 DEF TryAcquire, Go
<1>3. ASSUME NEW c \in Calls, SetNx(c) PROVE LockInv'
  BY <1>0, <1>3 DEF SetNx, Go
<1>4. ASSUME NEW c \in Calls, Get(c) PROVE LockInv'
  BY <1>0, <1>4 DEF Get, Go, End
<1>5. ASSUME NEW c \in Calls, Compare(c) PROVE LockInv'
  BY <1>0, <1>5 DEF Compare, Go, End, Expired
<1>6. ASSUME NEW c \in Calls, GetSet(c) PROVE LockInv'
  BY <1>0, <1>6 DEF GetSet, Go, End
<1>7. ASSUME NEW c \in Calls, Release(c) PROVE LockInv'
  BY <1>0, <1>7 DEF Release, Go
<1>8. ASSUME NEW c \in Calls, Del(c) PROVE LockInv'
  BY <1>0, <1>8 DEF Del, Go
<1>9. ASSUME NEW c \in Calls, Abandon(c) PROVE LockInv'
  BY <1>0, <1>9 DEF Abandon, Go, End
<1>10. CASE UNCHANGED lockVars
  BY <1>0, <1>10 DEF lockVars
<1> QED
  BY <1>1, <1>2, <1>3, <1>4, <1>5, <1>6, <1>7, <1>8, <1>9, <1>10
  DEF LockNext, Acquiring

LEMMA LockStart == LockInit => LockInv
BY LockAssumption DEF LockInit, LockInv, LockTypeOK, Young, SeenExpired, Guarded,
                      MutualExclusion, Holders, TimeAllowed

(* A lock timeout above the time of a call, from TryAcquire to release,    *)
(* plus the time TryAcquire takes is enough for mutual exclusion.          *)
THEOREM LockExcludes ==
    ASSUME AcquireTime + OperationTime < LockTimeout
    PROVE  LockSpec => []MutualExclusion
<1>1. LockInv /\ [LockNext]_lockVars => LockInv'
  BY LockStep
<1>2. LockInv => MutualExclusion
  BY DEF LockInv
<1> QED
  BY <1>1, <1>2, LockStart, PTL DEF LockSpec

-----------------------------------------------------------------------------
(* The notifier.                                                           *)

(* A call that does not hold the lock yet has not read the last threshold. *)
ReadsFirst == \A c \in Calls :
                 pc[c] \in {"setnx", "get", "compare", "getset"} => step[c] = "read"

(* A call that decided to send a message reached a threshold above the     *)
(* last one, which nobody changes until it has recorded its own.           *)
AboveLast == \A c \in Calls :
                pc[c] = "held" /\ step[c] \in {"send", "record"} => bucket[c] > last

(* A threshold a message was sent for is recorded, or is about to be.      *)
Recorded == \A t \in notified \ forgotten :
               \/ t <= last
               \/ \E c \in Calls : pc[c] = "held" /\ step[c] = "record" /\ bucket[c] = t

NotifyInv == TypeOK /\ ReadsFirst /\ AboveLast /\ Recorded

(* Every step of the notifier is one of the lock's, or leaves it alone.    *)
LEMMA NotifierLock == [Next]_notifierVars => [LockNext]_lockVars
BY DEF Next, notifierVars, Expire, Notify, Wait, ReadLast, Send, Record,
       RecordFails, Unlock, Stop, LockNext, Acquiring

(* The variables of the notifier stay within their types.                  *)
LEMMA NotifierTypeStep == TypeOK /\ [Next]_notifierVars => TypeOK'
<1> SUFFICES ASSUME TypeOK, [Next]_notifierVars PROVE TypeOK'
  OBVIOUS
<1>0. LockTypeOK' BY NotifierLock, LockTypeStep DEF TypeOK
<1> USE ThresholdAssumption DEF TypeOK
<1>1. CASE UNCHANGED alertVars
  BY <1>0, <1>1 DEF alertVars
<1>2. CASE Expire
  BY <1>0, <1>2 DEF Expire
<1>3. ASSUME NEW c \in Calls, NEW u \in Usages, Notify(c, u) PROVE TypeOK'
  BY <1>0, <1>3 DEF Notify
<1>4. ASSUME NEW c \in Calls, ReadLast(c) \/ Send(c) PROVE TypeOK'
  <2>1. CASE ReadLast(c) BY <1>0, <2>1 DEF ReadLast
  <2>2. CASE Send(c) BY <1>0, <2>2 DEF Send
  <2> QED BY <1>4, <2>1, <2>2
<1>5. ASSUME NEW c \in Calls, Record(c) \/ RecordFails(c) PROVE TypeOK'
  BY <1>0, <1>5 DEF Record, RecordFails
<1>6. ASSUME NEW c \in Calls, Stop(c) PROVE TypeOK'
  BY <1>0, <1>6 DEF Stop
<1> QED
  BY <1>1, <1>2, <1>3, <1>4, <1>5, <1>6
  DEF Next, notifierVars, Wait, Unlock

LEMMA ThresholdsAreNumbers ==
    ASSUME TypeOK PROVE last \in Nat /\ \A c \in Calls : bucket[c] \in Nat
<1>1. \A t \in Thresholds \cup {0} : t \in Nat
  BY ThresholdAssumption
<1>2. last \in Thresholds \cup {0} /\ bucket \in [Calls -> Thresholds \cup {0}]
  BY DEF TypeOK
<1> QED BY <1>1, <1>2

(* Under the same condition every step of the notifier preserves its       *)
(* invariant.                                                              *)
LEMMA NotifierStep ==
    ASSUME AcquireTime + OperationTime < LockTimeout, LockInv, NotifyInv,
           [Next]_notifierVars
    PROVE  NotifyInv'
<1>0. TypeOK' BY NotifierTypeStep DEF NotifyInv
<1> USE LockAssumption, ThresholdAssumption, ThresholdsAreNumbers
    DEF LockInv, MutualExclusion, Holders, NotifyInv, TypeOK, ReadsFirst,
        AboveLast, Recorded
<1>1. CASE Tick /\ UNCHANGED alertVars
  BY <1>0, <1>1 DEF Tick, alertVars
<1>2. CASE Expire
  BY <1>0, <1>2 DEF Expire, lockVars
<1>3. ASSUME NEW c \in Calls, NEW u \in Usages, Notify(c, u) PROVE NotifyInv'
  BY <1>0, <1>3 DEF Notify, TryAcquire, Go, LockTypeOK
<1>4. ASSUME NEW c \in Calls, Wait(c) PROVE NotifyInv'
  BY <1>0, <1>4 DEF Wait, SetNx, Get, Compare, GetSet, Go, End, alertVars,
                    LockTypeOK
<1>5. ASSUME NEW c \in Calls, ReadLast(c) PROVE NotifyInv'
  BY <1>0, <1>5 DEF ReadLast, lockVars
<1>6. ASSUME NEW c \in Calls, Send(c) PROVE NotifyInv'
  BY <1>0, <1>6 DEF Send, lockVars
<1>7. ASSUME NEW c \in Calls, Record(c) PROVE NotifyInv'
  BY <1>0, <1>7 DEF Record, lockVars
<1>8. ASSUME NEW c \in Calls, RecordFails(c) PROVE NotifyInv'
  BY <1>0, <1>8 DEF RecordFails, lockVars
<1>9. ASSUME NEW c \in Calls, Unlock(c) PROVE NotifyInv'
  BY <1>0, <1>9 DEF Unlock, Release, Del, Go, alertVars, LockTypeOK
<1>10. ASSUME NEW c \in Calls, Stop(c) PROVE NotifyInv'
  BY <1>0, <1>10 DEF Stop, Abandon, Go, End, LockTypeOK
<1>11. CASE UNCHANGED notifierVars
  BY <1>0, <1>11 DEF notifierVars, lockVars, alertVars
<1> QED
  BY <1>1, <1>2, <1>3, <1>4, <1>5, <1>6, <1>7, <1>8, <1>9, <1>10, <1>11 DEF Next

(* The variables of the notifier and its lock have their types, however    *)
(* long calls take.                                                        *)
THEOREM NotifierTypeCorrect == Spec => []TypeOK
<1>1. Init => TypeOK
  BY LockStart DEF Init, TypeOK, LockInv
<1> QED
  BY <1>1, NotifierTypeStep, PTL DEF Spec

(* One call at a time is between acquiring the lock and releasing it, if   *)
(* the lock's timeout is above the time of a call plus the time it takes   *)
(* to acquire the lock: 30 s for a request of at most 15 s and Redis       *)
(* commands that stay below the rest.                                      *)
THEOREM NotifierExcludes ==
    ASSUME AcquireTime + OperationTime < LockTimeout
    PROVE  Spec => []MutualExclusion
<1>1. Init => LockInit
  BY DEF Init
<1>2. LockInv /\ [Next]_notifierVars => LockInv'
  BY LockStep, NotifierLock
<1>3. LockInv => MutualExclusion
  BY DEF LockInv
<1> QED
  BY <1>1, <1>2, <1>3, LockStart, PTL DEF Spec

(* Under the same condition no threshold is notified for twice, as long as *)
(* the alert key has not expired and the calls that sent a message         *)
(* recorded it.                                                            *)
THEOREM NotifiesOnce ==
    ASSUME AcquireTime + OperationTime < LockTimeout
    PROVE  Spec => []NotifiedOnce
<1> DEFINE Inv == LockInv /\ NotifyInv
<1>1. Init => Inv
  <2>1. Init => LockInv BY LockStart DEF Init
  <2>2. Init => NotifyInv
    BY <2>1 DEF Init, LockInit, NotifyInv, LockInv, TypeOK, ReadsFirst, AboveLast,
                Recorded
  <2> QED BY <2>1, <2>2
<1>2. Inv /\ [Next]_notifierVars => Inv'
  BY LockStep, NotifierLock, NotifierStep
<1>3. Inv => NotifiedOnce
  <2> SUFFICES ASSUME Inv, NEW c \in Calls, pc[c] = "held", step[c] = "send",
                      bucket[c] \in notified \ forgotten
               PROVE  FALSE
    BY DEF NotifiedOnce
  <2>1. bucket[c] > last
    BY DEF NotifyInv, AboveLast
  <2> bucket[c] \in Nat /\ last \in Nat
    BY ThresholdsAreNumbers DEF NotifyInv
  <2>2. PICK d \in Calls : pc[d] = "held" /\ step[d] = "record"
    BY <2>1 DEF NotifyInv, Recorded
  <2>3. c = d
    BY <2>2 DEF LockInv, MutualExclusion, Holders
  <2> QED BY <2>2, <2>3
<1> QED
  BY <1>1, <1>2, <1>3, PTL DEF Spec

=============================================================================
