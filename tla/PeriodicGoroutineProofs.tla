---------------------- MODULE PeriodicGoroutineProofs ----------------------
(***************************************************************************)
(* The pool of a periodic goroutine, for any sizes of the pool and any     *)
(* schedule of Start, the goroutine of concurrencyUpdates and the workers. *)
(***************************************************************************)
EXTENDS PeriodicGoroutine, FiniteSetTheorems, TLAPS

(* Start drains a pool with a new size in hand.                            *)
SizeInHand == main = "drain" => next \in Concurrencies

(* What concurrencyUpdates sent last, if nobody took it back: it is in the *)
(* channel, in the hands of Start, or the size of the pool.                *)
Latest == IF buffer # NoValue THEN buffer
          ELSE IF main = "drain" THEN next
          ELSE size

(* The newest value of the setting that was seen is never lost on its way  *)
(* to the pool, although forciblyWriteToBufferedChannel throws values away.*)
SettingKept == main # "new" /\ updater # "write" => Latest = prev

-----------------------------------------------------------------------------
LEMMA TypeInit == Init => TypeOK /\ SizeInHand
<1> SUFFICES ASSUME Init PROVE TypeOK /\ SizeInHand
  OBVIOUS
<1>1. 0 \in 0 .. MaxReinvocations - 1
  BY PeriodicAssumption
<1> QED
  BY <1>1 DEF Init, TypeOK, SizeInHand

LEMMA IntervalType ==
    ASSUME TypeOK, NEW w \in Workers, NEW reinvoke \in BOOLEAN,
           NextInterval(w, reinvoke)
    PROVE  /\ \E pc \in {"again", "sleep"} : worker' = [worker EXCEPT ![w] = pc]
           /\ reinvocations' \in 0 .. MaxReinvocations - 1
<1>1. reinvocations \in 0 .. MaxReinvocations - 1 /\ MaxReinvocations \in Nat \ {0}
  BY PeriodicAssumption DEF TypeOK
<1>2. CASE reinvoke /\ reinvocations + 1 < MaxReinvocations
  BY <1>1, <1>2 DEF NextInterval
<1>3. CASE ~(reinvoke /\ reinvocations + 1 < MaxReinvocations)
  BY <1>1, <1>3 DEF NextInterval
<1> QED
  BY <1>2, <1>3

(* What a worker of the pool does concerns itself.                         *)
LEMMA WorkerStep ==
    ASSUME TypeOK, NEW w \in Workers, RunHandlerPeriodically(w)
    PROVE  /\ w \in Pool
           /\ \E pc \in {"off", "handle", "again", "sleep"} :
                 worker' = [worker EXCEPT ![w] = pc]
           /\ reinvocations' \in 0 .. MaxReinvocations - 1
           /\ UNCHANGED <<settingVars, mainVars, updateVars, buffer, canceled>>
<1>t. reinvocations \in 0 .. MaxReinvocations - 1
  BY DEF TypeOK
<1>1. ASSUME NEW reinvoke \in BOOLEAN, Return(w, reinvoke)
      PROVE  /\ w \in Pool
             /\ \E pc \in {"off", "handle", "again", "sleep"} :
                   worker' = [worker EXCEPT ![w] = pc]
             /\ reinvocations' \in 0 .. MaxReinvocations - 1
             /\ UNCHANGED <<settingVars, mainVars, updateVars, buffer, canceled>>
  <2>1. NextInterval(w, reinvoke)
    BY <1>1 DEF Return
  <2> QED
    BY <1>1, <2>1, IntervalType DEF Return, Pool
<1>2. CASE ReturnCanceled(w) \/ Wake(w) \/ Exit(w)
  BY <1>2, <1>t DEF ReturnCanceled, Wake, Exit, Pool
<1> QED
  BY <1>1, <1>2 DEF RunHandlerPeriodically

LEMMA TypeStep ==
    TypeOK /\ SizeInHand /\ [Next]_vars => TypeOK' /\ SizeInHand'
<1> SUFFICES ASSUME TypeOK, SizeInHand, [Next]_vars
             PROVE  TypeOK' /\ SizeInHand'
  OBVIOUS
<1> USE DEF TypeOK, SizeInHand, settingVars, mainVars, updateVars, poolVars
<1>1. ASSUME NEW n \in Concurrencies, Configure(n) PROVE TypeOK' /\ SizeInHand'
  BY <1>1 DEF Configure
<1>2. CASE Stop
  BY <1>2 DEF Stop
<1>3. CASE Start
  BY <1>3 DEF Start
<1>4. CASE Receive
  BY <1>4 DEF Receive, Pool
<1>5. CASE StartPool
  <2>1. PICK new \in SUBSET Workers :
          worker' = [w \in Workers |-> IF w \in new THEN "handle" ELSE "off"]
    BY <1>5 DEF StartPool
  <2> QED
    BY <1>5, <2>1 DEF StartPool
<1>6. CASE LastDrain
  BY <1>6 DEF LastDrain, Pool
<1>7. CASE Drained
  BY <1>7 DEF Drained
<1>8. CASE OnShutdown
  BY <1>8 DEF OnShutdown
<1>9. CASE Recheck
  BY <1>9 DEF Recheck
<1>10. CASE Write
  BY <1>10 DEF Write
<1>11. CASE Pop
  BY <1>11 DEF Pop
<1>12. CASE Close
  BY <1>12 DEF Close
<1>13. ASSUME NEW w \in Workers, RunHandlerPeriodically(w)
       PROVE  TypeOK' /\ SizeInHand'
  <2>1. PICK pc \in {"off", "handle", "again", "sleep"} :
          worker' = [worker EXCEPT ![w] = pc]
    BY <1>13, WorkerStep
  <2>2. /\ reinvocations' \in 0 .. MaxReinvocations - 1
        /\ UNCHANGED <<settingVars, mainVars, updateVars, buffer, canceled>>
    BY <1>13, WorkerStep
  <2> QED
    BY <2>1, <2>2
<1>14. CASE UNCHANGED vars
  BY <1>14 DEF vars
<1> QED
  BY <1>1, <1>2, <1>3, <1>4, <1>5, <1>6, <1>7, <1>8, <1>9, <1>10, <1>11, <1>12,
     <1>13, <1>14
  DEF Next, RunHandlerPool, ConcurrencyUpdates

LEMMA TypeAlways == Spec => [](TypeOK /\ SizeInHand)
  BY TypeInit, TypeStep, PTL DEF Spec

(* Every variable keeps its type; in particular the count of consecutive   *)
(* reinvocations stays below its maximum.                                  *)
THEOREM TypeCorrect == Spec => []TypeOK
  BY TypeAlways, PTL

-----------------------------------------------------------------------------
(* A set of workers is finite.                                             *)
LEMMA SubsetBound ==
    ASSUME NEW S \in SUBSET Workers, NEW T \in SUBSET S
    PROVE  /\ Cardinality(S) \in Nat /\ Cardinality(T) \in Nat
           /\ Cardinality(T) <= Cardinality(S)
<1>1. IsFiniteSet(S)
  BY FS_Subset, PeriodicAssumption
<1>2. IsFiniteSet(T)
  BY <1>1, FS_Subset
<1> QED
  BY <1>1, <1>2, FS_Subset, FS_CardinalityType

(* Workers only start in StartPool, when no other is left.                 *)
LEMMA PoolStep ==
    ASSUME TypeOK, [Next]_vars
    PROVE  \/ Pool' \subseteq Pool /\ UNCHANGED size
           \/ StartPool /\ Cardinality(Pool') = size'
<1> USE DEF settingVars, mainVars, updateVars, poolVars
<1>1. CASE UNCHANGED <<worker, size>>
  BY <1>1 DEF Pool
<1>2. ASSUME NEW w \in Workers, RunHandlerPeriodically(w)
      PROVE  Pool' \subseteq Pool /\ UNCHANGED size
  <2>1. PICK pc : worker' = [worker EXCEPT ![w] = pc]
    BY <1>2, WorkerStep
  <2>2. w \in Pool /\ UNCHANGED size
    BY <1>2, WorkerStep
  <2> QED
    BY <2>1, <2>2 DEF Pool, TypeOK
<1>3. CASE StartPool
  <2>1. PICK new \in SUBSET Workers :
          /\ Cardinality(new) = next
          /\ worker' = [w \in Workers |-> IF w \in new THEN "handle" ELSE "off"]
    BY <1>3 DEF StartPool
  <2>2. Pool' = new
    BY <2>1 DEF Pool
  <2> QED
    BY <1>3, <2>1, <2>2 DEF StartPool
<1> QED
  BY <1>1, <1>2, <1>3
  DEF Next, vars, Configure, Stop, RunHandlerPool, Start, Receive, LastDrain,
      Drained, OnShutdown, ConcurrencyUpdates, Recheck, Write, Pop, Close

(* The handler is never called by more goroutines at once than the size in *)
(* force.                                                                  *)
THEOREM PoolAlwaysWithinSize == Spec => []PoolWithinSize
<1>1. Init => PoolWithinSize
  <2> SUFFICES ASSUME Init PROVE PoolWithinSize
    OBVIOUS
  <2>1. Pool = {} /\ size = 0
    BY DEF Init, Pool
  <2> QED
    BY <2>1, FS_EmptySet DEF PoolWithinSize
<1>2. ASSUME TypeOK, TypeOK', PoolWithinSize, [Next]_vars PROVE PoolWithinSize'
  <2>1. size \in Nat /\ size' \in Nat
    BY <1>2, PeriodicAssumption DEF TypeOK
  <2>2. Pool \in SUBSET Workers /\ Pool' \in SUBSET Workers
    BY DEF Pool
  <2>3. CASE Pool' \subseteq Pool /\ UNCHANGED size
    <3>1. Cardinality(Pool') <= Cardinality(Pool) /\ Cardinality(Pool) \in Nat
             /\ Cardinality(Pool') \in Nat
      BY <2>2, <2>3, SubsetBound
    <3> QED
      BY <1>2, <2>1, <2>3, <3>1 DEF PoolWithinSize
  <2>4. CASE Cardinality(Pool') = size'
    BY <2>1, <2>4 DEF PoolWithinSize
  <2> QED
    BY <1>2, <2>3, <2>4, PoolStep
<1>3. TypeOK /\ TypeOK' /\ PoolWithinSize /\ [Next]_vars => PoolWithinSize'
  BY <1>2
<1> QED
  BY <1>1, <1>3, TypeCorrect, PTL DEF Spec

(* OnShutdown runs after the last call of the handler: once Start is past  *)
(* its last drain no worker is left, and none starts.                      *)
THEOREM AlwaysFinalizedLast == Spec => []FinalizedLast
<1>1. Init => FinalizedLast
  BY DEF Init, FinalizedLast
<1>2. ASSUME TypeOK, FinalizedLast, [Next]_vars PROVE FinalizedLast'
  <2> SUFFICES ASSUME main' \in {"finalize", "finished"} PROVE Pool' = {}
    BY DEF FinalizedLast
  <2>1. Pool = {}
    BY <1>2
    DEF FinalizedLast, Next, vars, Configure, Stop, RunHandlerPool, Start, Receive,
        StartPool, LastDrain, Drained, OnShutdown, ConcurrencyUpdates, Recheck,
        Write, Pop, Close, RunHandlerPeriodically, Return, ReturnCanceled, Wake,
        Exit, settingVars, mainVars, updateVars, poolVars
  <2>2. ~StartPool
    BY DEF StartPool
  <2> QED
    BY <1>2, <2>1, <2>2, PoolStep
<1>3. TypeOK /\ FinalizedLast /\ [Next]_vars => FinalizedLast'
  BY <1>2
<1> QED
  BY <1>1, <1>3, TypeCorrect, PTL DEF Spec

(* The safety half of SettingReached: whatever the schedule, the newest    *)
(* value concurrencyUpdates has sent is in the channel, with Start, or in  *)
(* force.                                                                  *)
THEOREM SettingAlwaysKept == Spec => []SettingKept
<1>1. Init => SettingKept
  BY DEF Init, SettingKept
<1>2. ASSUME TypeOK, SizeInHand, SettingKept, [Next]_vars PROVE SettingKept'
  <2> USE PeriodicAssumption
      DEF SettingKept, Latest, TypeOK, settingVars, mainVars, updateVars, poolVars
  <2>1. CASE UNCHANGED <<main, next, size, updater, prev, buffer>>
    BY <1>2, <2>1
  <2>2. CASE Start
    BY <1>2, <2>2 DEF Start
  <2>3. CASE Receive
    BY <1>2, <2>3 DEF Receive
  <2>4. CASE StartPool
    BY <1>2, <2>4 DEF StartPool
  <2>5. CASE LastDrain \/ Drained \/ OnShutdown
    BY <1>2, <2>5 DEF LastDrain, Drained, OnShutdown
  <2>6. CASE Recheck \/ Write \/ Pop \/ Close
    BY <1>2, <2>6 DEF Recheck, Write, Pop, Close
  <2>7. CASE \/ UNCHANGED vars \/ Stop
             \/ \E n \in Concurrencies : Configure(n)
             \/ \E w \in Workers : RunHandlerPeriodically(w)
    BY <1>2, <2>1, <2>7, WorkerStep DEF vars, Stop, Configure
  <2> QED
    BY <1>2, <2>2, <2>3, <2>4, <2>5, <2>6, <2>7
    DEF Next, RunHandlerPool, ConcurrencyUpdates
<1>3. (TypeOK /\ SizeInHand) /\ SettingKept /\ [Next]_vars => SettingKept'
  BY <1>2
<1> QED
  BY <1>1, <1>3, TypeAlways, PTL DEF Spec

=============================================================================
