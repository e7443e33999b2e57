------------------------ MODULE MutableLimiterProofs ------------------------
(***************************************************************************)
(* The limiter for any number of callers and any limits.                   *)
(***************************************************************************)
EXTENDS MutableLimiter, LimiterListProofs

(* What `do' relies on: its list has no duplicates, holds calls whose      *)
(* cancel was not invoked yet, and is never longer than the limit.         *)
Roles == /\ ToSet(asking) \cap (holding \cup released) = {}
         /\ holding \cap released = {}
         /\ canceled \subseteq holding \cup released

ListSound == /\ Distinct(cancelFuncs)
             /\ Distinct(asking)
             /\ ToSet(cancelFuncs) \subseteq holding
             /\ limit >= 0 => Len(cancelFuncs) <= limit

LimiterInv == /\ TypeOK
              /\ Roles
              /\ ListSound
              /\ CanceledExactlyOutside

LEMMA LimiterInvInit == Init => LimiterInv
<1> SUFFICES ASSUME Init PROVE LimiterInv
  OBVIOUS
<1>1. ToSet(<<>>) = {} /\ Len(<<>>) = 0 /\ <<>> \in Seq(Calls) /\ Distinct(<<>>)
  BY DEF ToSet, Distinct
<1> QED BY <1>1, LimiterAssumption
        DEF Init, LimiterInv, TypeOK, Roles, ListSound, CanceledExactlyOutside

LEMMA LimiterInvStep == LimiterInv /\ [Next]_limiterVars => LimiterInv'
<1> SUFFICES ASSUME LimiterInv, [Next]_limiterVars PROVE LimiterInv'
  OBVIOUS
<1> USE DEF LimiterInv, TypeOK, Roles, ListSound, CanceledExactlyOutside
<1>0. /\ Len(cancelFuncs) \in Nat
      /\ limit \in Int
      /\ \A e \in ToSet(asking) : e \in Calls
      /\ \A e \in ToSet(cancelFuncs) : e \in Calls
  <2>1. Len(cancelFuncs) \in Nat /\ limit \in Int
    BY LimiterAssumption
  <2>2. ASSUME NEW s \in Seq(Calls) PROVE \A e \in ToSet(s) : e \in Calls
    BY ElementOfSeq DEF ToSet
  <2> QED BY <2>1, <2>2
<1>1. CASE Grant
  <2> DEFINE c == Head(asking)
  <2>1. /\ c \in Calls
        /\ Tail(asking) \in Seq(Calls)
        /\ ToSet(asking) = {c} \cup ToSet(Tail(asking))
        /\ c \notin ToSet(Tail(asking)) /\ Distinct(Tail(asking))
    BY <1>1, TailFacts DEF Grant
  <2>2. c \notin holding \cup released /\ c \notin canceled /\ c \notin ToSet(cancelFuncs)
    BY <2>1
  <2>3. /\ cancelFuncs' = Append(cancelFuncs, c)
        /\ holding' = holding \cup {c}
        /\ asking' = Tail(asking)
        /\ limit' = limit
        /\ released' = released /\ parentDone' = parentDone /\ canceled' = canceled
        /\ Len(cancelFuncs) # limit
    BY <1>1 DEF Grant, AtLimit
  <2> HIDE DEF c
  <2>4. /\ cancelFuncs' \in Seq(Calls)
        /\ Len(cancelFuncs') = Len(cancelFuncs) + 1
        /\ ToSet(cancelFuncs') = ToSet(cancelFuncs) \cup {c}
        /\ Distinct(cancelFuncs')
    BY <2>1, <2>2, <2>3, AppendFacts
  <2>5. limit' >= 0 => Len(cancelFuncs') <= limit'
    BY <1>0, <2>3, <2>4
  <2>6. TypeOK'
    BY <2>1, <2>3, <2>4
  <2>7. Roles'
    BY <2>1, <2>2, <2>3
  <2>8. ListSound'
    BY <2>1, <2>3, <2>4, <2>5
  <2>9. CanceledExactlyOutside'
    BY <2>2, <2>3, <2>4
  <2> QED BY <2>6, <2>7, <2>8, <2>9
<1>2. ASSUME NEW n \in Limits, SetLimit(n) PROVE LimiterInv'
  <2>1. n \in Int
    BY LimiterAssumption
  <2>2. /\ cancelFuncs' \in Seq(Calls)
        /\ n >= 0 => Len(cancelFuncs') <= n
        /\ ToSet(cancelFuncs') \subseteq ToSet(cancelFuncs)
        /\ Distinct(cancelFuncs')
    BY <1>2, <2>1, WithinLimitFacts DEF SetLimit
  <2>3. /\ limit' = n
        /\ canceled' = canceled \cup (ToSet(cancelFuncs) \ ToSet(cancelFuncs'))
        /\ asking' = asking /\ holding' = holding
        /\ released' = released /\ parentDone' = parentDone
    BY <1>2 DEF SetLimit
  <2>4. TypeOK'
    BY <1>0, <2>2, <2>3
  <2>5. Roles' /\ ListSound'
    BY <2>2, <2>3
  <2>6. CanceledExactlyOutside'
    BY <2>2, <2>3
  <2> QED BY <2>4, <2>5, <2>6
<1>3. ASSUME NEW c \in Calls, Acquire(c) PROVE LimiterInv'
  <2>1. /\ asking' = Append(asking, c)
        /\ c \notin ToSet(asking) \cup holding \cup released
        /\ UNCHANGED <<limit, cancelFuncs, holding, released, parentDone, canceled>>
    BY <1>3 DEF Acquire, Idle
  <2>2. /\ asking' \in Seq(Calls)
        /\ ToSet(asking') = ToSet(asking) \cup {c}
        /\ Distinct(asking')
    BY <2>1, AppendFacts
  <2> QED BY <2>1, <2>2
<1>4. ASSUME NEW c \in Calls, ParentDone(c) PROVE LimiterInv'
  BY <1>4 DEF ParentDone
<1>5. ASSUME NEW c \in Calls, AcquireFails(c) PROVE LimiterInv'
  <2>1. /\ asking' \in Seq(Calls)
        /\ ToSet(asking') = ToSet(asking) \ {c}
        /\ Distinct(asking')
    BY <1>5, WithoutFacts DEF AcquireFails
  <2> QED BY <1>5, <2>1 DEF AcquireFails
<1>6. ASSUME NEW c \in Calls, Cancel(c) PROVE LimiterInv'
  <2>1. /\ cancelFuncs' \in Seq(Calls)
        /\ Len(cancelFuncs') <= Len(cancelFuncs)
        /\ Len(cancelFuncs') \in Nat
        /\ ToSet(cancelFuncs') = ToSet(cancelFuncs) \ {c}
        /\ Distinct(cancelFuncs')
    BY <1>6, WithoutFacts DEF Cancel
  <2>2. limit' >= 0 => Len(cancelFuncs') <= limit'
    BY <1>0, <1>6, <2>1 DEF Cancel
  <2>3. /\ canceled' = canceled \cup {c}
        /\ holding' = holding \ {c}
        /\ released' = released \cup {c}
        /\ limit' = limit /\ asking' = asking /\ parentDone' = parentDone
        /\ c \in holding \cup released
    BY <1>6 DEF Cancel
  <2> QED BY <2>1, <2>2, <2>3
<1>7. ASSUME NEW c \in Calls, Forget(c) PROVE LimiterInv'
  BY <1>7 DEF Forget
<1>8. CASE UNCHANGED limiterVars
  BY <1>8 DEF limiterVars
<1> QED BY <1>1, <1>2, <1>3, <1>4, <1>5, <1>6, <1>7, <1>8 DEF Next

LEMMA LimiterInvAlways == Spec => []LimiterInv
  BY LimiterInvInit, LimiterInvStep, PTL DEF Spec

(* The variables of the limiter keep their types.                          *)
THEOREM LimiterTypeCorrect == Spec => []TypeOK
<1>1. LimiterInv => TypeOK
  BY DEF LimiterInv
<1> QED BY <1>1, LimiterInvAlways, PTL

(* The goroutine `do' cancels a context exactly when it drops it from its  *)
(* list: for any number of callers, repeated releases included.            *)
THEOREM CanceledAlwaysOutside == Spec => []CanceledExactlyOutside
<1>1. LimiterInv => CanceledExactlyOutside
  BY DEF LimiterInv
<1> QED BY <1>1, LimiterInvAlways, PTL

(* The contexts that are acquired and not done never exceed the limit,     *)
(* although the goroutine only compares with it for equality.              *)
THEOREM LiveAlwaysWithinLimit == Spec => []LiveWithinLimit
<1>1. LimiterInv => LiveWithinLimit
  <2> SUFFICES ASSUME LimiterInv, limit >= 0
               PROVE  Cardinality(Live) <= limit
    BY DEF LiveWithinLimit
  <2>1. Live \subseteq ToSet(cancelFuncs)
    BY DEF Live, LimiterInv, CanceledExactlyOutside
  <2>2. /\ cancelFuncs \in Seq(Calls)
        /\ Len(cancelFuncs) \in Nat /\ Len(cancelFuncs) <= limit
        /\ limit \in Int
    BY LimiterAssumption DEF LimiterInv, TypeOK, ListSound
  <2>3. /\ IsFiniteSet(ToSet(cancelFuncs))
        /\ Cardinality(ToSet(cancelFuncs)) <= Len(cancelFuncs)
    BY <2>2, ToSetCardinality
  <2>4. /\ Cardinality(Live) <= Cardinality(ToSet(cancelFuncs))
        /\ IsFiniteSet(Live)
    BY <2>1, <2>3, FS_Subset
  <2>5. Cardinality(Live) \in Nat /\ Cardinality(ToSet(cancelFuncs)) \in Nat
    BY <2>3, <2>4, FS_CardinalityType
  <2> QED BY <2>2, <2>3, <2>4, <2>5
<1> QED BY <1>1, LimiterInvAlways, PTL

(* SetLimit cancels the oldest contexts, and no more than it has to.       *)
THEOREM OldestAlwaysEvicted == Spec => EvictOldest
<1> DEFINE Evicts ==
      \A c \in Live : (c \in canceled' /\ c \in holding') =>
          /\ Len(cancelFuncs') = limit'
          /\ \A i, j \in 1 .. Len(cancelFuncs) :
               (cancelFuncs[i] \in ToSet(cancelFuncs') /\ cancelFuncs[j] = c)
                 => j < i
<1>1. LimiterInv /\ [Next]_limiterVars => [Evicts]_limiterVars
  <2> SUFFICES ASSUME LimiterInv, Next,
                      NEW c \in Live, c \in canceled', c \in holding'
               PROVE  /\ Len(cancelFuncs') = limit'
                      /\ \A i, j \in 1 .. Len(cancelFuncs) :
                           (/\ cancelFuncs[i] \in ToSet(cancelFuncs')
                            /\ cancelFuncs[j] = c) => j < i
    OBVIOUS
  <2>1. c \notin canceled /\ c \in ToSet(cancelFuncs)
    BY DEF Live, LimiterInv, CanceledExactlyOutside
  <2>2. \E n \in Limits : SetLimit(n)
    BY <2>1 DEF Next, Grant, Acquire, ParentDone, AcquireFails, Cancel, Forget
  <2>3. PICK n \in Limits : SetLimit(n)
    BY <2>2
  <2>4. /\ cancelFuncs \in Seq(Calls) /\ Distinct(cancelFuncs) /\ n \in Int
        /\ cancelFuncs' = WithinLimit(cancelFuncs, n) /\ limit' = n
        /\ c \notin ToSet(cancelFuncs')
    BY <2>1, <2>3, LimiterAssumption
       DEF LimiterInv, TypeOK, ListSound, SetLimit
  <2> QED BY <2>1, <2>4, WithinLimitFacts
<1>2. Spec => [][Evicts]_limiterVars
  BY <1>1, LimiterInvAlways, PTL DEF Spec
<1> QED BY <1>2 DEF EvictOldest

=============================================================================
