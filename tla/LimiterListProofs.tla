------------------------- MODULE LimiterListProofs -------------------------
(***************************************************************************)
(* What the list operations do to a list without duplicates: used for the  *)
(* limiter and for the queues of UpdateQueue.                              *)
(***************************************************************************)
EXTENDS LimiterList, FiniteSetTheorems, SequenceTheorems, TLAPS

(* Append adds the new element at the end and no other.                    *)
LEMMA AppendFacts ==
    ASSUME NEW S, NEW s \in Seq(S), NEW e \in S
    PROVE  /\ Append(s, e) \in Seq(S)
           /\ Len(Append(s, e)) = Len(s) + 1
           /\ ToSet(Append(s, e)) = ToSet(s) \cup {e}
           /\ (Distinct(s) /\ e \notin ToSet(s)) => Distinct(Append(s, e))
<1>1. /\ Append(s, e) \in Seq(S)
      /\ Len(Append(s, e)) = Len(s) + 1
      /\ \A i \in 1 .. Len(s) : Append(s, e)[i] = s[i]
      /\ Append(s, e)[Len(s) + 1] = e
      /\ Len(s) \in Nat
      /\ DOMAIN s = 1 .. Len(s)
      /\ DOMAIN Append(s, e) = 1 .. Len(s) + 1
  OBVIOUS
<1>2. ToSet(Append(s, e)) = ToSet(s) \cup {e}
  BY <1>1 DEF ToSet
<1>3. (Distinct(s) /\ e \notin ToSet(s)) => Distinct(Append(s, e))
  BY <1>1 DEF ToSet, Distinct
<1> QED BY <1>1, <1>2, <1>3

(* A non-empty list is its head and its tail.                              *)
LEMMA TailFacts ==
    ASSUME NEW S, NEW s \in Seq(S), s # <<>>
    PROVE  /\ Head(s) \in S
           /\ Tail(s) \in Seq(S)
           /\ Len(Tail(s)) = Len(s) - 1
           /\ ToSet(s) = {Head(s)} \cup ToSet(Tail(s))
           /\ Distinct(s) => Head(s) \notin ToSet(Tail(s)) /\ Distinct(Tail(s))
<1>1. /\ Len(s) \in Nat \ {0}
      /\ DOMAIN s = 1 .. Len(s)
      /\ Head(s) = s[1]
      /\ Tail(s) \in Seq(S)
      /\ Len(Tail(s)) = Len(s) - 1
      /\ DOMAIN Tail(s) = 1 .. Len(s) - 1
      /\ \A i \in 1 .. Len(s) - 1 : Tail(s)[i] = s[i + 1]
  OBVIOUS
<1>2. \A i \in 1 .. Len(s) : i = 1 \/ (i - 1 \in 1 .. Len(s) - 1 /\ s[i] = Tail(s)[i - 1])
  BY <1>1
<1>3. ToSet(s) = {Head(s)} \cup ToSet(Tail(s))
  <2>1. /\ ToSet(s) = {s[i] : i \in 1 .. Len(s)}
        /\ ToSet(Tail(s)) = {Tail(s)[i] : i \in 1 .. Len(s) - 1}
    BY <1>1 DEF ToSet
  <2>2. \A e \in ToSet(s) : e \in {Head(s)} \cup ToSet(Tail(s))
    BY <1>1, <1>2, <2>1
  <2>3. \A e \in {Head(s)} \cup ToSet(Tail(s)) : e \in ToSet(s)
    BY <1>1, <2>1
  <2> QED BY <2>2, <2>3
<1>4. Distinct(s) => Head(s) \notin ToSet(Tail(s)) /\ Distinct(Tail(s))
  BY <1>1 DEF ToSet, Distinct
<1>5. Head(s) \in S
  BY <1>1, ElementOfSeq
<1> QED BY <1>1, <1>3, <1>4, <1>5

(* Taking out the element at one index.                                    *)
LEMMA RemoveAtFacts ==
    ASSUME NEW S, NEW s \in Seq(S), NEW k \in 1 .. Len(s)
    PROVE  /\ RemoveAt(s, k) \in Seq(S)
           /\ Len(RemoveAt(s, k)) = Len(s) - 1
           /\ \A j \in 1 .. Len(s) - 1 :
                RemoveAt(s, k)[j] = IF j < k THEN s[j] ELSE s[j + 1]
<1> DEFINE a == SubSeq(s, 1, k - 1)
           b == SubSeq(s, k + 1, Len(s))
<1>0. Len(s) \in Nat
  OBVIOUS
<1>1. /\ a \in Seq(S) /\ Len(a) = k - 1
      /\ \A j \in 1 .. k - 1 : a[j] = s[j]
  BY <1>0, SubSeqProperties
<1>2. /\ b \in Seq(S) /\ Len(b) = Len(s) - k
      /\ \A j \in 1 .. Len(s) - k : b[j] = s[k + j]
  BY <1>0, SubSeqProperties
<1>3. RemoveAt(s, k) = a \o b
  BY DEF RemoveAt
<1> HIDE DEF a, b
<1>4. /\ a \o b \in Seq(S) /\ Len(a \o b) = Len(s) - 1
      /\ \A j \in 1 .. Len(s) - 1 :
            (a \o b)[j] = IF j <= k - 1 THEN a[j] ELSE b[j - (k - 1)]
  <2>1. /\ a \o b \in Seq(S)
        /\ Len(a \o b) = Len(a) + Len(b)
        /\ \A j \in 1 .. Len(a) + Len(b) :
              (a \o b)[j] = IF j <= Len(a) THEN a[j] ELSE b[j - Len(a)]
    BY <1>1, <1>2, ConcatProperties
  <2>2. Len(a) + Len(b) = Len(s) - 1
    BY <1>0, <1>1, <1>2
  <2> QED BY <1>1, <2>1, <2>2
<1>5. ASSUME NEW j \in 1 .. Len(s) - 1
      PROVE  (a \o b)[j] = IF j < k THEN s[j] ELSE s[j + 1]
  <2>1. CASE j < k
    BY <1>0, <1>1, <1>4, <2>1
  <2>2. CASE ~(j < k)
    <3>1. j - (k - 1) \in 1 .. Len(s) - k
      BY <1>0, <2>2
    <3>2. b[j - (k - 1)] = s[k + (j - (k - 1))]
      BY <1>2, <3>1
    <3>3. k + (j - (k - 1)) = j + 1
      OBVIOUS
    <3> QED BY <1>0, <1>4, <2>2, <3>2, <3>3
  <2> QED BY <2>1, <2>2
<1> QED BY <1>3, <1>4, <1>5

(* Without takes out an element and nothing else.                          *)
LEMMA WithoutFacts ==
    ASSUME NEW S, NEW s \in Seq(S), NEW e, Distinct(s)
    PROVE  /\ Without(s, e) \in Seq(S)
           /\ Len(Without(s, e)) <= Len(s)
           /\ ToSet(Without(s, e)) = ToSet(s) \ {e}
           /\ Distinct(Without(s, e))
<1>0. Len(s) \in Nat /\ DOMAIN s = 1 .. Len(s)
  OBVIOUS
<1>1. CASE ~Contains(s, e)
  BY <1>0, <1>1 DEF Without, Contains, ToSet
<1>2. CASE Contains(s, e)
  <2> DEFINE k == CHOOSE i \in DOMAIN s : s[i] = e
             t == RemoveAt(s, k)
  <2>1. k \in 1 .. Len(s) /\ s[k] = e
    BY <1>0, <1>2 DEF Contains
  <2> HIDE DEF k
  <2>2. /\ t \in Seq(S) /\ Len(t) = Len(s) - 1
        /\ \A j \in 1 .. Len(s) - 1 : t[j] = IF j < k THEN s[j] ELSE s[j + 1]
    BY <2>1, RemoveAtFacts
  <2>3. Without(s, e) = t
    BY <1>2 DEF Without, k
  <2> HIDE DEF t
  <2>4. DOMAIN t = 1 .. Len(s) - 1
    BY <2>2
  <2>5. \A i \in 1 .. Len(s) : i # k =>
           \E j \in 1 .. Len(s) - 1 : t[j] = s[i]
    <3> SUFFICES ASSUME NEW i \in 1 .. Len(s), i # k
                 PROVE  \E j \in 1 .. Len(s) - 1 : t[j] = s[i]
      OBVIOUS
    <3>1. CASE i < k
      <4>1. i \in 1 .. Len(s) - 1
        BY <1>0, <2>1, <3>1
      <4> QED BY <2>2, <3>1, <4>1
    <3>2. CASE i > k
      <4>1. i - 1 \in 1 .. Len(s) - 1 /\ ~(i - 1 < k) /\ (i - 1) + 1 = i
        BY <1>0, <2>1, <3>2
      <4> QED BY <2>2, <4>1
    <3> QED BY <1>0, <2>1, <3>1, <3>2
  <2>6. \A j \in 1 .. Len(s) - 1 :
           \E i \in 1 .. Len(s) : i # k /\ t[j] = s[i]
    BY <1>0, <2>1, <2>2
  <2>7. ToSet(t) = ToSet(s) \ {e}
    <3>1. ToSet(s) = {s[i] : i \in 1 .. Len(s)} /\ ToSet(t) = {t[j] : j \in 1 .. Len(s) - 1}
      BY <1>0, <2>4 DEF ToSet
    <3>2. \A i \in 1 .. Len(s) : i # k => s[i] # e
      BY <2>1 DEF Distinct
    <3>3. \A x \in ToSet(s) \ {e} : x \in ToSet(t)
      BY <2>1, <2>5, <3>1
    <3>4. \A x \in ToSet(t) : x \in ToSet(s) \ {e}
      BY <2>6, <3>1, <3>2
    <3> QED BY <3>3, <3>4
  <2>8. Distinct(t)
    BY <1>0, <2>1, <2>2 DEF Distinct
  <2> QED BY <1>0, <2>2, <2>3, <2>7, <2>8
<1> QED BY <1>1, <1>2

(* SetLimit leaves the youngest elements, as many as fit.                  *)
LEMMA WithinLimitFacts ==
    ASSUME NEW S, NEW s \in Seq(S), NEW n \in Int, Distinct(s)
    PROVE  /\ WithinLimit(s, n) \in Seq(S)
           /\ n >= 0 => Len(WithinLimit(s, n)) <= n
           /\ ToSet(WithinLimit(s, n)) \subseteq ToSet(s)
           /\ Distinct(WithinLimit(s, n))
           /\ \A c \in ToSet(s) \ ToSet(WithinLimit(s, n)) :
                /\ Len(WithinLimit(s, n)) = n
                /\ \A i, j \in 1 .. Len(s) :
                     (s[i] \in ToSet(WithinLimit(s, n)) /\ s[j] = c) => j < i
<1>0. Len(s) \in Nat /\ DOMAIN s = 1 .. Len(s)
  OBVIOUS
<1>1. CASE ~(n >= 0 /\ Len(s) > n)
  <2>1. WithinLimit(s, n) = s
    BY <1>1 DEF WithinLimit
  <2>2. n >= 0 => Len(s) <= n
    BY <1>0, <1>1
  <2>3. ToSet(s) \ ToSet(s) = {}
    OBVIOUS
  <2> QED BY <2>1, <2>2, <2>3, Zenon
<1>2. CASE n >= 0 /\ Len(s) > n
  <2> DEFINE d == Len(s) - n
             t == SubSeq(s, d + 1, Len(s))
  <2>1. WithinLimit(s, n) = t
    BY <1>2 DEF WithinLimit
  <2>2. d \in 1 .. Len(s) /\ Len(s) = d + n /\ n \in Nat
    BY <1>0, <1>2
  <2>3. /\ t \in Seq(S) /\ Len(t) = n
        /\ \A j \in 1 .. n : t[j] = s[d + j]
    BY <1>0, <2>2, SubSeqProperties
  <2> HIDE DEF t, d
  <2>4. DOMAIN t = 1 .. n
    BY <2>3
  <2>5. \A j \in 1 .. n : d + j \in 1 .. Len(s)
    BY <2>2
  <2>6. ToSet(s) = {s[i] : i \in 1 .. Len(s)} /\ ToSet(t) = {t[j] : j \in 1 .. n}
    BY <1>0, <2>4 DEF ToSet
  <2>7. ToSet(t) \subseteq ToSet(s)
    BY <2>3, <2>5, <2>6
  <2>8. Distinct(t)
    BY <2>2, <2>3, <2>5 DEF Distinct
  <2>9. \A i \in 1 .. Len(s) : s[i] \in ToSet(t) <=> i > d
    <3> SUFFICES ASSUME NEW i \in 1 .. Len(s)
                 PROVE  s[i] \in ToSet(t) <=> i > d
      OBVIOUS
    <3>1. CASE i > d
      <4>1. i - d \in 1 .. n /\ d + (i - d) = i
        BY <2>2, <3>1
      <4> QED BY <2>3, <2>6, <3>1, <4>1
    <3>2. CASE ~(i > d)
      BY <2>2, <2>3, <2>5, <2>6, <3>2 DEF Distinct
    <3> QED BY <3>1, <3>2
  <2>10. \A c \in ToSet(s) \ ToSet(t) :
            \A i, j \in 1 .. Len(s) : (s[i] \in ToSet(t) /\ s[j] = c) => j < i
    BY <2>2, <2>9
  <2> QED BY <2>1, <2>2, <2>3, <2>7, <2>8, <2>10
<1> QED BY <1>1, <1>2

(* A list has at least as many places as elements.                         *)
LEMMA ToSetCardinality ==
    ASSUME NEW S, NEW s \in Seq(S)
    PROVE  IsFiniteSet(ToSet(s)) /\ Cardinality(ToSet(s)) <= Len(s)
<1>1. Len(s) \in Nat /\ DOMAIN s = 1 .. Len(s)
  OBVIOUS
<1>2. IsFiniteSet(1 .. Len(s)) /\ Cardinality(1 .. Len(s)) = Len(s)
  BY <1>1, FS_Interval
<1>3. s \in Surjection(1 .. Len(s), ToSet(s))
  <2>1. s \in [1 .. Len(s) -> ToSet(s)]
    <3>1. s = [i \in 1 .. Len(s) |-> s[i]]
      BY <1>1
    <3>2. \A i \in 1 .. Len(s) : s[i] \in ToSet(s)
      BY <1>1 DEF ToSet
    <3> QED BY <3>1, <3>2
  <2>2. \A e \in ToSet(s) : \E i \in 1 .. Len(s) : s[i] = e
    BY <1>1 DEF ToSet
  <2> QED BY <2>1, <2>2 DEF Surjection
<1>4. IsFiniteSet(ToSet(s)) /\ Cardinality(ToSet(s)) <= Cardinality(1 .. Len(s))
  BY <1>2, <1>3, FS_Surjection
<1> QED BY <1>2, <1>4

=============================================================================
