-------------------------- MODULE SchedulerProofs --------------------------
(***************************************************************************)
(* Theorems about UpdateQueue and Scheduler, for any repositories, delays, *)
(* limits and updates in flight.  What survives restarts is proved for any *)
(* number of loops; what does not, for a single loop.  What is shown of    *)
(* the queue carries over to the scheduler, because every step of the      *)
(* scheduler is one of the queue's.                                        *)
(***************************************************************************)
EXTENDS Scheduler, LimiterListProofs, WellFoundedInduction

-----------------------------------------------------------------------------
(* The update queue.                                                       *)

QueueType == /\ high \in Seq(Repos) /\ low \in Seq(Repos)
             /\ updating \subseteq Repos
             /\ channel \in Channels /\ notified \subseteq Channels

QueueOK == QueueType /\ OnePlace

-----------------------------------------------------------------------------
(* What each method of updateQueue does to the queue.                      *)
LEMMA EnqueueLowOK ==
    ASSUME QueueOK, NEW r \in Repos, EnqueueLow(r)
    PROVE  /\ QueueOK'
           /\ updating' = updating /\ channel' = channel
           /\ notified \subseteq notified'
           /\ Waiting' = Waiting \/ channel \in notified'
<1> USE DEF QueueOK, QueueType, OnePlace, Waiting
<1>1. CASE r \in Waiting \cup updating
  BY <1>1 DEF EnqueueLow
<1>2. CASE r \notin Waiting \cup updating
  <2>1. /\ low' = Append(low, r) /\ high' = high
        /\ updating' = updating /\ channel' = channel
        /\ notified' = notified \cup {channel}
    BY <1>2 DEF EnqueueLow, Notify
  <2>2. /\ low' \in Seq(Repos)
        /\ ToSet(low') = ToSet(low) \cup {r}
        /\ Distinct(low')
    BY <1>2, <2>1, AppendFacts
  <2> QED BY <1>2, <2>1, <2>2
<1> QED BY <1>1, <1>2

LEMMA EnqueueHighOK ==
    ASSUME QueueOK, NEW r \in Repos, EnqueueHigh(r)
    PROVE  /\ QueueOK'
           /\ updating' = updating /\ channel' = channel
           /\ notified \subseteq notified'
           /\ Waiting' = Waiting \/ channel \in notified'
<1> USE DEF QueueOK, QueueType, OnePlace, Waiting
<1>1. CASE r \in ToSet(high) \cup updating
  BY <1>1 DEF EnqueueHigh
<1>2. CASE r \notin ToSet(high) \cup updating
  <2>1. /\ high' = Append(high, r) /\ low' = Without(low, r)
        /\ updating' = updating /\ channel' = channel
        /\ notified' = notified \cup {channel}
    BY <1>2 DEF EnqueueHigh, Notify
  <2>2. /\ high' \in Seq(Repos)
        /\ ToSet(high') = ToSet(high) \cup {r}
        /\ Distinct(high')
    BY <1>2, <2>1, AppendFacts
  <2>3. /\ low' \in Seq(Repos)
        /\ ToSet(low') = ToSet(low) \ {r}
        /\ Distinct(low')
    BY <2>1, WithoutFacts
  <2> QED BY <1>2, <2>1, <2>2, <2>3
<1> QED BY <1>1, <1>2

(* Both lists without one repository: remove and acquireNext.              *)
LEMMA WithoutBothOK ==
    ASSUME QueueOK, NEW r, high' = Without(high, r), low' = Without(low, r)
    PROVE  /\ high' \in Seq(Repos) /\ low' \in Seq(Repos)
           /\ Distinct(high') /\ Distinct(low')
           /\ ToSet(high') = ToSet(high) \ {r}
           /\ ToSet(low') = ToSet(low) \ {r}
           /\ Waiting' = Waiting \ {r}
<1>1. /\ high' \in Seq(Repos) /\ ToSet(high') = ToSet(high) \ {r}
      /\ Distinct(high')
  BY WithoutFacts DEF QueueOK, QueueType, OnePlace
<1>2. /\ low' \in Seq(Repos) /\ ToSet(low') = ToSet(low) \ {r}
      /\ Distinct(low')
  BY WithoutFacts DEF QueueOK, QueueType, OnePlace
<1> QED BY <1>1, <1>2 DEF Waiting

LEMMA RemoveWaitingOK ==
    ASSUME QueueOK, NEW r, RemoveWaiting(r)
    PROVE  /\ QueueOK'
           /\ UNCHANGED <<updating, channel, notified>>
           /\ Waiting' \subseteq Waiting
<1>1. /\ UNCHANGED <<updating, channel, notified>>
      /\ high' = Without(high, r) /\ low' = Without(low, r)
  BY DEF RemoveWaiting
<1> QED BY <1>1, WithoutBothOK DEF QueueOK, QueueType, OnePlace, Waiting

LEMMA AcquireTopOK ==
    ASSUME QueueOK, Waiting # {}, AcquireTop
    PROVE  /\ QueueOK'
           /\ Top \in Repos /\ Top \in Waiting /\ Top \notin updating
           /\ updating' = updating \cup {Top}
           /\ UNCHANGED <<channel, notified>>
<1>1. Top \in Repos /\ Top \in Waiting
  <2>1. CASE high # <<>>
    <3>1. Head(high) \in Repos /\ Head(high) \in ToSet(high)
      BY <2>1, TailFacts DEF QueueOK, QueueType
    <3> QED BY <2>1, <3>1 DEF Top, Waiting
  <2>2. CASE high = <<>>
    <3>1. ToSet(high) = {} /\ ToSet(<<>>) = {}
      BY <2>2 DEF ToSet
    <3>2. low # <<>>
      BY <3>1 DEF Waiting
    <3>3. Head(low) \in Repos /\ Head(low) \in ToSet(low)
      BY <3>2, TailFacts DEF QueueOK, QueueType
    <3> QED BY <2>2, <3>3 DEF Top, Waiting
  <2> QED BY <2>1, <2>2
<1>2. Top \notin updating
  BY <1>1 DEF QueueOK, OnePlace
<1>3. /\ high' = Without(high, Top) /\ low' = Without(low, Top)
      /\ updating' = updating \cup {Top}
      /\ UNCHANGED <<channel, notified>>
  BY DEF AcquireTop
<1>4. /\ high' \in Seq(Repos) /\ low' \in Seq(Repos)
      /\ Distinct(high') /\ Distinct(low')
      /\ ToSet(high') = ToSet(high) \ {Top}
      /\ ToSet(low') = ToSet(low) \ {Top}
      /\ Waiting' = Waiting \ {Top}
  BY <1>3, WithoutBothOK
<1>5. QueueType'
  BY <1>1, <1>3, <1>4 DEF QueueOK, QueueType
<1>6. OnePlace'
  BY <1>3, <1>4 DEF QueueOK, OnePlace
<1> QED BY <1>1, <1>2, <1>3, <1>5, <1>6 DEF QueueOK

-----------------------------------------------------------------------------
(* A lease belongs to one loop's limiter, and to a goroutine of that loop; *)
(* a loop that was not started has none.                                   *)
LeasesOK ==
    \A l \in Loops :
        /\ Distinct(leases[l])
        /\ Len(leases[l]) <= limit[l]
        /\ \A u \in ToSet(leases[l]) : update[u].pc # "none" /\ update[u].loop = l
        /\ l > loop => pc[l] = "off" /\ leases[l] = <<>>

QInv == TypeOK /\ OnePlace /\ LeasesOK

LEMMA QInvInit == Init => QInv
<1> SUFFICES ASSUME Init PROVE QInv
  OBVIOUS
<1>1. ToSet(<<>>) = {} /\ Len(<<>>) = 0 /\ Distinct(<<>>)
  BY DEF ToSet, Distinct
<1>2. TypeOK
  BY QueueAssumption DEF Init, TypeOK, Loops, Channels, Idle
<1>3. OnePlace
  BY <1>1 DEF Init, OnePlace, Waiting
<1>4. LeasesOK
  BY <1>1, QueueAssumption DEF Init, LeasesOK, Loops
<1> QED BY <1>2, <1>3, <1>4 DEF QInv


(* TypeOK without the queue.                                               *)
LoopType == /\ loop \in Loops
            /\ pc \in [Loops -> {"off", "top", "wait", "acquire", "next", "done"}]
            /\ reading \in [Loops -> Channels]
            /\ limit \in [Loops -> Limits]
            /\ leases \in [Loops -> Seq(Slots)]

UpdateType == /\ update \in [Slots -> [pc   : {"none", "held", "request",
                                             "remove", "cancel"},
                                     repo : Repos \cup {NoRepo},
                                     loop : Loops]]
              /\ \A u \in Slots : (update[u].repo = NoRepo)
                                   <=> (update[u].pc \in {"none", "held"})

LEMMA TypeParts == TypeOK <=> QueueType /\ LoopType /\ UpdateType
  BY DEF TypeOK, QueueType, LoopType, UpdateType

LEMMA LimitNat ==
    ASSUME LoopType, NEW l \in Loops
    PROVE  limit[l] \in Nat /\ Len(leases[l]) \in Nat
<1>1. limit[l] \in Limits /\ leases[l] \in Seq(Slots)
  BY DEF LoopType
<1>2. limit[l] \in Nat
  BY <1>1, QueueAssumption, Zenon
<1>3. Len(leases[l]) \in Nat
  BY <1>1, LenProperties
<1> QED BY <1>2, <1>3

(* A context that is given back leaves the list of its own limiter.        *)
LEMMA ReleaseOK ==
    ASSUME LoopType, UpdateType, LeasesOK,
           NEW u \in Slots, NEW l \in Loops, update[u].loop = l,
           Release(l, u), UNCHANGED <<loop, limit>>,
           \A k \in Loops : k > loop => pc'[k] = pc[k]
    PROVE  /\ leases' \in [Loops -> Seq(Slots)]
           /\ UpdateType'
           /\ LeasesOK'
<1>1. /\ leases' = [leases EXCEPT ![l] = Without(leases[l], u)]
      /\ update' = [update EXCEPT ![u] = Idle]
  BY DEF Release
<1>2. leases[l] \in Seq(Slots) /\ Distinct(leases[l])
  BY DEF LoopType, LeasesOK
<1>3. /\ Without(leases[l], u) \in Seq(Slots)
      /\ Len(Without(leases[l], u)) <= Len(leases[l])
      /\ ToSet(Without(leases[l], u)) = ToSet(leases[l]) \ {u}
      /\ Distinct(Without(leases[l], u))
  BY <1>2, WithoutFacts
<1>4. leases' \in [Loops -> Seq(Slots)]
  BY <1>1, <1>3 DEF LoopType
<1>5. UpdateType'
  BY <1>1, QueueAssumption DEF UpdateType, Idle, Loops
<1>6. LeasesOK'
  <2> SUFFICES ASSUME NEW k \in Loops
               PROVE  /\ Distinct(leases'[k])
                      /\ Len(leases'[k]) <= limit'[k]
                      /\ \A v \in ToSet(leases'[k]) :
                            update'[v].pc # "none" /\ update'[v].loop = k
                      /\ k > loop' => pc'[k] = "off" /\ leases'[k] = <<>>
    BY DEF LeasesOK
  <2>0. \A j \in Loops : \A v \in ToSet(leases[j]) : v \in Slots
    BY ElementOfSeq DEF ToSet, LoopType
  <2>1. CASE k = l
    <3>1. leases'[k] = Without(leases[l], u)
      BY <1>1, <2>1 DEF LoopType
    <3>2. \A v \in ToSet(leases'[k]) : update'[v] = update[v]
      BY <1>1, <1>3, <2>0, <2>1, <3>1 DEF UpdateType
    <3>3. Len(leases'[k]) <= limit'[k]
      <4>1. /\ Len(leases[l]) \in Nat /\ Len(Without(leases[l], u)) \in Nat
            /\ limit[l] \in Nat /\ limit' = limit
        BY <1>3, LimitNat, LenProperties
      <4> QED BY <1>3, <2>1, <3>1, <4>1 DEF LeasesOK
    <3>4. k > loop' => pc'[k] = "off" /\ leases'[k] = <<>>
      <4>1. k > loop => leases[l] = <<>> /\ pc[k] = "off"
        BY <2>1 DEF LeasesOK
      <4>2. Without(<<>>, u) = <<>>
        BY DEF Without, Contains
      <4> QED BY <2>1, <3>1, <4>1, <4>2
    <3> QED BY <1>3, <2>1, <3>1, <3>2, <3>3, <3>4 DEF LeasesOK
  <2>2. CASE k # l
    <3>1. leases'[k] = leases[k]
      BY <1>1, <2>2 DEF LoopType
    <3>2. u \notin ToSet(leases[k])
      BY <2>2 DEF LeasesOK
    <3>3. \A v \in ToSet(leases[k]) : update'[v] = update[v]
      BY <1>1, <2>0, <3>2 DEF UpdateType
    <3> QED BY <3>1, <3>3 DEF LeasesOK
  <2> QED BY <2>1, <2>2
<1> QED BY <1>4, <1>5, <1>6

LEMMA QInvStep == QInv /\ [Next]_vars => QInv'
<1> SUFFICES ASSUME QInv, [Next]_vars PROVE QInv'
  OBVIOUS
<1>0. QueueOK /\ QueueType /\ OnePlace /\ LoopType /\ UpdateType /\ LeasesOK
  BY TypeParts DEF QInv, QueueOK
<1>a. ASSUME QueueOK', LoopType', UpdateType', LeasesOK' PROVE QInv'
  BY <1>a, TypeParts DEF QInv, QueueOK, TypeOK, QueueType, LoopType, UpdateType
<1>b. ASSUME UNCHANGED queueVars PROVE QueueOK'
  BY <1>0, <1>b DEF queueVars, QueueOK, QueueType, OnePlace, Waiting
<1>c. ASSUME UNCHANGED <<loopVars, limit, leases, update>>
      PROVE  LoopType' /\ UpdateType' /\ LeasesOK'
  BY <1>0, <1>c DEF loopVars, LoopType, UpdateType, LeasesOK
<1>d. \A j \in Loops : \A v \in ToSet(leases[j]) : v \in Slots
  BY <1>0, ElementOfSeq DEF ToSet, LoopType
<1>e. ASSUME NEW l \in Loops, pc[l] # "off" PROVE l <= loop
  BY <1>0, <1>e DEF LeasesOK, LoopType, Loops
(* A step of a loop that only moves its pc.                                *)
<1>f. ASSUME NEW l \in Loops, pc[l] # "off",
             NEW s \in {"top", "wait", "acquire", "next", "done"},
             pc' = [pc EXCEPT ![l] = s],
             UNCHANGED <<loop, limit, leases, update>>
      PROVE  UpdateType' /\ LeasesOK' /\ pc' \in [Loops -> {"off", "top", "wait", "acquire", "next", "done"}]
  <2>1. \A k \in Loops : k > loop => pc'[k] = pc[k]
    BY <1>0, <1>e, <1>f DEF LoopType, Loops
  <2> QED BY <1>0, <1>f, <2>1 DEF UpdateType, LeasesOK, LoopType
<1>1. ASSUME NEW r \in Repos, UpdateOnce(r) PROVE QInv'
  BY <1>0, <1>1, <1>a, <1>c, EnqueueHighOK DEF UpdateOnce
<1>2. ASSUME NEW r \in Repos, Schedule(r) PROVE QInv'
  BY <1>0, <1>2, <1>a, <1>c, EnqueueLowOK DEF Schedule
<1>3. ASSUME NEW r \in Repos, Unschedule(r) PROVE QInv'
  BY <1>0, <1>3, <1>a, <1>c, RemoveWaitingOK DEF Unschedule
<1>4. ASSUME NEW l \in Loops, Select(l) PROVE QInv'
  <2>1. UpdateType' /\ LeasesOK' /\ LoopType'
    <3>1. reading' \in [Loops -> Channels] /\ loop' = loop /\ limit' = limit
      BY <1>0, <1>4 DEF Select, LoopType, QueueType
    <3> QED BY <1>0, <1>4, <1>f, <3>1 DEF Select, LoopType
  <2> QED BY <1>4, <1>a, <1>b, <2>1 DEF Select
<1>5. ASSUME NEW l \in Loops, Receive(l) PROVE QInv'
  <2>1. UpdateType' /\ LeasesOK' /\ LoopType'
    <3>1. reading' \in [Loops -> Channels] /\ loop' = loop /\ limit' = limit
      BY <1>0, <1>5 DEF Receive, LoopType, Channels
    <3> QED BY <1>0, <1>5, <1>f, <3>1 DEF Receive, LoopType
  <2>2. QueueOK'
    BY <1>0, <1>5 DEF Receive, QueueOK, QueueType, OnePlace, Waiting
  <2> QED BY <1>a, <2>1, <2>2
<1>6. ASSUME NEW l \in Loops, Shutdown(l) PROVE QInv'
  <2>1. UpdateType' /\ LeasesOK' /\ LoopType'
    <3>1. reading' \in [Loops -> Channels] /\ loop' = loop /\ limit' = limit
      BY <1>0, <1>6 DEF Shutdown, LoopType, Channels
    <3> QED BY <1>0, <1>6, <1>f, <3>1 DEF Shutdown, LoopType
  <2>2. QueueOK'
    <3>1. ToSet(<<>>) = {} /\ Distinct(<<>>)
      BY DEF ToSet, Distinct
    <3>2. notified' \subseteq notified
      BY <1>6 DEF Shutdown, Reset
    <3>3. channel' \in Channels
      BY <1>0, <1>6 DEF Shutdown, Reset, QueueOK, QueueType, Channels
    <3>4. high' = <<>> /\ low' = <<>> /\ updating' = {}
      BY <1>6 DEF Shutdown, Reset
    <3> QED BY <1>0, <3>1, <3>2, <3>3, <3>4
            DEF QueueOK, QueueType, OnePlace, Waiting
  <2> QED BY <1>a, <2>1, <2>2
<1>7. ASSUME NEW l \in Loops, Acquire(l) PROVE QInv'
  <2>1. PICK u \in Slots :
           /\ update[u].pc = "none"
           /\ leases' = [leases EXCEPT ![l] = Append(leases[l], u)]
           /\ update' = [update EXCEPT ![u].pc = "held", ![u].loop = l]
    BY <1>7 DEF Acquire
  <2>2. /\ pc[l] = "acquire" /\ Len(leases[l]) # limit[l]
        /\ pc' = [pc EXCEPT ![l] = "next"]
        /\ UNCHANGED <<queueVars, loop, reading, limit>>
    BY <1>7 DEF Acquire, AtLimit
  <2>3. leases[l] \in Seq(Slots) /\ Distinct(leases[l]) /\ u \notin ToSet(leases[l])
    BY <1>0, <2>1 DEF LoopType, LeasesOK
  <2>4. /\ Append(leases[l], u) \in Seq(Slots)
        /\ Len(Append(leases[l], u)) = Len(leases[l]) + 1
        /\ ToSet(Append(leases[l], u)) = ToSet(leases[l]) \cup {u}
        /\ Distinct(Append(leases[l], u))
    BY <2>3, AppendFacts
  <2>5. LoopType'
    BY <1>0, <2>1, <2>2, <2>4 DEF LoopType
  <2>6. /\ update'[u].pc = "held" /\ update'[u].loop = l
        /\ update'[u].repo = update[u].repo
        /\ \A v \in Slots \ {u} : update'[v] = update[v]
    BY <1>0, <2>1 DEF UpdateType
  <2>7. UpdateType'
    BY <1>0, <2>1, <2>6 DEF UpdateType
  <2>8. LeasesOK'
    <3> SUFFICES ASSUME NEW k \in Loops
                 PROVE  /\ Distinct(leases'[k])
                        /\ Len(leases'[k]) <= limit'[k]
                        /\ \A v \in ToSet(leases'[k]) :
                              update'[v].pc # "none" /\ update'[v].loop = k
                        /\ k > loop' => pc'[k] = "off" /\ leases'[k] = <<>>
      BY DEF LeasesOK
    <3>1. CASE k = l
      <4>1. leases'[k] = Append(leases[l], u)
        BY <1>0, <2>1, <3>1 DEF LoopType
      <4>2. Len(leases'[k]) <= limit'[k]
        <5>1. Len(leases[l]) \in Nat /\ limit[l] \in Nat /\ limit' = limit
          BY <1>0, <2>2, LimitNat
        <5>2. Len(leases[l]) <= limit[l]
          BY <1>0 DEF LeasesOK
        <5> QED BY <2>2, <2>4, <3>1, <4>1, <5>1, <5>2
      <4>3. ~(k > loop')
        BY <1>0, <1>e, <2>2, <3>1 DEF LoopType, Loops
      <4>4. \A v \in ToSet(leases'[k]) : update'[v].pc # "none" /\ update'[v].loop = k
        <5> SUFFICES ASSUME NEW v \in ToSet(leases[l]) \cup {u}
                     PROVE  update'[v].pc # "none" /\ update'[v].loop = l
          BY <2>4, <3>1, <4>1
        <5>1. CASE v = u
          BY <2>6, <5>1
        <5>2. CASE v # u
          <6>1. v \in ToSet(leases[l]) /\ v \in Slots
            BY <1>d, <5>2
          <6>2. update'[v] = update[v]
            BY <2>6, <5>2, <6>1
          <6> QED BY <1>0, <6>1, <6>2 DEF LeasesOK
        <5> QED BY <5>1, <5>2
      <4> QED BY <2>4, <4>1, <4>2, <4>3, <4>4
    <3>2. CASE k # l
      <4>1. leases'[k] = leases[k] /\ pc'[k] = pc[k]
        BY <1>0, <2>1, <2>2, <3>2 DEF LoopType
      <4>2. u \notin ToSet(leases[k])
        BY <1>0, <2>1 DEF LeasesOK
      <4>3. \A v \in ToSet(leases[k]) : update'[v] = update[v]
        BY <1>d, <2>6, <4>2
      <4> QED BY <1>0, <2>2, <4>1, <4>3 DEF LeasesOK
    <3> QED BY <3>1, <3>2
  <2> QED BY <1>a, <1>b, <2>2, <2>5, <2>7, <2>8
<1>8. ASSUME NEW l \in Loops, AcquireFails(l) PROVE QInv'
  <2>1. UpdateType' /\ LeasesOK' /\ LoopType'
    BY <1>0, <1>8, <1>f DEF AcquireFails, LoopType
  <2> QED BY <1>8, <1>a, <1>b, <2>1 DEF AcquireFails
(* A goroutine moves on and keeps its loop and its lease.                  *)
<1>g. ASSUME NEW u \in Slots, update[u].pc # "none",
             \A v \in Slots : update'[v].loop = update[v].loop,
             \A v \in Slots : update[v].pc # "none" => update'[v].pc # "none",
             \A k \in Loops : k > loop => pc'[k] = pc[k],
             UNCHANGED <<loop, limit, leases>>
      PROVE  LeasesOK'
  BY <1>0, <1>d, <1>g DEF LeasesOK
<1>9. ASSUME NEW l \in Loops, NEW u \in Slots, Start(l, u) PROVE QInv'
  <2>1. /\ pc[l] = "next" /\ update[u].pc = "held"
        /\ update' = [update EXCEPT ![u].pc = "request", ![u].repo = Top]
        /\ pc' = [pc EXCEPT ![l] = "acquire"]
        /\ UNCHANGED <<loop, reading, limit, leases>>
    BY <1>9 DEF Start
  <2>2. QueueOK' /\ Top \in Repos
    BY <1>0, <1>9, AcquireTopOK DEF Start
  <2>3. /\ update'[u].pc = "request" /\ update'[u].repo = Top
        /\ update'[u].loop = update[u].loop
        /\ \A v \in Slots \ {u} : update'[v] = update[v]
    BY <1>0, <2>1 DEF UpdateType
  <2>4. UpdateType'
    BY <1>0, <2>1, <2>2, <2>3, QueueAssumption DEF UpdateType
  <2>5. LoopType'
    BY <1>0, <2>1 DEF LoopType
  <2>6. \A k \in Loops : k > loop => pc'[k] = pc[k]
    BY <1>0, <1>e, <2>1 DEF LoopType, Loops
  <2>7. LeasesOK'
    BY <1>g, <2>1, <2>3, <2>6
  <2> QED BY <1>a, <2>2, <2>4, <2>5, <2>7
<1>10. ASSUME NEW l \in Loops, NEW u \in Slots, Drained(l, u) PROVE QInv'
  <2>1. /\ pc[l] = "next" /\ update[u].loop = l
        /\ Release(l, u)
        /\ pc' = [pc EXCEPT ![l] = "top"]
        /\ UNCHANGED <<queueVars, loop, reading, limit>>
    BY <1>10 DEF Drained
  <2>2. l <= loop /\ \A k \in Loops : k > loop => pc'[k] = pc[k]
    BY <1>0, <1>e, <2>1 DEF LoopType, Loops
  <2>3. leases' \in [Loops -> Seq(Slots)] /\ UpdateType' /\ LeasesOK'
    BY <1>0, <2>1, <2>2, ReleaseOK
  <2>4. LoopType'
    BY <1>0, <2>1, <2>3 DEF LoopType
  <2> QED BY <1>a, <1>b, <2>1, <2>3, <2>4
<1>11. ASSUME NEW u \in Slots, Respond(u) PROVE QInv'
  <2>1. /\ update[u].pc = "request"
        /\ update' = [update EXCEPT ![u].pc = "remove"]
        /\ UNCHANGED <<queueVars, loopVars, limit, leases>>
    BY <1>11 DEF Respond
  <2>2. /\ update'[u].pc = "remove" /\ update'[u].repo = update[u].repo
        /\ update'[u].loop = update[u].loop
        /\ \A v \in Slots \ {u} : update'[v] = update[v]
    BY <1>0, <2>1 DEF UpdateType
  <2>3. UpdateType'
    BY <1>0, <2>1, <2>2 DEF UpdateType
  <2>4. LoopType' /\ LeasesOK'
    BY <1>0, <1>g, <2>1, <2>2 DEF LoopType, loopVars
  <2> QED BY <1>a, <1>b, <2>1, <2>3, <2>4
<1>12. ASSUME NEW u \in Slots, Finish(u) PROVE QInv'
  <2>1. /\ update[u].pc = "remove"
        /\ RemoveUpdating(update[u].repo)
        /\ update' = [update EXCEPT ![u].pc = "cancel"]
        /\ UNCHANGED <<loopVars, limit, leases>>
    BY <1>12 DEF Finish
  <2>2. /\ update'[u].pc = "cancel" /\ update'[u].repo = update[u].repo
        /\ update'[u].loop = update[u].loop
        /\ \A v \in Slots \ {u} : update'[v] = update[v]
    BY <1>0, <2>1 DEF UpdateType
  <2>3. UpdateType'
    BY <1>0, <2>1, <2>2 DEF UpdateType
  <2>4. LoopType' /\ LeasesOK'
    BY <1>0, <1>g, <2>1, <2>2 DEF LoopType, loopVars
  <2>5. QueueOK'
    BY <1>0, <2>1 DEF RemoveUpdating, QueueOK, QueueType, OnePlace, Waiting
  <2> QED BY <1>a, <2>3, <2>4, <2>5
<1>13. ASSUME NEW u \in Slots, Cancel(u) PROVE QInv'
  <2>1. /\ update[u].pc = "cancel"
        /\ Release(update[u].loop, u)
        /\ UNCHANGED <<queueVars, loopVars, limit>>
    BY <1>13 DEF Cancel
  <2>2. update[u].loop \in Loops
    BY <1>0 DEF UpdateType
  <2>4. leases' \in [Loops -> Seq(Slots)] /\ UpdateType' /\ LeasesOK'
    BY <1>0, <2>1, <2>2, ReleaseOK DEF loopVars
  <2>5. LoopType'
    BY <1>0, <2>1, <2>4 DEF LoopType, loopVars
  <2> QED BY <1>a, <1>b, <2>1, <2>4, <2>5
<1>14. ASSUME NEW l \in Loops, NEW n \in Limits, SetLimit(l, n) PROVE QInv'
  <2>1. /\ pc[l] # "off"
        /\ limit' = [limit EXCEPT ![l] = n]
        /\ leases' = [leases EXCEPT ![l] = WithinLimit(leases[l], n)]
        /\ UNCHANGED <<queueVars, loopVars, update>>
    BY <1>14 DEF SetLimit
  <2>2. leases[l] \in Seq(Slots) /\ Distinct(leases[l]) /\ n \in Nat
    BY <1>0, QueueAssumption DEF LoopType, LeasesOK
  <2>3. /\ WithinLimit(leases[l], n) \in Seq(Slots)
        /\ Len(WithinLimit(leases[l], n)) <= n
        /\ ToSet(WithinLimit(leases[l], n)) \subseteq ToSet(leases[l])
        /\ Distinct(WithinLimit(leases[l], n))
    BY <2>2, WithinLimitFacts
  <2>4. LoopType'
    BY <1>0, <2>1, <2>3 DEF LoopType, loopVars
  <2>5. UpdateType'
    BY <1>0, <2>1 DEF UpdateType
  <2>6. l <= loop
    BY <1>e, <2>1
  <2>7. LeasesOK'
    <3> SUFFICES ASSUME NEW k \in Loops
                 PROVE  /\ Distinct(leases'[k])
                        /\ Len(leases'[k]) <= limit'[k]
                        /\ \A v \in ToSet(leases'[k]) :
                              update'[v].pc # "none" /\ update'[v].loop = k
                        /\ k > loop' => pc'[k] = "off" /\ leases'[k] = <<>>
      BY DEF LeasesOK
    <3>1. CASE k = l
      <4>1. leases'[k] = WithinLimit(leases[l], n) /\ limit'[k] = n
        BY <1>0, <2>1, <3>1 DEF LoopType
      <4>2. ~(k > loop')
        BY <1>0, <2>1, <2>6, <3>1 DEF LoopType, Loops, loopVars
      <4> QED BY <1>0, <2>1, <2>3, <3>1, <4>1, <4>2 DEF LeasesOK
    <3>2. CASE k # l
      <4>1. leases'[k] = leases[k] /\ limit'[k] = limit[k]
        BY <1>0, <2>1, <3>2 DEF LoopType
      <4> QED BY <1>0, <2>1, <4>1 DEF LeasesOK, loopVars
    <3> QED BY <3>1, <3>2
  <2> QED BY <1>a, <1>b, <2>1, <2>4, <2>5, <2>7
<1>15. ASSUME NEW n \in Limits, Restart(n) PROVE QInv'
  <2>1. /\ loop < MaxLoops /\ loop' = loop + 1
        /\ pc' = [pc EXCEPT ![loop + 1] = "top"]
        /\ limit' = [limit EXCEPT ![loop + 1] = n]
        /\ UNCHANGED <<queueVars, reading, leases, update>>
    BY <1>15 DEF Restart
  <2>2. loop \in Nat /\ loop + 1 \in Loops /\ n \in Nat
    BY <1>0, <2>1, QueueAssumption DEF LoopType, Loops
  <2>3. LoopType'
    BY <1>0, <2>1, <2>2 DEF LoopType
  <2>4. UpdateType'
    BY <1>0, <2>1 DEF UpdateType
  <2>5. LeasesOK'
    <3> SUFFICES ASSUME NEW k \in Loops
                 PROVE  /\ Distinct(leases'[k])
                        /\ Len(leases'[k]) <= limit'[k]
                        /\ \A v \in ToSet(leases'[k]) :
                              update'[v].pc # "none" /\ update'[v].loop = k
                        /\ k > loop' => pc'[k] = "off" /\ leases'[k] = <<>>
      BY DEF LeasesOK
    <3>1. CASE k = loop + 1
      <4>1. leases'[k] = <<>> /\ limit'[k] = n /\ ~(k > loop')
        BY <1>0, <2>1, <2>2, <3>1 DEF LoopType, LeasesOK
      <4>2. ToSet(<<>>) = {} /\ Len(<<>>) = 0 /\ Distinct(<<>>)
        BY DEF ToSet, Distinct
      <4> QED BY <2>2, <4>1, <4>2
    <3>2. CASE k # loop + 1
      <4>1. /\ leases'[k] = leases[k] /\ limit'[k] = limit[k]
            /\ pc'[k] = pc[k] /\ (k > loop' => k > loop)
        BY <1>0, <2>1, <2>2, <3>2 DEF LoopType, Loops
      <4> QED BY <1>0, <2>1, <4>1 DEF LeasesOK
    <3> QED BY <3>1, <3>2
  <2> QED BY <1>a, <1>b, <2>1, <2>3, <2>4, <2>5
<1>16. CASE UNCHANGED vars
  BY <1>16, <1>a, <1>b, <1>c DEF vars
<1> QED
  BY <1>1, <1>2, <1>3, <1>4, <1>5, <1>6, <1>7, <1>8, <1>9, <1>10, <1>11,
     <1>12, <1>13, <1>14, <1>15, <1>16
     DEF Next, Callers, RunUpdateLoop, RunUpdate

LEMMA QInvAlways == Spec => []QInv
  BY QInvInit, QInvStep, PTL DEF Spec

(* The variables of the queue, the loops and the updates keep their types, *)
(* through any number of restarts.                                         *)
THEOREM QueueTypeCorrect == Spec => []TypeOK
<1>1. QInv => TypeOK
  BY DEF QInv
<1> QED BY <1>1, QInvAlways, PTL

(* A repository is never in two places of the queue.                       *)
THEOREM AlwaysOnePlace == Spec => []OnePlace
<1>1. QInv => OnePlace
  BY DEF QInv
<1> QED BY <1>1, QInvAlways, PTL

(* Updates with a live context stay within the limit of the current loop,  *)
(* although every loop has a limiter of its own and none waits for the     *)
(* updates of the loop before it.                                          *)
THEOREM UpdatesAlwaysWithinLimit == Spec => []UpdatesWithinLimit
<1>1. QInv => UpdatesWithinLimit
  <2> SUFFICES ASSUME QInv PROVE Cardinality(Live) <= limit[loop]
    BY DEF UpdatesWithinLimit
  <2>0. LoopType /\ UpdateType /\ LeasesOK
    BY TypeParts DEF QInv
  <2>1. Live \subseteq ToSet(leases[loop])
    <3> SUFFICES ASSUME NEW u \in Live PROVE u \in ToSet(leases[loop])
      OBVIOUS
    <3>1. /\ u \in ToSet(leases[update[u].loop])
          /\ ~(update[u].loop < loop)
          /\ update[u].loop \in Loops
      BY <2>0 DEF Live, Stopped, UpdateType
    <3>2. ~(update[u].loop > loop)
      <4>1. ToSet(<<>>) = {}
        BY DEF ToSet
      <4> QED BY <2>0, <3>1, <4>1 DEF LeasesOK
    <3>3. update[u].loop = loop
      BY <2>0, <3>1, <3>2 DEF LoopType, Loops
    <3> QED BY <3>1, <3>3
  <2>2. /\ leases[loop] \in Seq(Slots) /\ Len(leases[loop]) \in Nat
        /\ limit[loop] \in Nat /\ Len(leases[loop]) <= limit[loop]
    BY <2>0, LimitNat DEF LoopType, LeasesOK
  <2>3. /\ IsFiniteSet(ToSet(leases[loop]))
        /\ Cardinality(ToSet(leases[loop])) <= Len(leases[loop])
    BY <2>2, ToSetCardinality
  <2>4. IsFiniteSet(Live) /\ Cardinality(Live) <= Cardinality(ToSet(leases[loop]))
    BY <2>1, <2>3, FS_Subset
  <2>5. Cardinality(Live) \in Nat /\ Cardinality(ToSet(leases[loop])) \in Nat
    BY <2>3, <2>4, FS_CardinalityType
  <2> QED BY <2>2, <2>3, <2>4, <2>5
<1> QED BY <1>1, QInvAlways, PTL

-----------------------------------------------------------------------------
(* Until the first restart the loop always blocks on the channel that is   *)
(* used, and the others are not there.                                     *)
OneLoop == /\ loop = 1 /\ channel = 1
           /\ pc[1] = "wait" => reading[1] = 1
           /\ pc[1] \in {"top", "wait", "acquire", "next"}
           /\ \A l \in Loops \ {1} : pc[l] = "off"

Lossless == Waiting # {} => pc[1] \in {"acquire", "next"} \/ 1 \in notified

InFlight(u) == update[u].pc \in {"request", "remove"}

Acquired == \A u \in Slots : InFlight(u) =>
                /\ update[u].repo \in updating
                /\ \A v \in Slots \ {u} :
                     InFlight(v) => update[v].repo # update[u].repo

SingleInv == OneLoop /\ Lossless /\ Acquired

Single == loop = 1 => SingleInv

LEMMA SingleInit == Init => Single
<1>1. ToSet(<<>>) = {}
  BY DEF ToSet
<1>2. 1 \in Loops
  BY QueueAssumption DEF Loops
<1> QED BY <1>1, <1>2 DEF Init, Single, SingleInv, OneLoop, Lossless, Acquired, InFlight,
                    Waiting, Idle, Loops

LEMMA SingleStep ==
    QInv /\ SingleInv /\ [Next]_vars => Single'
<1> SUFFICES ASSUME QInv, SingleInv, [Next]_vars, loop' = 1 PROVE SingleInv'
  BY DEF Single
<1>0. QueueOK /\ LoopType /\ UpdateType /\ OneLoop /\ Lossless /\ Acquired
  BY TypeParts DEF QInv, QueueOK, SingleInv
<1>a. /\ 1 \in Loops /\ ~Stopped(1)
      /\ \A l \in Loops : pc[l] # "off" => l = 1
  BY <1>0, QueueAssumption DEF Loops, Stopped, OneLoop
<1>b. ASSUME UNCHANGED loopVars, channel' = channel PROVE OneLoop'
  BY <1>0, <1>b DEF OneLoop, loopVars
<1>c. ASSUME UNCHANGED <<updating, update>> PROVE Acquired'
  BY <1>0, <1>c DEF Acquired, InFlight
<1>d. ASSUME NEW s \in {"top", "wait", "acquire", "next"},
             pc' = [pc EXCEPT ![1] = s], loop' = loop, channel' = channel,
             s = "wait" => reading' = [reading EXCEPT ![1] = channel]
      PROVE  OneLoop' /\ pc'[1] = s
  BY <1>0, <1>a, <1>d DEF OneLoop, LoopType
<1>1. ASSUME NEW r \in Repos, UpdateOnce(r) PROVE SingleInv'
  <2>1. /\ updating' = updating /\ channel' = channel /\ notified \subseteq notified'
        /\ Waiting' = Waiting \/ channel \in notified'
        /\ UNCHANGED <<loopVars, update>>
    BY <1>0, <1>1, EnqueueHighOK DEF UpdateOnce
  <2>2. Lossless'
    BY <1>0, <2>1 DEF Lossless, OneLoop, loopVars
  <2> QED BY <1>b, <1>c, <2>1, <2>2 DEF SingleInv
<1>2. ASSUME NEW r \in Repos, Schedule(r) PROVE SingleInv'
  <2>1. /\ updating' = updating /\ channel' = channel /\ notified \subseteq notified'
        /\ Waiting' = Waiting \/ channel \in notified'
        /\ UNCHANGED <<loopVars, update>>
    BY <1>0, <1>2, EnqueueLowOK DEF Schedule
  <2>2. Lossless'
    BY <1>0, <2>1 DEF Lossless, OneLoop, loopVars
  <2> QED BY <1>b, <1>c, <2>1, <2>2 DEF SingleInv
<1>3. ASSUME NEW r \in Repos, Unschedule(r) PROVE SingleInv'
  <2>1. /\ UNCHANGED <<updating, channel, notified>>
        /\ Waiting' \subseteq Waiting
        /\ UNCHANGED <<loopVars, update>>
    BY <1>0, <1>3, RemoveWaitingOK DEF Unschedule
  <2>2. Lossless'
    BY <1>0, <2>1 DEF Lossless, loopVars
  <2> QED BY <1>b, <1>c, <2>1, <2>2 DEF SingleInv
<1>4. ASSUME NEW l \in Loops, Select(l) PROVE SingleInv'
  <2>1. /\ pc[1] = "top" /\ pc' = [pc EXCEPT ![1] = "wait"]
        /\ reading' = [reading EXCEPT ![1] = channel]
        /\ UNCHANGED <<queueVars, loop, update>>
    BY <1>4, <1>a DEF Select
  <2>2. OneLoop' /\ pc'[1] = "wait"
    BY <1>d, <2>1 DEF queueVars
  <2>3. Lossless'
    BY <1>0, <2>1 DEF Lossless, queueVars, Waiting
  <2> QED BY <1>c, <2>1, <2>2, <2>3 DEF SingleInv, queueVars
<1>5. ASSUME NEW l \in Loops, Receive(l) PROVE SingleInv'
  <2>1. /\ pc' = [pc EXCEPT ![1] = "acquire"]
        /\ UNCHANGED <<high, low, updating, channel, loop, update>>
    BY <1>5, <1>a DEF Receive
  <2>2. OneLoop' /\ pc'[1] = "acquire"
    BY <1>d, <2>1
  <2> QED BY <1>c, <2>1, <2>2 DEF SingleInv, Lossless
<1>6. ASSUME NEW l \in Loops, Shutdown(l) PROVE SingleInv'
  BY <1>6, <1>a DEF Shutdown
<1>7. ASSUME NEW l \in Loops, Acquire(l) PROVE SingleInv'
  <2>1. PICK u \in Slots :
           /\ update[u].pc = "none"
           /\ update' = [update EXCEPT ![u].pc = "held", ![u].loop = l]
    BY <1>7 DEF Acquire
  <2>2. /\ pc' = [pc EXCEPT ![1] = "next"]
        /\ UNCHANGED <<queueVars, loop, reading>>
    BY <1>7, <1>a DEF Acquire
  <2>3. OneLoop' /\ pc'[1] = "next"
    BY <1>d, <2>2 DEF queueVars
  <2>4. /\ update'[u].pc = "held"
        /\ \A v \in Slots \ {u} : update'[v] = update[v]
    BY <1>0, <2>1 DEF UpdateType
  <2>5. Acquired'
    BY <1>0, <2>2, <2>4 DEF Acquired, InFlight, queueVars
  <2> QED BY <2>3, <2>5 DEF SingleInv, Lossless
<1>8. ASSUME NEW l \in Loops, AcquireFails(l) PROVE SingleInv'
  BY <1>8, <1>a DEF AcquireFails
<1>9. ASSUME NEW l \in Loops, NEW u \in Slots, Start(l, u) PROVE SingleInv'
  <2>1. /\ update[u].pc = "held"
        /\ update' = [update EXCEPT ![u].pc = "request", ![u].repo = Top]
        /\ pc' = [pc EXCEPT ![1] = "acquire"]
        /\ UNCHANGED <<loop, reading>>
    BY <1>9, <1>a DEF Start
  <2>2. /\ Top \notin updating /\ updating' = updating \cup {Top}
        /\ UNCHANGED <<channel, notified>>
    BY <1>0, <1>9, AcquireTopOK DEF Start
  <2>3. OneLoop' /\ pc'[1] = "acquire"
    BY <1>d, <2>1, <2>2
  <2>4. /\ update'[u].pc = "request" /\ update'[u].repo = Top
        /\ \A v \in Slots \ {u} : update'[v] = update[v]
    BY <1>0, <2>1 DEF UpdateType
  <2>5. Acquired'
    <3> SUFFICES ASSUME NEW w \in Slots, InFlight(w)'
                 PROVE  /\ update'[w].repo \in updating'
                        /\ \A v \in Slots \ {w} :
                             InFlight(v)' => update'[v].repo # update'[w].repo
      BY DEF Acquired
    <3>1. \A v \in Slots \ {u} : InFlight(v)' =>
             InFlight(v) /\ update[v].repo \in updating /\ update'[v].repo # Top
      BY <1>0, <2>2, <2>4 DEF Acquired, InFlight
    <3>2. CASE w = u
      BY <2>2, <2>4, <3>1, <3>2
    <3>3. CASE w # u
      BY <1>0, <2>2, <2>4, <3>1, <3>3 DEF Acquired, InFlight
    <3> QED BY <3>2, <3>3
  <2> QED BY <2>3, <2>5 DEF SingleInv, Lossless
<1>10. ASSUME NEW l \in Loops, NEW u \in Slots, Drained(l, u) PROVE SingleInv'
  <2>1. /\ update' = [update EXCEPT ![u] = Idle]
        /\ Waiting = {}
        /\ pc' = [pc EXCEPT ![1] = "top"]
        /\ UNCHANGED <<queueVars, loop, reading>>
    BY <1>10, <1>a DEF Drained, Release
  <2>2. OneLoop'
    BY <1>d, <2>1 DEF queueVars
  <2>3. Lossless'
    BY <2>1 DEF Lossless, Waiting, queueVars
  <2>4. /\ update'[u].pc = "none"
        /\ \A v \in Slots \ {u} : update'[v] = update[v]
    BY <1>0, <2>1 DEF UpdateType, Idle
  <2>5. Acquired'
    BY <1>0, <2>1, <2>4 DEF Acquired, InFlight, queueVars
  <2> QED BY <2>2, <2>3, <2>5 DEF SingleInv
<1>11. ASSUME NEW u \in Slots, Respond(u) PROVE SingleInv'
  <2>1. /\ update[u].pc = "request"
        /\ update' = [update EXCEPT ![u].pc = "remove"]
        /\ UNCHANGED <<queueVars, loopVars>>
    BY <1>11 DEF Respond
  <2>2. /\ update'[u].repo = update[u].repo
        /\ \A v \in Slots \ {u} : update'[v] = update[v]
    BY <1>0, <2>1 DEF UpdateType
  <2>3. Acquired'
    BY <1>0, <2>1, <2>2 DEF Acquired, InFlight, queueVars
  <2>4. OneLoop' /\ Lossless'
    BY <1>0, <1>b, <2>1 DEF queueVars, loopVars, Lossless, Waiting
  <2> QED BY <2>3, <2>4 DEF SingleInv
<1>12. ASSUME NEW u \in Slots, Finish(u) PROVE SingleInv'
  <2>1. /\ update[u].pc = "remove"
        /\ updating' = updating \ {update[u].repo}
        /\ update' = [update EXCEPT ![u].pc = "cancel"]
        /\ UNCHANGED <<high, low, channel, notified, loopVars>>
    BY <1>12 DEF Finish, RemoveUpdating
  <2>2. /\ update'[u].pc = "cancel"
        /\ \A v \in Slots \ {u} : update'[v] = update[v]
    BY <1>0, <2>1 DEF UpdateType
  <2>3. Acquired'
    BY <1>0, <2>1, <2>2 DEF Acquired, InFlight
  <2>4. OneLoop' /\ Lossless'
    BY <1>0, <1>b, <2>1 DEF loopVars, Lossless, Waiting
  <2> QED BY <2>3, <2>4 DEF SingleInv
<1>13. ASSUME NEW u \in Slots, Cancel(u) PROVE SingleInv'
  <2>1. /\ update' = [update EXCEPT ![u] = Idle]
        /\ UNCHANGED <<queueVars, loopVars>>
    BY <1>13 DEF Cancel, Release
  <2>2. /\ update'[u].pc = "none"
        /\ \A v \in Slots \ {u} : update'[v] = update[v]
    BY <1>0, <2>1 DEF UpdateType, Idle
  <2>3. Acquired'
    BY <1>0, <2>1, <2>2 DEF Acquired, InFlight, queueVars
  <2>4. OneLoop' /\ Lossless'
    BY <1>0, <1>b, <2>1 DEF queueVars, loopVars, Lossless, Waiting
  <2> QED BY <2>3, <2>4 DEF SingleInv
<1>14. ASSUME NEW l \in Loops, NEW n \in Limits, SetLimit(l, n) PROVE SingleInv'
  BY <1>0, <1>14, <1>b, <1>c
     DEF SetLimit, SingleInv, queueVars, loopVars, Lossless, Waiting
<1>15. ASSUME NEW n \in Limits, Restart(n) PROVE SingleInv'
  BY <1>0, <1>15 DEF Restart, OneLoop
<1>16. CASE UNCHANGED vars
  BY <1>0, <1>16, <1>b, <1>c
     DEF vars, SingleInv, queueVars, loopVars, Lossless, Waiting
<1> QED
  BY <1>1, <1>2, <1>3, <1>4, <1>5, <1>6, <1>7, <1>8, <1>9, <1>10, <1>11,
     <1>12, <1>13, <1>14, <1>15, <1>16
     DEF Next, Callers, RunUpdateLoop, RunUpdate

(* RunScheduler only counts up.                                            *)
LEMMA LoopGrows == QInv /\ [Next]_vars /\ loop' = 1 => loop = 1
<1> SUFFICES ASSUME QInv, [Next]_vars, loop' = 1 PROVE loop = 1
  OBVIOUS
<1>1. loop \in Nat \ {0}
  BY QueueAssumption, TypeParts DEF QInv, QueueOK, LoopType, Loops
<1>2. loop' = loop \/ loop' = loop + 1
  BY DEF Next, vars, Callers, RunUpdateLoop, RunUpdate, UpdateOnce, Schedule,
         Unschedule, Select, Receive, Shutdown, Acquire, AcquireFails, Start,
         Drained, Respond, Finish, Cancel, SetLimit, Restart, loopVars
<1> QED BY <1>1, <1>2

LEMMA SingleAlways == Spec => []Single
<1>1. Init => Single
  BY SingleInit
<1>2. QInv /\ Single /\ [Next]_vars => Single'
  BY SingleStep, LoopGrows DEF Single
<1> QED BY <1>1, <1>2, QInvAlways, PTL DEF Spec

(* Until the first restart no notification is lost: a repository that      *)
(* waits will be found, although sends on a full channel are dropped.      *)
THEOREM NotifyAlwaysLossless == Spec => []NotifyLossless
<1>1. Single => NotifyLossless
  BY DEF Single, SingleInv, OneLoop, Lossless, NotifyLossless
<1> QED BY <1>1, SingleAlways, PTL

(* Until the first restart a repository is in the queue as long as it is   *)
(* being updated, and is updated by one goroutine at a time.               *)
THEOREM AcquiredAlwaysInQueue == Spec => []AcquiredInQueue
<1>1. Single => AcquiredInQueue
  BY DEF Single, SingleInv, Acquired, InFlight, AcquiredInQueue, Live
<1> QED BY <1>1, SingleAlways, PTL

-----------------------------------------------------------------------------
(* The scheduler.                                                          *)

(* A step of UpdateFromDiff in progress is about a repository.             *)
DiffOK == diff.op \in {"upsert", "remove"} => diff.repo \in Repos

(* A schedule loop that has not been started is off.                       *)
NotStarted == \A l \in Loops : l > loop => spc[l] = "off"

-----------------------------------------------------------------------------
LEMMA DivBound ==
    ASSUME NEW c \in Nat, NEW j \in Nat \ {0}
    PROVE  (c \div j) \in Nat /\ (c \div j) <= c
  BY SMT

(* A set of numbers that is not empty has a least one.                     *)
LEMMA LeastExists ==
    ASSUME NEW T \in SUBSET Nat, T # {}
    PROVE  \E t \in T : \A u \in T : t <= u
<1>1. PICK t \in T : \A u \in T : ~(<<u, t>> \in OpToRel(<, Nat))
  BY NatLessThanWellFounded, WFMin
<1>2. \A u \in T : ~(u < t)
  BY <1>1 DEF OpToRel
<1> QED BY <1>2

(* What RescheduleTimer sets the timer to is no later than any Due.        *)
LEMMA EarliestDueFacts ==
    ASSUME NEW S \in SUBSET Repos, S # {}, NEW time \in [Repos -> Nat]
    PROVE  /\ EarliestDue(S, time) \in Nat
           /\ \A r \in S : EarliestDue(S, time) <= time[r]
<1> DEFINE T == {time[r] : r \in S}
<1>1. T \in SUBSET Nat /\ T # {}
  OBVIOUS
<1>2. \E t \in T : \A u \in T : t <= u
  <2> HIDE DEF T
  <2> QED BY <1>1, LeastExists
<1>3. \E t \in T : \A r \in S : t <= time[r]
  BY <1>2
<1>4. EarliestDue(S, time) \in T /\ \A r \in S : EarliestDue(S, time) <= time[r]
  BY <1>3 DEF EarliestDue
<1> QED BY <1>1, <1>4

(* Division by the same number keeps the order, and brings numbers closer. *)
LEMMA DivMonotone ==
    ASSUME NEW m \in Nat, NEW c \in Nat, m <= c, NEW j \in Nat \ {0}
    PROVE  (m \div j) <= (c \div j) /\ (c \div j) - (m \div j) <= c - m
  BY SMT

-----------------------------------------------------------------------------
(* The methods of schedule.                                                *)

ScheduleOK == /\ scheduled \subseteq Repos
              /\ interval \in [Repos -> Nat] /\ due \in [Repos -> Nat]
              /\ timer \in Nat \cup {Off}
              /\ IntervalBounded

(* The timer is set for the earliest Due, or before it.                    *)
TimerSet == scheduled # {} => timer # Off /\ \A r \in scheduled : timer <= due[r]

LEMMA Reschedules ==
    ASSUME scheduled' \subseteq Repos, due' \in [Repos -> Nat], RescheduleTimer
    PROVE  timer' \in Nat \cup {Off} /\ TimerSet'
<1>1. CASE scheduled' = {}
  BY <1>1 DEF RescheduleTimer, TimerSet
<1>2. CASE scheduled' # {}
  <2>1. timer' = EarliestDue(scheduled', due')
    BY <1>2 DEF RescheduleTimer
  <2>2. timer' \in Nat /\ \A r \in scheduled' : timer' <= due'[r]
    BY <1>2, <2>1, EarliestDueFacts
  <2> QED BY <2>2 DEF TimerSet, Off
<1> QED BY <1>1, <1>2

(* The shortest interval is within the bounds, and so is what updateInter- *)
(* val makes of any other.                                                 *)
LEMMA MinDelayBounds ==
    /\ MinDelay \in Nat
    /\ MinDelay >= MinDelay - (MinDelay \div JitterDivisor)
    /\ MinDelay < MaxDelay + (MaxDelay \div JitterDivisor)
<1>1. JitterDivisor \div JitterDivisor = 1
  BY DelayAssumption, SMT
<1>2. (MaxDelay \div JitterDivisor) >= 1
  BY <1>1, DelayAssumption, DivMonotone, SMT
<1>3. (MinDelay \div JitterDivisor) \in Nat /\ (MaxDelay \div JitterDivisor) \in Nat
  BY DelayAssumption, DivBound
<1> QED BY <1>2, <1>3, DelayAssumption

LEMMA JitterBounds ==
    ASSUME NEW i \in Nat, NEW j \in Jittered(Clamp(i))
    PROVE  /\ j \in Nat
           /\ j >= MinDelay - (MinDelay \div JitterDivisor)
           /\ j < MaxDelay + (MaxDelay \div JitterDivisor)
<1> DEFINE c == Clamp(i)
<1>1. c \in Nat /\ MinDelay <= c /\ c <= MaxDelay
  BY DelayAssumption DEF Clamp
<1> HIDE DEF c
<1>2. PICK k \in -(c \div JitterDivisor) .. (c \div JitterDivisor) - 1 : j = c + k
  BY DEF Jittered, c
<1>3. /\ (c \div JitterDivisor) \in Nat /\ (c \div JitterDivisor) <= c
      /\ (MinDelay \div JitterDivisor) \in Nat /\ (MaxDelay \div JitterDivisor) \in Nat
  BY <1>1, DelayAssumption, DivBound
<1>4. /\ (c \div JitterDivisor) - (MinDelay \div JitterDivisor) <= c - MinDelay
      /\ (c \div JitterDivisor) <= (MaxDelay \div JitterDivisor)
  BY <1>1, DelayAssumption, DivMonotone
<1>5. /\ j \in Int /\ j >= c - (c \div JitterDivisor)
      /\ j < c + (c \div JitterDivisor)
  BY <1>1, <1>2, <1>3
<1> QED BY <1>1, <1>3, <1>4, <1>5, DelayAssumption

LEMMA InsertNewOK ==
    ASSUME ScheduleOK, NEW S \in SUBSET Repos, InsertNew(S)
    PROVE  ScheduleOK' /\ (TimerSet => TimerSet') /\ scheduled' = scheduled \cup S
<1> USE MinDelayBounds DEF ScheduleOK, IntervalBounded
<1>1. CASE S \subseteq scheduled
  BY <1>1 DEF InsertNew, scheduleVars, TimerSet
<1>2. CASE ~(S \subseteq scheduled)
  <2>1. Push(S \ scheduled) /\ RescheduleTimer
    BY <1>2 DEF InsertNew
  <2>2. /\ scheduled' = scheduled \cup S
        /\ interval' \in [Repos -> Nat] /\ due' \in [Repos -> Nat]
    BY <2>1 DEF Push
  <2>3. IntervalBounded'
    BY <2>1 DEF Push
  <2> QED BY <2>1, <2>2, <2>3, Reschedules
<1> QED BY <1>1, <1>2

LEMMA PrioritiseOK ==
    ASSUME ScheduleOK, NEW S \in SUBSET Repos, Prioritise(S)
    PROVE  ScheduleOK' /\ (TimerSet => TimerSet') /\ scheduled' = scheduled \cup S
<1> USE MinDelayBounds DEF ScheduleOK, IntervalBounded
<1> DEFINE new  == S \ scheduled
           late == {r \in S \cap scheduled : due[r] > MinDelay}
<1>1. CASE new \cup late = {}
  BY <1>1 DEF Prioritise, scheduleVars, TimerSet
<1>2. CASE new \cup late # {}
  <2>1. /\ scheduled' = scheduled \cup new
        /\ interval' = [r \in Repos |-> IF r \in new THEN MinDelay ELSE interval[r]]
        /\ due' = [r \in Repos |-> IF r \in new \cup late THEN MinDelay ELSE due[r]]
        /\ RescheduleTimer
    BY <1>2 DEF Prioritise
  <2>2. /\ scheduled' = scheduled \cup S
        /\ interval' \in [Repos -> Nat] /\ due' \in [Repos -> Nat]
    BY <2>1
  <2>3. IntervalBounded'
    BY <2>1
  <2> QED BY <2>1, <2>2, <2>3, Reschedules
<1> QED BY <1>1, <1>2

LEMMA UpdateIntervalOK ==
    ASSUME ScheduleOK, NEW r \in Repos, NEW i \in Nat, UpdateInterval(r, i)
    PROVE  ScheduleOK' /\ (TimerSet => TimerSet') /\ scheduled' = scheduled
<1> USE DEF ScheduleOK, IntervalBounded
<1>1. CASE r \notin scheduled
  BY <1>1 DEF UpdateInterval, scheduleVars, TimerSet
<1>2. CASE r \in scheduled
  <2>1. PICK j \in Jittered(Clamp(i)) :
          /\ interval' = [interval EXCEPT ![r] = j]
          /\ due' = [due EXCEPT ![r] = j]
          /\ UNCHANGED scheduled
          /\ RescheduleTimer
    BY <1>2 DEF UpdateInterval
  <2>2. interval' \in [Repos -> Nat] /\ due' \in [Repos -> Nat]
    BY <2>1, JitterBounds
  <2>3. IntervalBounded'
    BY <2>1, JitterBounds
  <2> QED BY <2>1, <2>2, <2>3, Reschedules
<1> QED BY <1>1, <1>2

LEMMA RemoveScheduledOK ==
    ASSUME ScheduleOK, NEW r \in Repos, RemoveScheduled(r)
    PROVE  ScheduleOK' /\ (TimerSet => TimerSet') /\ scheduled' = scheduled \ {r}
<1> USE DEF ScheduleOK, IntervalBounded
<1>1. CASE r \notin scheduled
  BY <1>1 DEF RemoveScheduled, scheduleVars, TimerSet
<1>2. CASE r \in scheduled
  <2>1. /\ scheduled' = scheduled \ {r}
        /\ interval' \in [Repos -> Nat] /\ due' \in [Repos -> Nat]
        /\ \A q \in scheduled' : interval'[q] = interval[q] /\ due'[q] = due[q]
    BY <1>2 DEF RemoveScheduled
  <2>2. IntervalBounded'
    BY <2>1
  <2>3. CASE RescheduleTimer
    BY <2>1, <2>2, <2>3, Reschedules
  <2>4. CASE UNCHANGED timer
    BY <2>1, <2>2, <2>4 DEF TimerSet
  <2> QED BY <1>2, <2>3, <2>4 DEF RemoveScheduled
<1> QED BY <1>1, <1>2

-----------------------------------------------------------------------------
(* Every step of the scheduler is a step of the queue or leaves it alone.  *)
LEMMA QueueStep ==
    ASSUME DiffOK, [SchedulerNext]_schedulerVars
    PROVE  [Next]_vars
<1>1. CASE Syncer
  <2>1. CASE DiffEnqueue \/ DiffDequeue
    BY <2>1 DEF DiffEnqueue, DiffDequeue, DiffOK, Next, Callers
  <2>2. CASE \E r \in Repos : DiffRemove(r) \/ \E e \in BOOLEAN : DiffUpsert(r, e)
    BY <2>2 DEF DiffRemove, DiffUpsert
  <2> QED BY <1>1, <2>1, <2>2 DEF Syncer
<1>2. CASE \E S \in SUBSET Repos : EnsureScheduled(S) \/ PrioritiseUncloned(S)
  BY <1>2 DEF EnsureScheduled, PrioritiseUncloned
<1>3. CASE \E r \in Repos : Request(r)
  BY <1>3 DEF Request, Next, Callers
<1>4. CASE Tick \/ Fire \/ Wake
  BY <1>4 DEF Tick, Fire, Wake
<1>5. ASSUME NEW l \in Loops, RunScheduleLoop(l) PROVE [Next]_vars
  <2>1. CASE \E r \in Repos : EnqueueDue(l, r)
    BY <2>1 DEF EnqueueDue, Next, Callers
  <2> QED BY <1>5, <2>1 DEF RunScheduleLoop, SelectWakeup, WakeUp, LockSchedule, EndSchedule,
                            ShutdownSchedule
<1>6. ASSUME NEW l \in Loops, UpdateLoopStep(l) PROVE [Next]_vars
  BY <1>6 DEF UpdateLoopStep, Next
<1>7. ASSUME NEW u \in Slots, RunScheduledUpdate(u) PROVE [Next]_vars
  BY <1>7 DEF RunScheduledUpdate, ApplyInterval, NoInterval, ReadInterval, BackOff,
              Next, RunUpdate
<1>8. CASE \E n \in Limits : RestartScheduler(n)
  BY <1>8 DEF RestartScheduler, Next
<1>9. CASE UNCHANGED schedulerVars
  BY <1>9 DEF schedulerVars
<1> QED
  BY <1>1, <1>2, <1>3, <1>4, <1>5, <1>6, <1>7, <1>8, <1>9 DEF SchedulerNext

-----------------------------------------------------------------------------
(* The requests of low priority.                                           *)
LEMMA LowQueued ==
    ASSUME QInv, NEW r \in Repos, Schedule(r)
    PROVE  ToSet(low') \subseteq ToSet(low) \cup {r} /\ UNCHANGED loop
<1>1. ToSet(Append(low, r)) = ToSet(low) \cup {r}
  BY AppendFacts DEF QInv, TypeOK
<1> QED BY <1>1 DEF Schedule, EnqueueLow, loopVars

LEMMA LowRemoved ==
    ASSUME QInv, NEW r \in Repos, Unschedule(r)
    PROVE  ToSet(low') = ToSet(low) \ {r} /\ UNCHANGED loop
<1>1. ToSet(Without(low, r)) = ToSet(low) \ {r}
  BY WithoutFacts DEF QInv, TypeOK, OnePlace
<1> QED BY <1>1 DEF Unschedule, RemoveWaiting, loopVars

LEMMA LowShrinks ==
    ASSUME QInv,
           \/ \E r \in Repos : UpdateOnce(r)
           \/ \E l \in Loops : RunUpdateLoop(l) \/ \E n \in Limits : SetLimit(l, n)
           \/ \E u \in Slots : RunUpdate(u)
    PROVE  ToSet(low') \subseteq ToSet(low) /\ UNCHANGED loop
<1>1. \A r : ToSet(Without(low, r)) \subseteq ToSet(low)
  BY WithoutFacts DEF QInv, TypeOK, OnePlace
<1>2. ToSet(<<>>) = {}
  BY DEF ToSet
<1> USE DEF loopVars, queueVars
<1>3. ASSUME NEW r \in Repos, UpdateOnce(r)
      PROVE  ToSet(low') \subseteq ToSet(low) /\ UNCHANGED loop
  BY <1>1, <1>3 DEF UpdateOnce, EnqueueHigh
<1>4. ASSUME NEW l \in Loops, RunUpdateLoop(l)
      PROVE  ToSet(low') \subseteq ToSet(low) /\ UNCHANGED loop
  BY <1>1, <1>2, <1>4
  DEF RunUpdateLoop, Select, Receive, Shutdown, Reset, Acquire, AcquireFails, Start,
      AcquireTop, Drained
<1>5. ASSUME NEW l \in Loops, NEW n \in Limits, SetLimit(l, n)
      PROVE  ToSet(low') \subseteq ToSet(low) /\ UNCHANGED loop
  BY <1>5 DEF SetLimit
<1>6. ASSUME NEW u \in Slots, RunUpdate(u)
      PROVE  ToSet(low') \subseteq ToSet(low) /\ UNCHANGED loop
  BY <1>6 DEF RunUpdate, Respond, Finish, RemoveUpdating, Cancel
<1> QED BY <1>3, <1>4, <1>5, <1>6

-----------------------------------------------------------------------------
(* The inductive invariant.  As long as the scheduler has not been         *)
(* restarted, a repository that UpdateFromDiff is about to enqueue is in   *)
(* the schedule.                                                           *)
UpsertScheduled == loop = 1 /\ diff.op = "upsert" => diff.repo \in scheduled

OtherType == /\ firing \in BOOLEAN
             /\ wakeup \in Channels /\ awake \subseteq Channels
             /\ enabled \subseteq Loops
             /\ spc \in [Loops -> {"off", "top", "wait", "woken", "run", "done"}]
             /\ sreading \in [Loops -> Channels]
             /\ diff \in [op : {"none", "upsert", "remove"}, repo : Repos \cup {NoRepo}]
             /\ doubled \in [Slots -> Nat]

SInv == /\ QInv /\ ScheduleOK /\ OtherType /\ DiffOK /\ NotStarted
        /\ TimerOnTime /\ LowScheduled /\ UpsertScheduled

LEMMA TimerKept ==
    ASSUME TimerOnTime, TimerSet => TimerSet', UNCHANGED <<firing, wakeup, awake, spc>>
    PROVE  TimerOnTime'
BY DEF TimerOnTime, TimerSet, AtWork

(* Steps that leave the schedule and its loop alone.                       *)
LEMMA QueueOnly ==
    ASSUME SInv, [Next]_vars, ToSet(low') \subseteq ToSet(low), UNCHANGED loop,
           UNCHANGED <<scheduleVars, wakeupVars, scheduleLoop, callerVars>>
    PROVE  SInv'
<1>1. QInv'
  BY QInvStep DEF SInv
<1>2. ScheduleOK' /\ OtherType' /\ DiffOK' /\ NotStarted' /\ TimerOnTime'
  BY DEF SInv, ScheduleOK, IntervalBounded, OtherType, DiffOK, NotStarted,
         TimerOnTime, AtWork, scheduleVars, wakeupVars, scheduleLoop, callerVars
<1>3. LowScheduled' /\ UpsertScheduled'
  BY DEF SInv, LowScheduled, UpsertScheduled, scheduleVars, callerVars
<1> QED BY <1>1, <1>2, <1>3 DEF SInv

LEMMA SyncerStep ==
    ASSUME SInv, Syncer, QInv'
    PROVE  SInv'
<1> USE DEF wakeupVars, scheduleLoop, callerVars, OtherType, NoDiff
<1>1. ASSUME NEW r \in Repos, NEW e \in BOOLEAN, DiffUpsert(r, e) PROVE SInv'
  <2>1. ScheduleOK' /\ (TimerSet => TimerSet') /\ scheduled' = scheduled \cup {r}
    BY <1>1, InsertNewOK DEF DiffUpsert, SInv
  <2>2. TimerOnTime'
    BY <1>1, <2>1, TimerKept DEF DiffUpsert, SInv
  <2>3. diff' = [op |-> "upsert", repo |-> r] \/ diff' = NoDiff
    BY <1>1 DEF DiffUpsert
  <2>4. OtherType' /\ DiffOK' /\ NotStarted'
    BY <1>1, <2>3, QueueAssumption
    DEF DiffUpsert, SInv, DiffOK, NotStarted, vars, loopVars
  <2>5. LowScheduled' /\ UpsertScheduled'
    BY <1>1, <2>1, <2>3
    DEF DiffUpsert, SInv, LowScheduled, UpsertScheduled, vars, loopVars, queueVars
  <2> QED BY <2>1, <2>2, <2>4, <2>5 DEF SInv
<1>2. ASSUME NEW r \in Repos, DiffRemove(r) PROVE SInv'
  <2>1. ScheduleOK' /\ (TimerSet => TimerSet') /\ scheduled' = scheduled \ {r}
    BY <1>2, RemoveScheduledOK DEF DiffRemove, SInv
  <2>2. TimerOnTime'
    BY <1>2, <2>1, TimerKept DEF DiffRemove, SInv
  <2>3. diff = NoDiff /\ diff' = [op |-> "remove", repo |-> r]
    BY <1>2 DEF DiffRemove
  <2>4. OtherType' /\ DiffOK' /\ NotStarted'
    BY <1>2, <2>3 DEF DiffRemove, SInv, DiffOK, NotStarted, vars, loopVars
  <2>5. LowScheduled' /\ UpsertScheduled'
    BY <1>2, <2>1, <2>3
    DEF DiffRemove, SInv, LowScheduled, UpsertScheduled, vars, loopVars, queueVars
  <2> QED BY <2>1, <2>2, <2>4, <2>5 DEF SInv
<1>3. CASE DiffEnqueue \/ DiffDequeue
  <2>0. UNCHANGED <<scheduleVars, wakeupVars, scheduleLoop, doubled>> /\ diff' = NoDiff
    BY <1>3 DEF DiffEnqueue, DiffDequeue
  <2>1. diff.repo \in Repos
    BY <1>3 DEF DiffEnqueue, DiffDequeue, SInv, DiffOK
  <2>2. ScheduleOK' /\ TimerOnTime'
    BY <2>0 DEF SInv, ScheduleOK, IntervalBounded, TimerOnTime, AtWork, scheduleVars
  <2>3. UNCHANGED loop
    BY <1>3, <2>1, LowQueued, LowRemoved DEF DiffEnqueue, DiffDequeue, SInv
  <2>4. OtherType' /\ DiffOK' /\ NotStarted'
    BY <2>0, <2>3, QueueAssumption DEF SInv, DiffOK, NotStarted
  <2>5. LowScheduled' /\ UpsertScheduled'
    <3>1. CASE DiffEnqueue
      <4>1. ToSet(low') \subseteq ToSet(low) \cup {diff.repo}
        BY <2>1, <3>1, LowQueued DEF DiffEnqueue, SInv
      <4> QED BY <2>0, <2>3, <3>1, <4>1
              DEF DiffEnqueue, SInv, LowScheduled, UpsertScheduled, scheduleVars
    <3>2. CASE DiffDequeue
      <4>1. ToSet(low') = ToSet(low) \ {diff.repo}
        BY <2>1, <3>2, LowRemoved DEF DiffDequeue, SInv
      <4> QED BY <2>0, <2>3, <3>2, <4>1
              DEF DiffDequeue, SInv, LowScheduled, UpsertScheduled, scheduleVars
    <3> QED BY <1>3, <3>1, <3>2
  <2> QED BY <2>2, <2>4, <2>5 DEF SInv
<1> QED BY <1>1, <1>2, <1>3 DEF Syncer

(* A method of schedule that leaves all but the schedule alone.            *)
LEMMA MethodOnly ==
    ASSUME SInv, QInv', ScheduleOK', TimerSet => TimerSet', scheduled \subseteq scheduled',
           ToSet(low') \subseteq ToSet(low), UNCHANGED <<loop, wakeupVars, scheduleLoop, diff>>,
           doubled' \in [Slots -> Nat]
    PROVE  SInv'
<1>1. TimerOnTime'
  BY TimerKept DEF SInv, wakeupVars, scheduleLoop
<1>2. OtherType' /\ DiffOK' /\ NotStarted'
  BY DEF SInv, OtherType, DiffOK, NotStarted, wakeupVars, scheduleLoop
<1>3. LowScheduled' /\ UpsertScheduled'
  BY DEF SInv, LowScheduled, UpsertScheduled
<1> QED BY <1>1, <1>2, <1>3 DEF SInv

LEMMA UnclonedStep ==
    ASSUME SInv, QInv', NEW S \in SUBSET Repos,
           EnsureScheduled(S) \/ PrioritiseUncloned(S)
    PROVE  SInv'
<1>1. ScheduleOK' /\ (TimerSet => TimerSet') /\ scheduled \subseteq scheduled'
  BY InsertNewOK, PrioritiseOK DEF EnsureScheduled, PrioritiseUncloned, SInv
<1>2. UNCHANGED <<low, loop, wakeupVars, scheduleLoop, diff, doubled>>
  BY DEF EnsureScheduled, PrioritiseUncloned, vars, queueVars, loopVars, callerVars
<1> QED BY <1>1, <1>2, MethodOnly DEF SInv, OtherType

LEMMA TimeStep ==
    ASSUME SInv, QInv', Tick \/ Fire \/ Wake
    PROVE  SInv'
<1> USE DEF vars, queueVars, loopVars, wakeupVars, scheduleLoop, callerVars
<1>1. CASE Tick
  <2>1. ScheduleOK'
    BY <1>1 DEF Tick, SInv, ScheduleOK, IntervalBounded, Off
  <2>2. TimerSet => TimerSet'
    BY <1>1 DEF Tick, SInv, ScheduleOK, TimerSet, Off
  <2>3. UNCHANGED <<scheduled, low, loop, wakeupVars, scheduleLoop, diff, doubled>>
    BY <1>1 DEF Tick
  <2> QED BY <2>1, <2>2, <2>3, MethodOnly DEF SInv, OtherType
<1>2. CASE Fire \/ Wake
  <2>1. ScheduleOK'
    BY <1>2 DEF Fire, Wake, SInv, ScheduleOK, IntervalBounded, scheduleVars
  <2>2. TimerOnTime' /\ OtherType'
    BY <1>2 DEF Fire, Wake, SInv, TimerOnTime, AtWork, OtherType, scheduleVars
  <2>3. DiffOK' /\ NotStarted' /\ LowScheduled' /\ UpsertScheduled'
    BY <1>2 DEF Fire, Wake, SInv, DiffOK, NotStarted, LowScheduled, UpsertScheduled,
                scheduleVars
  <2> QED BY <2>1, <2>2, <2>3 DEF SInv
<1> QED BY <1>1, <1>2

LEMMA ScheduleLoopStep ==
    ASSUME SInv, QInv', NEW l \in Loops, RunScheduleLoop(l)
    PROVE  SInv'
<1> USE DEF wakeupVars, scheduleLoop, callerVars
<1>1. CASE \/ SelectWakeup(l) \/ WakeUp(l) \/ LockSchedule(l) \/ EndSchedule(l)
  <2>0. UNCHANGED <<scheduled, interval, due, low, loop, diff, doubled, enabled, wakeup>>
    BY <1>1 DEF SelectWakeup, WakeUp, LockSchedule, EndSchedule, vars, queueVars,
                loopVars, scheduleVars
  <2>1. ScheduleOK' /\ TimerOnTime'
    <3>1. CASE SelectWakeup(l)
      BY <2>0, <3>1 DEF SelectWakeup, SInv, ScheduleOK, IntervalBounded, TimerOnTime,
                        AtWork, OtherType, scheduleVars
    <3>2. CASE WakeUp(l) \/ LockSchedule(l)
      <4>1. ScheduleOK'
        BY <2>0, <3>2 DEF WakeUp, LockSchedule, SInv, ScheduleOK, IntervalBounded,
                          scheduleVars
      <4>2. AtWork'
        BY <3>2 DEF WakeUp, LockSchedule, SInv, OtherType, AtWork
      <4> QED BY <4>1, <4>2 DEF TimerOnTime
    <3>3. CASE EndSchedule(l)
      <4>1. timer' \in Nat \cup {Off} /\ TimerSet'
        BY <2>0, <3>3, Reschedules DEF EndSchedule, SInv, ScheduleOK
      <4> QED BY <2>0, <4>1 DEF SInv, ScheduleOK, IntervalBounded, TimerOnTime, TimerSet
    <3> QED BY <1>1, <3>1, <3>2, <3>3
  <2>2. OtherType'
    <3>1. sreading' \in [Loops -> Channels]
      <4>1. 0 \in Channels /\ wakeup \in Channels /\ sreading \in [Loops -> Channels]
        BY DEF Channels, SInv, OtherType
      <4> QED BY <1>1, <4>1 DEF SelectWakeup, WakeUp, LockSchedule, EndSchedule
    <3>2. awake' \subseteq Channels
      BY <1>1 DEF SelectWakeup, WakeUp, LockSchedule, EndSchedule, SInv, OtherType
    <3>3. spc' \in [Loops -> {"off", "top", "wait", "woken", "run", "done"}]
      BY <1>1 DEF SelectWakeup, WakeUp, LockSchedule, EndSchedule, SInv, OtherType
    <3>4. UNCHANGED firing
      BY <1>1 DEF SelectWakeup, WakeUp, LockSchedule, EndSchedule
    <3> QED BY <2>0, <3>1, <3>2, <3>3, <3>4 DEF SInv, OtherType
  <2>3. NotStarted'
    BY <1>1, <2>0 DEF SelectWakeup, WakeUp, LockSchedule, EndSchedule, SInv,
                      OtherType, NotStarted
  <2>4. DiffOK' /\ LowScheduled' /\ UpsertScheduled'
    BY <2>0 DEF SInv, DiffOK, LowScheduled, UpsertScheduled
  <2> QED BY <2>1, <2>2, <2>3, <2>4 DEF SInv
<1>2. CASE ShutdownSchedule(l)
  <2>1. loop # 1 /\ UNCHANGED loop
    BY <1>2 DEF ShutdownSchedule, Stopped, Loops, vars, loopVars
  <2>2. ScheduleOK' /\ TimerOnTime'
    BY <1>2 DEF ShutdownSchedule, ResetSchedule, ScheduleOK, IntervalBounded, TimerOnTime
  <2>3. OtherType' /\ NotStarted'
    BY <1>2, <2>1 DEF ShutdownSchedule, ResetSchedule, SInv, OtherType, NotStarted,
                      Channels
  <2>4. DiffOK' /\ LowScheduled' /\ UpsertScheduled'
    BY <1>2, <2>1 DEF ShutdownSchedule, SInv, DiffOK, LowScheduled, UpsertScheduled
  <2> QED BY <2>2, <2>3, <2>4 DEF SInv
<1>3. ASSUME NEW r \in Repos, EnqueueDue(l, r) PROVE SInv'
  <2>1. ToSet(low') \subseteq ToSet(low) \cup {r} /\ UNCHANGED loop
    BY <1>3, LowQueued DEF EnqueueDue, SInv
  <2>2. r \in scheduled
    BY <1>3 DEF EnqueueDue, IsRoot
  <2>3. ScheduleOK' /\ TimerOnTime'
    BY <1>3 DEF EnqueueDue, SInv, ScheduleOK, IntervalBounded, TimerOnTime, AtWork
  <2>4. OtherType' /\ DiffOK' /\ NotStarted'
    BY <1>3, <2>1 DEF EnqueueDue, SInv, OtherType, DiffOK, NotStarted
  <2>5. LowScheduled' /\ UpsertScheduled'
    BY <1>3, <2>1, <2>2 DEF EnqueueDue, SInv, LowScheduled, UpsertScheduled
  <2> QED BY <2>3, <2>4, <2>5 DEF SInv
<1> QED BY <1>1, <1>2, <1>3 DEF RunScheduleLoop

LEMMA RestartStep ==
    ASSUME SInv, QInv', NEW n \in Limits, RestartScheduler(n)
    PROVE  SInv'
<1> USE DEF wakeupVars, scheduleLoop, callerVars
<1>1. loop' = loop + 1 /\ loop \in Loops /\ loop + 1 \in Loops
  BY QueueAssumption DEF RestartScheduler, Restart, SInv, QInv, TypeOK, Loops
<1>2. ScheduleOK'
  BY DEF RestartScheduler, SInv, ScheduleOK, IntervalBounded, scheduleVars
<1>3. OtherType' /\ DiffOK' /\ NotStarted'
  <2>1. OtherType' /\ DiffOK'
    BY <1>1 DEF RestartScheduler, SInv, OtherType, DiffOK
  <2>2. NotStarted'
    <3> SUFFICES ASSUME NEW k \in Loops, k > loop + 1 PROVE spc'[k] = "off"
      BY <1>1 DEF NotStarted
    <3>1. k > loop /\ k # loop + 1
      BY <1>1 DEF Loops
    <3>2. spc[k] = "off"
      BY <3>1 DEF SInv, NotStarted
    <3> QED BY <3>1, <3>2 DEF RestartScheduler, SInv, OtherType
  <2> QED BY <2>1, <2>2
<1>4. TimerOnTime'
  <2>1. spc[loop + 1] = "off"
    BY <1>1 DEF SInv, NotStarted, Loops
  <2>2. AtWork => AtWork'
    BY <1>1, <2>1 DEF RestartScheduler, SInv, OtherType, AtWork
  <2> QED BY <2>2 DEF RestartScheduler, SInv, TimerOnTime, scheduleVars
<1>5. LowScheduled' /\ UpsertScheduled'
  BY <1>1 DEF LowScheduled, UpsertScheduled, Loops
<1> QED BY <1>2, <1>3, <1>4, <1>5 DEF SInv

LEMMA UpdateStep ==
    ASSUME SInv, QInv', [Next]_vars, NEW u \in Slots, RunScheduledUpdate(u)
    PROVE  SInv'
<1> USE DEF callerVars
<1>0. ASSUME Respond(u)
      PROVE  /\ update[u].repo \in Repos
             /\ ToSet(low') \subseteq ToSet(low) /\ UNCHANGED loop
  <2>1. update[u].repo \in Repos
    BY <1>0 DEF Respond, SInv, QInv, TypeOK
  <2> QED BY <1>0, <2>1, LowShrinks DEF RunUpdate, SInv
<1>1. ASSUME NEW i \in Answers, ApplyInterval(u, i) PROVE SInv'
  <2>1. i \in Nat
    BY DelayAssumption DEF Answers
  <2>2. ScheduleOK' /\ (TimerSet => TimerSet') /\ scheduled' = scheduled
    BY <1>0, <1>1, <2>1, UpdateIntervalOK DEF ApplyInterval, SInv
  <2> QED BY <1>0, <1>1, <2>2, MethodOnly DEF ApplyInterval, SInv, OtherType
<1>2. CASE NoInterval(u)
  BY <1>0, <1>2, QueueOnly DEF NoInterval
<1>3. CASE ReadInterval(u)
  <2>1. 2 * interval[update[u].repo] \in Nat
    BY <1>3 DEF ReadInterval, SInv, ScheduleOK
  <2>2. doubled' \in [Slots -> Nat]
    BY <1>3, <2>1 DEF ReadInterval, SInv, OtherType
  <2>3. UNCHANGED <<low, loop, scheduleVars, wakeupVars, scheduleLoop, diff>>
    BY <1>3 DEF ReadInterval, vars, queueVars, loopVars
  <2>4. ScheduleOK' /\ (TimerSet => TimerSet')
    BY <2>3 DEF SInv, ScheduleOK, IntervalBounded, TimerSet, scheduleVars
  <2> QED BY <2>2, <2>3, <2>4, MethodOnly DEF scheduleVars
<1>4. CASE BackOff(u)
  <2>1. doubled[u] \in Nat /\ doubled' \in [Slots -> Nat]
    BY <1>4 DEF BackOff, SInv, OtherType
  <2>2. ScheduleOK' /\ (TimerSet => TimerSet') /\ scheduled' = scheduled
    BY <1>0, <1>4, <2>1, UpdateIntervalOK DEF BackOff, SInv
  <2> QED BY <1>0, <1>4, <2>1, <2>2, MethodOnly DEF BackOff
<1>5. CASE /\ Finish(u) \/ Cancel(u)
           /\ UNCHANGED <<scheduleVars, wakeupVars, scheduleLoop, callerVars>>
  BY <1>5, LowShrinks, QueueOnly DEF RunUpdate, SInv
<1> QED BY <1>1, <1>2, <1>3, <1>4, <1>5 DEF RunScheduledUpdate

-----------------------------------------------------------------------------
LEMMA SInvInit == SchedulerInit => SInv
<1> SUFFICES ASSUME SchedulerInit PROVE SInv
  OBVIOUS
<1>1. QInv
  BY QInvInit DEF SchedulerInit
<1>2. ScheduleOK /\ TimerOnTime
  BY DEF SchedulerInit, ScheduleOK, IntervalBounded, TimerOnTime
<1>3. OtherType /\ DiffOK /\ NotStarted
  <2>1. PICK on \in BOOLEAN :
          /\ enabled = {l \in {1} : on}
          /\ spc = [l \in Loops |-> IF l \in enabled THEN "top" ELSE "off"]
    BY DEF SchedulerInit
  <2>2. enabled \subseteq {1} /\ 1 \in Loops
    BY <2>1, QueueAssumption DEF Loops
  <2>3. loop = 1
    BY DEF SchedulerInit, Init
  <2>4. OtherType
    BY <2>1, <2>2 DEF SchedulerInit, OtherType, NoDiff, Channels
  <2>5. \A l \in Loops : l > 1 => l \notin enabled
    BY <2>2 DEF Loops
  <2> QED BY <2>1, <2>3, <2>4, <2>5 DEF SchedulerInit, DiffOK, NotStarted, NoDiff
<1>4. LowScheduled /\ UpsertScheduled
  BY DEF SchedulerInit, Init, LowScheduled, UpsertScheduled, NoDiff, ToSet
<1> QED BY <1>1, <1>2, <1>3, <1>4 DEF SInv

LEMMA SInvStep == SInv /\ [SchedulerNext]_schedulerVars => SInv'
<1> SUFFICES ASSUME SInv, [SchedulerNext]_schedulerVars PROVE SInv'
  OBVIOUS
<1>1. [Next]_vars
  BY QueueStep DEF SInv
<1>2. QInv'
  BY <1>1, QInvStep DEF SInv
<1>3. CASE Syncer
  BY <1>2, <1>3, SyncerStep
<1>4. CASE \E S \in SUBSET Repos : EnsureScheduled(S) \/ PrioritiseUncloned(S)
  BY <1>2, <1>4, UnclonedStep
<1>5. CASE \E r \in Repos : Request(r)
  BY <1>1, <1>5, LowShrinks, QueueOnly DEF Request, SInv
<1>6. CASE Tick \/ Fire \/ Wake
  BY <1>2, <1>6, TimeStep
<1>7. ASSUME NEW l \in Loops, RunScheduleLoop(l) PROVE SInv'
  BY <1>2, <1>7, ScheduleLoopStep
<1>8. ASSUME NEW l \in Loops, UpdateLoopStep(l) PROVE SInv'
  BY <1>1, <1>8, LowShrinks, QueueOnly DEF UpdateLoopStep, SInv
<1>9. ASSUME NEW u \in Slots, RunScheduledUpdate(u) PROVE SInv'
  BY <1>1, <1>2, <1>9, UpdateStep
<1>10. ASSUME NEW n \in Limits, RestartScheduler(n) PROVE SInv'
  BY <1>2, <1>10, RestartStep
<1>11. CASE UNCHANGED schedulerVars
  BY <1>1, <1>11, QueueOnly DEF schedulerVars, vars, queueVars, loopVars
<1> QED
  BY <1>3, <1>4, <1>5, <1>6, <1>7, <1>8, <1>9, <1>10, <1>11 DEF SchedulerNext

LEMMA SInvAlways == SchedulerSpec => []SInv
BY SInvInit, SInvStep, PTL DEF SchedulerSpec

(* The scheduler implements the update queue: its steps are steps of       *)
(* UpdateQueue, or leave the queue and its loops alone.                    *)
THEOREM SchedulerImplementsQueue == SchedulerSpec => ImplementsQueue
<1>1. SchedulerInit => Init
  BY DEF SchedulerInit
<1>2. SInv /\ [SchedulerNext]_schedulerVars => [Next]_vars
  BY QueueStep DEF SInv
<1> QED BY <1>1, <1>2, SInvAlways, PTL DEF SchedulerSpec, Spec, ImplementsQueue

(* So the limit on concurrent updates holds of the scheduler as a whole,   *)
(* through any number of restarts.                                         *)
THEOREM SchedulerWithinLimit == SchedulerSpec => []UpdatesWithinLimit
BY SchedulerImplementsQueue, UpdatesAlwaysWithinLimit, PTL DEF ImplementsQueue

(* The types of the scheduler's state.                                     *)
THEOREM SchedulerTypeCorrect == SchedulerSpec => []SchedulerTypeOK
<1>1. SInv => SchedulerTypeOK
  BY DEF SInv, QInv, ScheduleOK, OtherType, SchedulerTypeOK
<1> QED BY <1>1, SInvAlways, PTL

(* The schedule never sleeps past a repository that is due.                *)
THEOREM TimerAlwaysOnTime == SchedulerSpec => []TimerOnTime
<1>1. SInv => TimerOnTime
  BY DEF SInv
<1> QED BY <1>1, SInvAlways, PTL

(* Until the first restart, the queue's requests of low priority are for   *)
(* repositories in the schedule, or the one being removed.                 *)
THEOREM LowAlwaysScheduled == SchedulerSpec => []LowScheduled
<1>1. SInv => LowScheduled
  BY DEF SInv
<1> QED BY <1>1, SInvAlways, PTL

(* Intervals stay between the shortest and the longest delay, give or take *)
(* the jitter, for any delays and any jitter that is not 0.                *)
THEOREM IntervalAlwaysBounded == SchedulerSpec => []IntervalBounded
<1>1. SInv => IntervalBounded
  BY DEF SInv, ScheduleOK
<1> QED BY <1>1, SInvAlways, PTL

=============================================================================
