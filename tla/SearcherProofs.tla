--------------------------- MODULE SearcherProofs ---------------------------
(***************************************************************************)
(* Theorems about Searcher, for any number of searches, any archives, any  *)
(* limits and any size of the cache.                                       *)
(***************************************************************************)
EXTENDS Searcher, LimiterListProofs

(* The goroutine of a search holds the mutex of its key from the time it   *)
(* creates the temporary file.                                             *)
Exclusive == \A s \in Searches :
                fetch[s] \in {"acquire", "tar", "copy", "failed", "sync", "rename",
                             "reopen"}
                  => mutex[KeyOf(s)] = s

(* The temporary file is written before it is synced and synced before it  *)
(* is renamed.                                                             *)
Written == \A s \in Searches : /\ At(s, "sync") => part[KeyOf(s)] = "written"
                               /\ At(s, "rename") => part[KeyOf(s)] = "synced"

(* What is renamed is synced: there is nothing a power failure could tear. *)
Durable == \A k \in Keys : zip[k] \notin {"torn", "unsynced"}

(* A goroutine has ended when its search goes on or has its result.  The   *)
(* one that writes to the pipe has ended as well, unless the fetch failed. *)
Handshake == \A s \in Searches :
                /\ search[s].pc \in {"get", "use", "invalid", "nil"}
                     => At(s, "idle") /\ copier[s] = "none"
                /\ result[s] # "none" => search[s].pc = "prepare" /\ At(s, "idle")
                /\ result[s] = "path" => copier[s] = "none"
                /\ fetch[s] \notin {"idle", "copy", "failed"} => copier[s] = "none"

(* There is a victim as long as one is waited for or removed.              *)
Evicting == evictor \in {"wait", "remove"} => victims # <<>> /\ size > 0

DiskInv  == Exclusive /\ Written /\ Durable
LeaseInv == Handshake /\ Distinct(leases) /\ FetchesWithinLimit

-----------------------------------------------------------------------------
LEMMA NoSearchType == NoSearch \in SearchStates
BY SearcherAssumption DEF NoSearch, SearchStates

(* What a search is set to, by Leave or by Finish or by a new pc, is one   *)
(* of its states.                                                          *)
LEMMA LeaveType ==
    ASSUME TypeOK, NEW s \in Searches, Leave(s)
    PROVE  search' \in [Searches -> SearchStates]
<1>1. KeyOf(s) \in Keys
  BY DEF TypeOK, KeyOf, SearchStates
<1>2. [NoSearch EXCEPT !.key = KeyOf(s)] \in SearchStates
  BY <1>1, NoSearchType DEF SearchStates
<1> QED
  BY <1>2, NoSearchType DEF Leave, TypeOK

(* Leave ends one search, and leaves its goroutine its key.                *)
LEMMA LeaveFacts ==
    ASSUME TypeOK, NEW s \in Searches, Leave(s)
    PROVE  /\ search'[s].pc = "idle"
           /\ \A t \in Searches : t # s => search'[t] = search[t]
           /\ \A t \in Searches : fetch[t] # "idle" => search'[t].key = search[t].key
<1>1. [NoSearch EXCEPT !.key = KeyOf(s)].key = search[s].key
  BY DEF NoSearch, KeyOf
<1>2. [NoSearch EXCEPT !.key = KeyOf(s)].pc = "idle" /\ NoSearch.pc = "idle"
  BY DEF NoSearch
<1> QED
  BY <1>1, <1>2 DEF Leave, TypeOK, At

LEMMA PcType ==
    ASSUME TypeOK, NEW s \in Searches,
           NEW at \in {"idle", "prepare", "get", "use", "invalid", "nil"}
    PROVE  [search EXCEPT ![s].pc = at] \in [Searches -> SearchStates]
<1>1. [search[s] EXCEPT !.pc = at] \in SearchStates
  BY DEF TypeOK, SearchStates
<1> QED
  BY <1>1 DEF TypeOK

LEMMA FinishType ==
    ASSUME TypeOK, NEW s \in Searches, NEW res \in {"path", "error"}, Finish(s, res)
    PROVE  /\ fetch' = [fetch EXCEPT ![s] = "idle"]
           /\ search' \in [Searches -> SearchStates]
           /\ result' \in [Searches -> {"none", "path", "error"}]
BY NoSearchType DEF Finish, Go, TypeOK

(* The steps of a goroutine preserve the types.                            *)
LEMMA FetchType ==
    ASSUME TypeOK, Distinct(leases), NEW s \in Searches, RunFetch(s)
    PROVE  TypeOK'
<1> USE FinishType DEF TypeOK, Contents, Parts, At, Go, diskVars, evictVars
<1>1. Without(leases, s) \in Seq(Searches) /\ Append(leases, s) \in Seq(Searches)
  BY WithoutFacts, AppendFacts
<1>2. CASE Open(s)
  BY <1>2 DEF Open
<1>3. CASE Lock(s)
  BY <1>3 DEF Lock
<1>4. CASE LockLate(s)
  BY <1>4 DEF LockLate
<1>5. CASE Acquire(s)
  BY <1>1, <1>5 DEF Acquire
<1>6. CASE TarFails(s) \/ StartCopy(s) \/ CopyFails(s)
  BY <1>1, <1>6 DEF TarFails, StartCopy, CopyFails, Done
<1>a. CASE CopyEnds(s)
  BY <1>1, <1>a DEF CopyEnds, Done
<1>b. CASE Copied(s)
  BY <1>b DEF Copied
<1>7. CASE FetchFails(s)
  BY <1>1, <1>7 DEF FetchFails, CleanUp, Unlock
<1>8. CASE Sync(s)
  BY <1>8 DEF Sync
<1>9. CASE Rename(s)
  BY <1>9 DEF Rename, CleanUp
<1>10. CASE Reopen(s)
  BY <1>10 DEF Reopen, Unlock
<1> QED
  BY <1>2, <1>3, <1>4, <1>5, <1>6, <1>7, <1>8, <1>9, <1>10, <1>a, <1>b DEF RunFetch

(* So do the steps of a search.                                            *)
LEMMA SearchType ==
    ASSUME TypeOK, NEW s \in Searches,
           RunSearch(s) \/ \E k \in Keys : Prepare(s, k)
    PROVE  TypeOK'
<1> USE LeaveType, PcType DEF TypeOK, Contents, Parts, At, Go, diskVars, fetchVars,
        evictVars
<1>0. KeyOf(s) \in Keys
  BY DEF KeyOf, SearchStates
<1>1. ASSUME NEW k \in Keys, Prepare(s, k) PROVE TypeOK'
  <2>1. [pc |-> "prepare", key |-> k, tries |-> 0] \in SearchStates
    BY DEF SearchStates
  <2> QED BY <1>1, <2>1 DEF Prepare
<1>2. CASE GiveUp(s)
  BY <1>0, <1>2 DEF GiveUp
<1>3. CASE Prepared(s)
  BY <1>0, <1>3 DEF Prepared
<1>4. CASE Get(s)
  <2>1. [search EXCEPT ![s].pc = "use"] \in [Searches -> SearchStates]
    BY PcType
  <2>2. [search EXCEPT ![s].pc = "invalid"] \in [Searches -> SearchStates]
    BY PcType
  <2>3. search' \in [Searches -> SearchStates]
    BY <1>4, <2>1, <2>2 DEF Get
  <2>4. mapped' \subseteq Keys
    BY <1>0, <1>4 DEF Get
  <2> QED BY <1>4, <2>3, <2>4 DEF Get
<1>5. CASE RemoveInvalid(s)
  <2>1. [pc |-> "prepare", key |-> KeyOf(s), tries |-> 1] \in SearchStates
    BY <1>0 DEF SearchStates
  <2>2. search' \in [Searches -> SearchStates]
    BY <1>5, <2>1 DEF RemoveInvalid
  <2> QED BY <1>0, <1>5, <2>2 DEF RemoveInvalid
<1>6. CASE Close(s)
  BY <1>0, <1>6 DEF Close
<1> QED
  BY <1>1, <1>2, <1>3, <1>4, <1>5, <1>6 DEF RunSearch

(* And those of the other goroutines, the disk and the machine.            *)
LEMMA WalkType ==
    ASSUME NEW K \in SUBSET Keys, NEW v \in SetToSeqs(K)
    PROVE  v \in Seq(Keys) /\ IsFiniteSet(K) /\ Cardinality(K) \in Nat
<1>1. IsFiniteSet(K)
  BY FS_Subset, SearcherAssumption
<1>2. Cardinality(K) \in Nat
  BY <1>1, FS_CardinalityType
<1>3. v \in [1 .. Cardinality(K) -> Keys]
  BY DEF SetToSeqs
<1> QED
  BY <1>1, <1>2, <1>3, SeqDef

LEMMA EvictType ==
    ASSUME TypeOK, Evicting, Evict
    PROVE  TypeOK' /\ Evicting'
<1> USE SearcherAssumption DEF TypeOK, Contents, Parts, Evicting, diskVars, fetchVars
<1>1. CASE Walk
  <2> DEFINE zips  == {k \in Keys : zip[k] # "none"}
             parts == {k \in Keys : part[k] # "none"}
  <2>1. victims' \in SetToSeqs(zips)
    BY <1>1 DEF Walk
  <2>2. victims' \in Seq(Keys) /\ Cardinality(zips) \in Nat
    BY <2>1, WalkType
  <2>3. IsFiniteSet(parts)
    BY FS_Subset
  <2>4. Cardinality(parts) \in Nat
    BY <2>3, FS_CardinalityType
  <2>5. size' = Cardinality(zips) + Cardinality(parts)
    BY <1>1 DEF Walk
  <2>6. size' \in Nat
    BY <2>2, <2>4, <2>5
  <2> HIDE DEF zips, parts
  <2> QED BY <1>1, <2>2, <2>6 DEF Walk
<1>2. CASE Delete
  BY <1>2 DEF Delete
<1>3. CASE Unmap
  BY <1>3 DEF Unmap
<1>4. CASE RemoveZip
  <2>1. Head(victims) \in Keys /\ Tail(victims) \in Seq(Keys)
    BY <1>4, TailFacts DEF RemoveZip
  <2>2. size' \in Nat
    BY <1>4 DEF RemoveZip
  <2> QED BY <1>4, <2>1, <2>2 DEF RemoveZip
<1>5. CASE EvictDone
  BY <1>5 DEF EvictDone
<1> QED
  BY <1>1, <1>2, <1>3, <1>4, <1>5 DEF Evict

LEMMA OtherType ==
    ASSUME TypeOK, Distinct(leases),
           \/ \E n \in Limits : SetLimit(n)
           \/ \E k \in Keys : Spoil(k)
           \/ Crash
    PROVE  TypeOK' /\ (Evicting => Evicting')
<1> USE SearcherAssumption DEF TypeOK, Contents, Parts, Evicting, diskVars, fetchVars,
        evictVars
<1>1. ASSUME NEW n \in Limits, SetLimit(n) PROVE TypeOK' /\ (Evicting => Evicting')
  <2>1. n \in Int
    OBVIOUS
  <2>2. WithinLimit(leases, n) \in Seq(Searches)
    BY <2>1, WithinLimitFacts
  <2> QED BY <1>1, <2>2 DEF SetLimit
<1>2. ASSUME NEW k \in Keys, Spoil(k) PROVE TypeOK' /\ (Evicting => Evicting')
  BY <1>2 DEF Spoil
<1>3. CASE Crash
  BY <1>3, NoSearchType DEF Crash
<1> QED
  BY <1>1, <1>2, <1>3

-----------------------------------------------------------------------------
(* Every step preserves that a file in place is whole and synced.          *)
LEMMA DiskStep ==
    ASSUME TypeOK, DiskInv, Next
    PROVE  DiskInv'
<1>0. Nobody \notin Searches /\ \A s \in Searches : search[s].key \in Keys
  BY SearcherAssumption DEF TypeOK, SearchStates
<1>b. ASSUME UNCHANGED <<part, mutex, fetch>>,
             \A k \in Keys : zip'[k] = zip[k] \/ zip'[k] = "none",
             \A t \in Searches : fetch[t] # "idle" => search'[t].key = search[t].key
      PROVE  DiskInv'
  BY <1>b DEF DiskInv, Exclusive, Written, Durable, At, KeyOf
<1> USE DEF TypeOK, DiskInv, Exclusive, Written, Durable, At, Go, KeyOf, diskVars,
        fetchVars, evictVars
<1>1. ASSUME NEW s \in Searches, Open(s) PROVE DiskInv'
  <2>1. CASE Finish(s, "path")
    BY <1>0, <1>1, <2>1 DEF Open, Finish
  <2>2. CASE Go(s, "lock") /\ UNCHANGED search
    BY <1>0, <1>1, <2>2 DEF Open
  <2> QED BY <1>1, <2>1, <2>2 DEF Open
<1>2. ASSUME NEW s \in Searches, Lock(s) PROVE DiskInv'
  BY <1>0, <1>2 DEF Lock
<1>3. ASSUME NEW s \in Searches, LockLate(s) PROVE DiskInv'
  BY <1>0, <1>3 DEF LockLate, Finish
<1>4. ASSUME NEW s \in Searches, Acquire(s) PROVE DiskInv'
  BY <1>0, <1>4 DEF Acquire
<1>5. ASSUME NEW s \in Searches, Copied(s) PROVE DiskInv'
  BY <1>0, <1>5 DEF Copied
<1>a. ASSUME NEW s \in Searches,
             TarFails(s) \/ StartCopy(s) \/ CopyEnds(s) \/ CopyFails(s)
      PROVE  DiskInv'
  BY <1>0, <1>a DEF TarFails, StartCopy, CopyEnds, CopyFails
<1>6. ASSUME NEW s \in Searches, FetchFails(s) PROVE DiskInv'
  BY <1>0, <1>6 DEF FetchFails, CleanUp, Unlock, Finish
<1>7. ASSUME NEW s \in Searches, Sync(s) PROVE DiskInv'
  BY <1>0, <1>7 DEF Sync
<1>8. ASSUME NEW s \in Searches, Rename(s) PROVE DiskInv'
  BY <1>0, <1>8 DEF Rename, CleanUp
<1>9. ASSUME NEW s \in Searches, Reopen(s) PROVE DiskInv'
  BY <1>0, <1>9 DEF Reopen, Unlock, Finish
<1>10. ASSUME NEW s \in Searches, NEW k \in Keys, Prepare(s, k) PROVE DiskInv'
  BY <1>0, <1>10 DEF Prepare
<1>l. ASSUME NEW s \in Searches, Leave(s)
      PROVE  \A t \in Searches : fetch[t] # "idle" => search'[t].key = search[t].key
  <2> HIDE DEF TypeOK, At
  <2> QED BY <1>l, LeaveFacts
<1>p. ASSUME NEW s \in Searches, NEW at, search' = [search EXCEPT ![s].pc = at]
      PROVE  \A t \in Searches : fetch[t] # "idle" => search'[t].key = search[t].key
  BY <1>p DEF SearchStates
<1>11. ASSUME NEW s \in Searches, GiveUp(s) \/ Close(s) PROVE DiskInv'
  <2>1. UNCHANGED <<zip, part, mutex, fetch>>
    BY <1>11 DEF GiveUp, Close
  <2>2. Leave(s)
    BY <1>11 DEF GiveUp, Close
  <2> HIDE DEF DiskInv
  <2> QED BY <1>b, <1>l, <2>1, <2>2
<1>12. ASSUME NEW s \in Searches, Prepared(s) PROVE DiskInv'
  <2>1. UNCHANGED <<zip, part, mutex, fetch>>
    BY <1>12 DEF Prepared
  <2>2. Leave(s) \/ search' = [search EXCEPT ![s].pc = "get"]
    BY <1>12 DEF Prepared
  <2> HIDE DEF DiskInv
  <2> QED BY <1>b, <1>l, <1>p, <2>1, <2>2
<1>13. ASSUME NEW s \in Searches, Get(s) PROVE DiskInv'
  <2>1. UNCHANGED <<zip, part, mutex, fetch>>
    BY <1>13 DEF Get
  <2>2. \/ Leave(s)
        \/ search' = [search EXCEPT ![s].pc = "use"]
        \/ search' = [search EXCEPT ![s].pc = "invalid"]
    BY <1>13 DEF Get
  <2> HIDE DEF DiskInv
  <2> QED BY <1>b, <1>l, <1>p, <2>1, <2>2
<1>14. ASSUME NEW s \in Searches, RemoveInvalid(s) PROVE DiskInv'
  <2>0. UNCHANGED <<part, mutex>> /\ \A k \in Keys : zip'[k] \in {zip[k], "none"}
    BY <1>14 DEF RemoveInvalid
  <2>1. CASE Leave(s) /\ UNCHANGED fetch
    <3> HIDE DEF DiskInv
    <3> QED BY <1>b, <1>l, <2>0, <2>1
  <2>2. CASE search' = [search EXCEPT ![s].pc = "nil"] /\ UNCHANGED fetch
    <3> HIDE DEF DiskInv
    <3> QED BY <1>b, <1>p, <2>0, <2>2
  <2>3. CASE Go(s, "open") /\ \A t \in Searches : t # s => search'[t] = search[t]
    BY <1>14, <2>3 DEF RemoveInvalid
  <2> QED BY <1>14, <2>1, <2>2, <2>3 DEF RemoveInvalid
<1>15. CASE Evict
  BY <1>15 DEF Evict, Walk, Delete, Unmap, RemoveZip, EvictDone
<1>16. ASSUME NEW n \in Limits, SetLimit(n) PROVE DiskInv'
  BY <1>16 DEF SetLimit
<1>17. ASSUME NEW k \in Keys, Spoil(k) PROVE DiskInv'
  BY <1>17 DEF Spoil
<1>18. CASE Crash
  BY <1>18 DEF Crash
<1> QED
  BY <1>1, <1>2, <1>3, <1>4, <1>5, <1>6, <1>7, <1>8, <1>9, <1>10, <1>11, <1>12,
     <1>13, <1>14, <1>15, <1>16, <1>17, <1>18, <1>a
  DEF Next, RunFetch, RunSearch

(* Every step preserves that the limiter's list holds the fetches under    *)
(* way, and no others, within the limit.                                   *)
LEMMA LeaseStep ==
    ASSUME TypeOK, LeaseInv, Next
    PROVE  LeaseInv'
<1>0. ToSet(leases) \subseteq Searches
  BY DEF TypeOK, ToSet
<1>a. leases \in Seq(Searches) /\ Len(leases) \in Nat /\ limit \in Nat
  BY SearcherAssumption DEF TypeOK
<1> USE DEF TypeOK, LeaseInv, Handshake, FetchesWithinLimit, At, Go, diskVars,
        fetchVars, evictVars
<1>1. ASSUME NEW s \in Searches, Open(s) \/ LockLate(s) PROVE LeaseInv'
  <2>1. CASE fetch' = [fetch EXCEPT ![s] = "lock"] /\ UNCHANGED <<search, result>>
    BY <1>0, <1>1, <2>1 DEF Open, LockLate
  <2>2. ASSUME NEW res \in {"path", "error"}, Finish(s, res) PROVE LeaseInv'
    BY <1>0, <1>1, <2>2, NoSearchType DEF Open, LockLate, Finish, NoSearch
  <2> QED BY <1>1, <2>1, <2>2 DEF Open, LockLate
<1>2. ASSUME NEW s \in Searches, Lock(s) \/ Sync(s) \/ Rename(s) PROVE LeaseInv'
  <2>1. CASE Lock(s)
    BY <1>0, <2>1 DEF Lock
  <2>2. CASE Sync(s)
    BY <1>0, <2>2 DEF Sync
  <2>3. CASE Rename(s)
    BY <1>0, <2>3 DEF Rename
  <2> QED BY <1>2, <2>1, <2>2, <2>3
<1>3. ASSUME NEW s \in Searches, Acquire(s) PROVE LeaseInv'
  <2>1. s \notin ToSet(leases)
    BY <1>3 DEF Acquire
  <2>2. /\ Len(leases') = Len(leases) + 1
        /\ ToSet(leases') = ToSet(leases) \cup {s}
        /\ Distinct(leases')
    BY <1>a, <1>3, <2>1, AppendFacts DEF Acquire
  <2>3. Len(leases) # limit
    BY <1>3 DEF Acquire, AtLimit
  <2>4. Len(leases') <= limit'
    BY <1>a, <1>3, <2>2, <2>3 DEF Acquire
  <2> QED BY <1>0, <1>3, <2>2, <2>4 DEF Acquire
<1>w. ASSUME NEW s \in Searches
      PROVE  /\ Distinct(Without(leases, s)) /\ Len(Without(leases, s)) <= limit
             /\ ToSet(Without(leases, s)) = ToSet(leases) \ {s}
  <2>1. /\ Distinct(Without(leases, s)) /\ Len(Without(leases, s)) <= Len(leases)
        /\ ToSet(Without(leases, s)) = ToSet(leases) \ {s}
        /\ Without(leases, s) \in Seq(Searches)
    BY <1>a, WithoutFacts
  <2> QED BY <1>a, <2>1
<1>4. ASSUME NEW s \in Searches, TarFails(s) \/ CopyEnds(s) PROVE LeaseInv'
  <2>1. CASE TarFails(s)
    BY <1>0, <1>w, <2>1 DEF TarFails, Done
  <2>2. CASE CopyEnds(s)
    BY <1>0, <1>w, <2>2 DEF CopyEnds, Done
  <2> QED BY <1>4, <2>1, <2>2
<1>b. ASSUME NEW s \in Searches, StartCopy(s) \/ Copied(s) \/ CopyFails(s)
      PROVE  LeaseInv'
  BY <1>0, <1>b DEF StartCopy, Copied, CopyFails
<1>5. ASSUME NEW s \in Searches, FetchFails(s) PROVE LeaseInv'
  <2>1. Distinct(leases)' /\ FetchesWithinLimit'
    BY <1>0, <1>5 DEF FetchFails, Unlock, Finish
  <2>2. Handshake'
    BY <1>5 DEF FetchFails, Unlock, Finish, NoSearch
  <2> QED BY <2>1, <2>2
<1>6. ASSUME NEW s \in Searches, Reopen(s) PROVE LeaseInv'
  BY <1>0, <1>6 DEF Reopen, Unlock, Finish, NoSearch
<1>7. ASSUME NEW s \in Searches, NEW k \in Keys, Prepare(s, k) PROVE LeaseInv'
  BY <1>0, <1>7 DEF Prepare
<1>8. ASSUME NEW s \in Searches, GiveUp(s) \/ Close(s) PROVE LeaseInv'
  BY <1>8, LeaveFacts DEF GiveUp, Close
<1>9. ASSUME NEW s \in Searches, Prepared(s) PROVE LeaseInv'
  <2>1. CASE Leave(s)
    BY <1>9, <2>1, LeaveFacts DEF Prepared
  <2>2. CASE search' = [search EXCEPT ![s].pc = "get"] /\ result[s] = "path"
    BY <1>9, <2>2 DEF Prepared
  <2>3. result[s] \in {"none", "path", "error"}
    BY DEF TypeOK
  <2> QED BY <1>9, <2>1, <2>2, <2>3 DEF Prepared
<1>10. ASSUME NEW s \in Searches, Get(s) PROVE LeaseInv'
  <2>1. CASE Leave(s)
    BY <1>10, <2>1, LeaveFacts DEF Get
  <2>2. CASE search' = [search EXCEPT ![s].pc = "use"]
    BY <1>10, <2>2 DEF Get
  <2>3. CASE search' = [search EXCEPT ![s].pc = "invalid"]
    BY <1>10, <2>3 DEF Get
  <2> QED BY <1>10, <2>1, <2>2, <2>3 DEF Get
<1>11. ASSUME NEW s \in Searches, RemoveInvalid(s) PROVE LeaseInv'
  <2>1. CASE Leave(s) /\ UNCHANGED fetch
    BY <1>11, <2>1, LeaveFacts DEF RemoveInvalid
  <2>2. CASE search' = [search EXCEPT ![s].pc = "nil"] /\ UNCHANGED fetch
    BY <1>11, <2>2 DEF RemoveInvalid
  <2>3. CASE /\ Go(s, "open") /\ search'[s].pc = "prepare"
             /\ \A t \in Searches : t # s => search'[t] = search[t]
    BY <1>0, <1>11, <2>3 DEF RemoveInvalid
  <2> QED BY <1>11, <2>1, <2>2, <2>3 DEF RemoveInvalid
<1>12. CASE Evict \/ \E k \in Keys : Spoil(k)
  BY <1>12 DEF Evict, Walk, Delete, Unmap, RemoveZip, EvictDone, Spoil
<1>13. ASSUME NEW n \in Limits, SetLimit(n) PROVE LeaseInv'
  <2>1. n \in Int /\ n >= 0
    BY SearcherAssumption
  <2>2. /\ Len(WithinLimit(leases, n)) <= n /\ Distinct(WithinLimit(leases, n))
        /\ ToSet(WithinLimit(leases, n)) \subseteq ToSet(leases)
    BY <1>a, <2>1, WithinLimitFacts
  <2> QED BY <1>13, <2>2 DEF SetLimit
<1>14. CASE Crash
  BY <1>14, SearcherAssumption DEF Crash, Distinct, ToSet, NoSearch
<1> QED
  BY <1>1, <1>2, <1>3, <1>4, <1>5, <1>6, <1>7, <1>8, <1>9, <1>10, <1>11, <1>12,
     <1>13, <1>14, <1>b
  DEF Next, RunFetch, RunSearch

(* Every step preserves that the files in use are mapped.                  *)
LEMMA MappedStep ==
    ASSUME TypeOK, InUseMapped, Next
    PROVE  InUseMapped'
<1> SUFFICES ASSUME NEW k \in Keys, NEW t \in Searches,
                    search'[t].pc = "use", search'[t].key = k
             PROVE  k \in mapped'
  BY DEF InUseMapped, Users, KeyOf
<1> USE DEF TypeOK, diskVars, fetchVars, evictVars
<1>0. (search[t].pc = "use" /\ search[t].key = k) => k \in mapped
  BY DEF InUseMapped, Users, KeyOf
<1>1. ASSUME NEW s \in Searches, Get(s) PROVE k \in mapped'
  <2>1. CASE Leave(s)
    BY <1>0, <1>1, <2>1, LeaveFacts DEF Get
  <2>2. CASE search' = [search EXCEPT ![s].pc = "use"] /\ mapped' = mapped \cup {KeyOf(s)}
    BY <1>0, <1>1, <2>2 DEF KeyOf
  <2>3. CASE search' = [search EXCEPT ![s].pc = "invalid"] /\ UNCHANGED mapped
    BY <1>0, <1>1, <2>3
  <2> QED BY <1>1, <2>1, <2>2, <2>3 DEF Get
<1>2. CASE Unmap
  <2>1. search[t].pc = "use" /\ search[t].key = k
    BY <1>2 DEF Unmap
  <2>2. Head(victims) # k
    BY <1>2, <2>1 DEF Unmap, Users, KeyOf
  <2> QED BY <1>0, <1>2, <2>1, <2>2 DEF Unmap
<1>3. CASE mapped' = mapped /\ (search'[t] = search[t] \/ search'[t].pc # "use")
  BY <1>0, <1>3
<1>4. ASSUME NEW s \in Searches, NEW res \in {"path", "error"}, Finish(s, res),
             UNCHANGED mapped
      PROVE  k \in mapped'
  BY <1>3, <1>4 DEF Finish, NoSearch
<1>5. ASSUME NEW s \in Searches, RunFetch(s) PROVE k \in mapped'
  BY <1>3, <1>4, <1>5
  DEF RunFetch, Open, Lock, LockLate, Acquire, TarFails, StartCopy, CopyEnds, Copied,
      CopyFails, FetchFails, Unlock, Sync, Rename, Reopen
<1>6. ASSUME NEW s \in Searches, NEW key \in Keys, Prepare(s, key) PROVE k \in mapped'
  BY <1>3, <1>6 DEF Prepare
<1>7. ASSUME NEW s \in Searches,
             GiveUp(s) \/ Prepared(s) \/ RemoveInvalid(s) \/ Close(s)
      PROVE  k \in mapped'
  <2>1. UNCHANGED mapped
    BY <1>7 DEF GiveUp, Prepared, RemoveInvalid, Close
  <2>2. CASE Leave(s)
    BY <1>3, <2>1, <2>2, LeaveFacts
  <2>3. CASE search' = [search EXCEPT ![s].pc = "get"]
    BY <1>3, <2>1, <2>3
  <2>4. CASE search' = [search EXCEPT ![s].pc = "nil"]
    BY <1>3, <2>1, <2>4
  <2>5. CASE search' = [search EXCEPT ![s] =
                          [pc |-> "prepare", key |-> KeyOf(s), tries |-> 1]]
    BY <1>3, <2>1, <2>5
  <2> QED BY <1>7, <2>2, <2>3, <2>4, <2>5 DEF GiveUp, Prepared, RemoveInvalid, Close
<1>8. CASE \/ Walk \/ Delete \/ RemoveZip \/ EvictDone
           \/ \E n \in Limits : SetLimit(n)
           \/ \E key \in Keys : Spoil(key)
  BY <1>3, <1>8 DEF Walk, Delete, RemoveZip, EvictDone, SetLimit, Spoil
<1>9. CASE Crash
  BY <1>9 DEF Crash, NoSearch
<1> QED
  BY <1>1, <1>2, <1>5, <1>6, <1>7, <1>8, <1>9 DEF Next, RunSearch, Evict

-----------------------------------------------------------------------------
SearcherInv == TypeOK /\ Evicting /\ DiskInv /\ LeaseInv /\ InUseMapped

LEMMA SearcherStart == Init => SearcherInv
<1> SUFFICES ASSUME Init PROVE SearcherInv
  OBVIOUS
<1> USE SearcherAssumption DEF Init
<1>1. TypeOK
  BY NoSearchType DEF TypeOK, Contents, Parts
<1>2. Evicting /\ DiskInv
  BY DEF Evicting, DiskInv, Exclusive, Written, Durable, At
<1>3. LeaseInv
  BY DEF LeaseInv, Handshake, Distinct, FetchesWithinLimit, ToSet, At, NoSearch
<1>4. InUseMapped
  BY DEF InUseMapped, Users, NoSearch
<1> QED BY <1>1, <1>2, <1>3, <1>4 DEF SearcherInv

LEMMA SearcherStep == SearcherInv /\ [Next]_vars => SearcherInv'
<1> SUFFICES ASSUME SearcherInv, [Next]_vars PROVE SearcherInv'
  OBVIOUS
<1>1. CASE Next
  <2>1. DiskInv' /\ LeaseInv' /\ InUseMapped'
    BY <1>1, DiskStep, LeaseStep, MappedStep DEF SearcherInv
  <2>2. TypeOK' /\ Evicting'
    <3>1. CASE \E s \in Searches : RunFetch(s)
      <4>1. TypeOK' BY <3>1, FetchType DEF SearcherInv, LeaseInv
      <4>2. UNCHANGED evictVars
        BY <3>1 DEF RunFetch, Open, Lock, LockLate, Acquire, TarFails, StartCopy,
                    CopyEnds, Copied, CopyFails, FetchFails, Sync, Rename, Reopen,
                    evictVars
      <4> QED BY <4>1, <4>2 DEF SearcherInv, Evicting, evictVars
    <3>2. CASE \E s \in Searches : RunSearch(s) \/ \E k \in Keys : Prepare(s, k)
      <4>1. TypeOK' BY <3>2, SearchType DEF SearcherInv
      <4>2. UNCHANGED evictVars
        BY <3>2 DEF RunSearch, GiveUp, Prepared, Get, RemoveInvalid, Close, Prepare,
                    evictVars
      <4> QED BY <4>1, <4>2 DEF SearcherInv, Evicting, evictVars
    <3>3. CASE Evict
      BY <3>3, EvictType DEF SearcherInv
    <3>4. CASE \/ \E n \in Limits : SetLimit(n)
               \/ \E k \in Keys : Spoil(k)
               \/ Crash
      BY <3>4, OtherType DEF SearcherInv, LeaseInv
    <3> QED BY <1>1, <3>1, <3>2, <3>3, <3>4 DEF Next
  <2> QED BY <2>1, <2>2 DEF SearcherInv
<1>2. CASE UNCHANGED vars
  BY <1>2 DEF SearcherInv, TypeOK, Evicting, DiskInv, Exclusive, Written, Durable,
     LeaseInv, Handshake, FetchesWithinLimit, InUseMapped, Users, At, KeyOf, vars,
     diskVars, fetchVars, evictVars
<1> QED BY <1>1, <1>2

(* The types of the searcher's state.                                      *)
THEOREM SearcherTypeCorrect == Spec => []TypeOK
<1>1. SearcherInv => TypeOK
  BY DEF SearcherInv
<1> QED BY <1>1, SearcherStart, SearcherStep, PTL DEF Spec

(* An archive in the disk cache is whole, however many searches fetch it   *)
(* at the same time, and whenever the machine loses power.                 *)
THEOREM ArchivesWhole == Spec => []NeverTorn
<1>1. SearcherInv => NeverTorn
  BY DEF SearcherInv, DiskInv, Durable, NeverTorn
<1> QED BY <1>1, SearcherStart, SearcherStep, PTL DEF Spec

(* The file a search reads stays mapped until the search closes it.        *)
THEOREM FilesInUseMapped == Spec => []InUseMapped
<1>1. SearcherInv => InUseMapped
  BY DEF SearcherInv
<1> QED BY <1>1, SearcherStart, SearcherStep, PTL DEF Spec

(* Whoever holds the limiter has a request to gitserver under way, also    *)
(* when the fetch it belongs to has failed, and within its limit.          *)
THEOREM FetchesLimited == Spec => []FetchesWithinLimit
<1>1. SearcherInv => FetchesWithinLimit
  BY DEF SearcherInv, LeaseInv
<1> QED BY <1>1, SearcherStart, SearcherStep, PTL DEF Spec

=============================================================================
