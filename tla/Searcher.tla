----------------------------- MODULE Searcher ------------------------------
(***************************************************************************)
(* The archives of cmd/searcher: Store.PrepareZipPaths and fetch, the disk *)
(* cache of internal/diskcache, the cache of mapped zip files in           *)
(* zipcache.go and getZipFileWithRetry, with the goroutines that evict     *)
(* files and adjust the limit of fetches.                                  *)
(*                                                                         *)
(* A search waits for a goroutine of its own, which goes on when the       *)
(* search has given up.  That one reads, through a pipe, what a third      *)
(* goroutine makes of the archive, which holds the limiter and may go on   *)
(* when the reader has given up.  A search's name is used again when its   *)
(* goroutines have ended.  The paths share one shard of the zip cache.     *)
(***************************************************************************)
EXTENDS LimiterList, FiniteSets

CONSTANTS Searches,      \* bound: searches, and fetches, at one time
          Keys,          \* archives: a repository at a commit, some paths
          Nobody,
          Limits,        \* what watchConfig computes, never 0
          MaxCacheSize,  \* MaxCacheSizeBytes: every file is of size 1
          Spoilable,     \* bound: the keys whose file the disk may spoil
          Wanted         \* bound: the keys each search may be for

ASSUME SearcherAssumption == /\ Nobody \notin Searches
                             /\ IsFiniteSet(Keys) /\ Keys # {}
                             /\ Limits \subseteq Nat \ {0}
                             /\ Limits # {}
                             /\ MaxCacheSize \in Nat
                             /\ Spoilable \subseteq Keys
                             /\ Wanted \in [Searches -> SUBSET Keys]

VARIABLES zip, part,    \* each key's file on disk, and its temporary file
          mutex,        \* urlMu: the goroutine that fetches the key
          search,       \* where each search is, its key and its tries
          fetch,        \* where each search's goroutine is
          copier,       \* where the goroutine is that writes to its pipe
          result,       \* what the goroutine has sent to its search
          limit, leases,\* fetchLimiter
          mapped,       \* keys with an entry in the zip cache
          evictor,      \* where Evict is, and the path it is at
          victims, size \* the zip files it walked over, and its size

diskVars   == <<zip, part>>
fetchVars  == <<mutex, fetch, copier, result, limit, leases>>
evictVars  == <<evictor, victims, size>>
vars == <<diskVars, fetchVars, search, mapped, evictVars>>

(* A zip file is "torn" if it is not the whole archive, "rotten" if the    *)
(* disk spoiled it, "unsynced" if a power failure would tear it.           *)
Contents == {"none", "whole", "unsynced", "torn", "rotten"}
Parts    == {"none", "partial", "written", "synced"}

SearchStates == [pc    : {"idle", "prepare", "get", "use", "invalid", "nil"},
                 key   : Keys,
                 tries : 0 .. 1]

NoSearch == [pc |-> "idle", key |-> CHOOSE k \in Keys : TRUE, tries |-> 0]

TypeOK == /\ zip \in [Keys -> Contents] /\ part \in [Keys -> Parts]
          /\ mutex \in [Keys -> Searches \cup {Nobody}]
          /\ search \in [Searches -> SearchStates]
          /\ fetch \in [Searches -> {"idle", "open", "lock", "acquire", "tar",
                                     "copy", "failed", "sync", "rename",
                                     "reopen"}]
          /\ copier \in [Searches -> {"none", "copying", "eof", "error"}]
          /\ result \in [Searches -> {"none", "path", "error"}]
          /\ limit \in Limits /\ leases \in Seq(Searches)
          /\ mapped \subseteq Keys
          /\ evictor \in {"idle", "next", "wait", "remove"}
          /\ victims \in Seq(Keys) /\ size \in Nat

Init == /\ zip = [k \in Keys |-> "none"] /\ part = [k \in Keys |-> "none"]
        /\ mutex = [k \in Keys |-> Nobody]
        /\ search = [s \in Searches |-> NoSearch]
        /\ fetch = [s \in Searches |-> "idle"]
        /\ copier = [s \in Searches |-> "none"]
        /\ result = [s \in Searches |-> "none"]
        /\ limit \in Limits /\ leases = <<>>
        /\ mapped = {}
        /\ evictor = "idle" /\ victims = <<>> /\ size = 0

KeyOf(s) == search[s].key

-----------------------------------------------------------------------------
(* OpenWithPath and doFetch, on behalf of search s.                        *)
At(s, at) == fetch[s] = at
Go(s, at) == fetch' = [fetch EXCEPT ![s] = at]

(* The goroutine ends; its search gets the result if it still waits.       *)
Finish(s, res) ==
    /\ Go(s, "idle")
    /\ IF search[s].pc = "prepare"
         THEN result' = [result EXCEPT ![s] = res] /\ UNCHANGED search
         ELSE search' = [search EXCEPT ![s] = NoSearch] /\ UNCHANGED result

(* The deferred calls of doFetch: the temporary file is removed, if it has *)
(* not been renamed, and the mutex unlocked.                               *)
Unlock(s, res) == /\ Finish(s, res)
                  /\ mutex' = [mutex EXCEPT ![KeyOf(s)] = Nobody]

CleanUp(s) == part' = [part EXCEPT ![KeyOf(s)] = "none"]

(* The fast path: the file is there; or it cannot be opened.               *)
Open(s) == /\ At(s, "open")
           /\ \/ zip[KeyOf(s)] # "none" /\ Finish(s, "path")
              \/ Go(s, "lock") /\ UNCHANGED <<result, search>>
           /\ UNCHANGED <<diskVars, mutex, copier, limit, leases, mapped,
                          evictVars>>

(* Mutant of Lock: the mutex is not waited for.                            *)
LockNot(s) == /\ At(s, "lock")
              /\ zip' = [zip EXCEPT ![KeyOf(s)] = "none"]
              /\ mutex' = [mutex EXCEPT ![KeyOf(s)] = s]
              /\ part' = [part EXCEPT ![KeyOf(s)] = "partial"]
              /\ Go(s, "acquire")
              /\ UNCHANGED <<search, copier, result, limit, leases, mapped,
                             evictVars>>

(* The mutex is acquired and the file still cannot be opened.  If it is    *)
(* there it is removed.  The temporary file is created, or truncated if a  *)
(* process that crashed left it behind.                                    *)
Lock(s) == /\ At(s, "lock")
           /\ mutex[KeyOf(s)] = Nobody
           /\ zip' = [zip EXCEPT ![KeyOf(s)] = "none"]
           /\ mutex' = [mutex EXCEPT ![KeyOf(s)] = s]
           /\ part' = [part EXCEPT ![KeyOf(s)] = "partial"]
           /\ Go(s, "acquire")
           /\ UNCHANGED <<search, copier, result, limit, leases, mapped,
                          evictVars>>

(* The mutex was held for so long that the context is done, or by one that *)
(* fetched the file; or the temporary file cannot be created, and what     *)
(* could not be opened is gone.                                            *)
LockLate(s) == /\ At(s, "lock")
               /\ mutex[KeyOf(s)] = Nobody
               /\ \/ Finish(s, "error") /\ UNCHANGED zip
                  \/ /\ Finish(s, "error")
                     /\ zip' = [zip EXCEPT ![KeyOf(s)] = "none"]
                  \/ zip[KeyOf(s)] # "none" /\ Finish(s, "path") /\ UNCHANGED zip
               /\ UNCHANGED <<part, mutex, copier, limit, leases, mapped,
                              evictVars>>

(* Store.fetch: the limiter, then the archive from gitserver.              *)
Acquire(s) == /\ At(s, "acquire")
              /\ ~AtLimit(leases, limit)
              /\ leases' = Append(leases, s)
              /\ Go(s, "tar")
              /\ UNCHANGED <<diskVars, search, mutex, copier, result, limit,
                             mapped, evictVars>>

(* done: the limiter is released, unless SetLimit has done so.             *)
Done(s) == leases' = Without(leases, s)

(* gitserver, or the filter, returns an error: so does fetch.              *)
TarFails(s) == /\ At(s, "tar")
               /\ Done(s)
               /\ Go(s, "failed")
               /\ UNCHANGED <<diskVars, search, mutex, copier, result, limit,
                              mapped, evictVars>>

(* The goroutine that makes a zip file of the archive is started; fetch    *)
(* returns the other end of its pipe.                                      *)
StartCopy(s) == /\ At(s, "tar")
                /\ copier' = [copier EXCEPT ![s] = "copying"]
                /\ Go(s, "copy")
                /\ UNCHANGED <<diskVars, search, mutex, result, limit, leases,
                               mapped, evictVars>>

(* Mutant of CopyEnds: done is not called.                                 *)
CopyEndsHolding(s) ==
    /\ copier[s] = "copying"
    /\ \E end \in IF At(s, "copy") THEN {"eof", "error"} ELSE {"none"} :
         copier' = [copier EXCEPT ![s] = end]
    /\ UNCHANGED <<diskVars, search, mutex, fetch, result, limit, leases,
                   mapped, evictVars>>

(* It ends: the archive is complete, or gitserver fails, the background    *)
(* timeout passed, SetLimit canceled the oldest fetch, or the reader has   *)
(* closed the pipe.  It calls done before it closes its end.               *)
CopyEnds(s) ==
    /\ copier[s] = "copying"
    /\ Done(s)
    /\ \E end \in IF At(s, "copy") THEN {"eof", "error"} ELSE {"none"} :
         copier' = [copier EXCEPT ![s] = end]
    /\ UNCHANGED <<diskVars, search, mutex, fetch, result, limit, mapped,
                   evictVars>>

(* copyAndClose has read the pipe to its end.                              *)
Copied(s) == /\ At(s, "copy") /\ copier[s] = "eof"
             /\ part' = [part EXCEPT ![KeyOf(s)] = "written"]
             /\ copier' = [copier EXCEPT ![s] = "none"]
             /\ Go(s, "sync")
             /\ UNCHANGED <<zip, search, mutex, result, limit, leases, mapped,
                            evictVars>>

(* It has read an error; or the temporary file could not be opened,        *)
(* written or closed, and the pipe is closed under the other goroutine.    *)
CopyFails(s) == /\ At(s, "copy")
                /\ copier' = [copier EXCEPT ![s] =
                                IF @ = "copying" THEN @ ELSE "none"]
                /\ Go(s, "failed")
                /\ UNCHANGED <<diskVars, search, mutex, result, limit, leases,
                               mapped, evictVars>>

(* An error: the background timeout passed while the fetch waited for the  *)
(* limiter, fetch or copy failed, or a sync, the rename or the last open.  *)
FetchFails(s) ==
    /\ fetch[s] \in {"acquire", "failed", "sync", "rename", "reopen"}
    /\ CleanUp(s)
    /\ Unlock(s, "error")
    /\ UNCHANGED <<zip, copier, limit, leases, mapped, evictVars>>

Sync(s) == /\ At(s, "sync")
           /\ part' = [part EXCEPT ![KeyOf(s)] =
                         IF @ = "written" THEN "synced" ELSE @]
           /\ Go(s, "rename")
           /\ UNCHANGED <<zip, search, mutex, copier, result, limit, leases,
                          mapped, evictVars>>

Rename(s) == /\ At(s, "rename")
             /\ part[KeyOf(s)] # "none"
             /\ zip' = [zip EXCEPT ![KeyOf(s)] =
                          CASE part[KeyOf(s)] = "synced"  -> "whole"
                            [] part[KeyOf(s)] = "written" -> "unsynced"
                            [] OTHER                      -> "torn"]
             /\ CleanUp(s)
             /\ Go(s, "reopen")
             /\ UNCHANGED <<search, mutex, copier, result, limit, leases,
                            mapped, evictVars>>

(* The directory is synced and the file opened, unless it is evicted.      *)
Reopen(s) == /\ At(s, "reopen")
             /\ Unlock(s, IF zip[KeyOf(s)] = "none" THEN "error" ELSE "path")
             /\ UNCHANGED <<diskVars, copier, limit, leases, mapped, evictVars>>

RunFetch(s) == \/ Open(s) \/ Lock(s) \/ LockLate(s) \/ Acquire(s)
               \/ TarFails(s) \/ StartCopy(s) \/ CopyEnds(s) \/ Copied(s)
               \/ CopyFails(s) \/ FetchFails(s) \/ Sync(s) \/ Rename(s)
               \/ Reopen(s)

-----------------------------------------------------------------------------
(* A search: PrepareZip starts the goroutine and waits for it.             *)
Prepare(s, k) == /\ search[s].pc = "idle" /\ At(s, "idle")
                 /\ copier[s] = "none"
                 /\ k \in Wanted[s]
                 /\ search' = [search EXCEPT ![s] =
                                 [pc |-> "prepare", key |-> k, tries |-> 0]]
                 /\ Go(s, "open")
                 /\ UNCHANGED <<diskVars, mutex, copier, result, limit, leases,
                                mapped, evictVars>>

(* The search ends; its key is its goroutine's as long as that runs.       *)
Leave(s) == search' = [search EXCEPT ![s] =
                         IF At(s, "idle") THEN NoSearch
                                          ELSE [NoSearch EXCEPT !.key = KeyOf(s)]]

(* FetchTimeout passes: the search returns, its goroutine goes on.         *)
GiveUp(s) == /\ search[s].pc = "prepare"
             /\ Leave(s)
             /\ result' = [result EXCEPT ![s] = "none"]
             /\ UNCHANGED <<diskVars, mutex, fetch, copier, limit, leases,
                            mapped, evictVars>>

Prepared(s) == /\ search[s].pc = "prepare" /\ result[s] # "none"
               /\ result' = [result EXCEPT ![s] = "none"]
               /\ IF result[s] = "error" THEN Leave(s)
                    ELSE search' = [search EXCEPT ![s].pc = "get"]
               /\ UNCHANGED <<diskVars, mutex, fetch, copier, limit, leases,
                              mapped, evictVars>>

(* Mutant of ShardFree: the shard is unlocked during the wait.             *)
ShardUnlocked == TRUE

(* Evict holds the shard's lock while it waits for users of the file.      *)
ShardFree == evictor # "wait"

Users(k) == {s \in Searches : search[s].pc = "use" /\ KeyOf(s) = k}

(* zipCache.Get: the entry, or the file: it may be evicted or invalid.     *)
Get(s) == /\ search[s].pc = "get" /\ ShardFree
          /\ LET k == KeyOf(s)
             IN  IF k \in mapped \/ zip[k] \in {"whole", "unsynced"}
                   THEN /\ search' = [search EXCEPT ![s].pc = "use"]
                        /\ mapped' = mapped \cup {k}
                   ELSE /\ IF zip[k] = "none" THEN Leave(s)
                             ELSE search' = [search EXCEPT ![s].pc = "invalid"]
                        /\ UNCHANGED mapped
          /\ UNCHANGED <<diskVars, fetchVars, evictVars>>

(* getZipFileWithRetry removes the invalid file, which another search may  *)
(* have done before, and tries once more; the second time it returns       *)
(* neither a file nor an error.                                            *)
RemoveInvalid(s) ==
    /\ search[s].pc = "invalid"
    /\ zip' = [zip EXCEPT ![KeyOf(s)] = "none"]
    /\ IF zip[KeyOf(s)] = "none" THEN Leave(s) /\ UNCHANGED fetch
       ELSE IF search[s].tries = 1
         THEN search' = [search EXCEPT ![s].pc = "nil"] /\ UNCHANGED fetch
         ELSE /\ search' = [search EXCEPT ![s] =
                              [pc |-> "prepare", key |-> KeyOf(s), tries |-> 1]]
              /\ Go(s, "open")
    /\ UNCHANGED <<part, mutex, copier, result, limit, leases, mapped,
                   evictVars>>

(* The search has read the file and closes it; or it panics.               *)
Close(s) == /\ search[s].pc \in {"use", "nil"}
            /\ Leave(s)
            /\ UNCHANGED <<diskVars, fetchVars, mapped, evictVars>>

RunSearch(s) == \/ GiveUp(s) \/ Prepared(s) \/ Get(s) \/ RemoveInvalid(s)
                \/ Close(s)

-----------------------------------------------------------------------------
(* Evict walks over the directory: temporary files count, and are not      *)
(* among its victims.  The order of their times is left open.  The walk is *)
(* one step: a file that appears or goes during it is one that does so     *)
(* before or after, except that a renamed one may be counted twice.        *)
Walk == /\ evictor = "idle"
        /\ MaxCacheSize # 0
        /\ LET zips  == {k \in Keys : zip[k] # "none"}
               parts == {k \in Keys : part[k] # "none"}
           IN  /\ Cardinality(zips) + Cardinality(parts) > MaxCacheSize
               /\ victims' \in SetToSeqs(zips)
               /\ size' = Cardinality(zips) + Cardinality(parts)
        /\ evictor' = "next"
        /\ UNCHANGED <<diskVars, fetchVars, search, mapped>>

(* zipCache.delete takes the lock of the shard ...                         *)
Delete == /\ evictor = "next"
          /\ victims # <<>> /\ size > MaxCacheSize
          /\ evictor' = IF Head(victims) \in mapped THEN "wait" ELSE "remove"
          /\ UNCHANGED <<diskVars, fetchVars, search, mapped, victims, size>>

(* Mutant of Unmap: the users of the file are not waited for.              *)
UnmapNow == /\ evictor = "wait"
            /\ mapped' = mapped \ {Head(victims)}
            /\ evictor' = "remove"
            /\ UNCHANGED <<diskVars, fetchVars, search, victims, size>>

(* ... and waits for the users of the file.                                *)
Unmap == /\ evictor = "wait"
         /\ Users(Head(victims)) = {}
         /\ mapped' = mapped \ {Head(victims)}
         /\ evictor' = "remove"
         /\ UNCHANGED <<diskVars, fetchVars, search, victims, size>>

(* The file is removed; that it is missing is an error that is logged.     *)
RemoveZip == /\ evictor = "remove"
             /\ size' = IF zip[Head(victims)] = "none" THEN size ELSE size - 1
             /\ zip' = [zip EXCEPT ![Head(victims)] = "none"]
             /\ victims' = Tail(victims)
             /\ evictor' = "next"
             /\ UNCHANGED <<part, fetchVars, search, mapped>>

EvictDone == /\ evictor = "next"
             /\ victims = <<>> \/ size <= MaxCacheSize
             /\ evictor' = "idle" /\ victims' = <<>> /\ size' = 0
             /\ UNCHANGED <<diskVars, fetchVars, search, mapped>>

Evict == Walk \/ Delete \/ Unmap \/ RemoveZip \/ EvictDone

(* watchConfig.                                                            *)
SetLimit(n) == /\ limit' = n
               /\ leases' = WithinLimit(leases, n)
               /\ UNCHANGED <<diskVars, mutex, fetch, copier, result, search,
                              mapped, evictVars>>

(* The disk spoils a file that is in place.                                *)
Spoil(k) == /\ zip[k] = "whole" /\ k \in Spoilable
            /\ zip' = [zip EXCEPT ![k] = "rotten"]
            /\ UNCHANGED <<part, fetchVars, search, mapped, evictVars>>

(* The machine loses power and starts again: what was not synced is torn,  *)
(* and a rename whose directory was not synced may be undone.              *)
Crash == /\ \E undone \in SUBSET {KeyOf(s) : s \in {t \in Searches :
                                                       At(t, "reopen")}} :
              /\ zip' = [k \in Keys |-> IF k \in undone THEN "none"
                                        ELSE IF zip[k] = "unsynced" THEN "torn"
                                        ELSE zip[k]]
              /\ part' = [k \in Keys |-> IF part[k] = "none" /\ k \notin undone
                                           THEN "none" ELSE "partial"]
         /\ mutex' = [k \in Keys |-> Nobody]
         /\ search' = [s \in Searches |-> NoSearch]
         /\ fetch' = [s \in Searches |-> "idle"]
         /\ copier' = [s \in Searches |-> "none"]
         /\ result' = [s \in Searches |-> "none"]
         /\ limit' \in Limits /\ leases' = <<>>
         /\ mapped' = {}
         /\ evictor' = "idle" /\ victims' = <<>> /\ size' = 0

Next == \/ \E s \in Searches : RunFetch(s) \/ RunSearch(s)
        \/ \E s \in Searches, k \in Keys : Prepare(s, k)
        \/ Evict
        \/ \E n \in Limits : SetLimit(n)
        \/ \E k \in Keys : Spoil(k)
        \/ Crash

Spec == Init /\ [][Next]_vars

(* The goroutine that evicts runs, and searches end: FetchTimeout passes.  *)
Fairness == WF_vars(Evict) /\ \A s \in Searches : WF_vars(RunSearch(s))

FairSpec == Spec /\ Fairness

-----------------------------------------------------------------------------
(* A file that is in place is the whole archive, whoever fetched it at the *)
(* same time and whenever the machine lost power.                          *)
NeverTorn == \A k \in Keys : zip[k] # "torn"

(* The memory a search reads is not unmapped under it.                     *)
InUseMapped == \A k \in Keys : Users(k) # {} => k \in mapped

(* The limiter is held for requests to gitserver that are under way and    *)
(* for nothing else, although three goroutines may fail on their own (done *)
(* is called once, store.go), and those whose context SetLimit has not     *)
(* canceled are within the limit.                                          *)
FetchesWithinLimit ==
    /\ Len(leases) <= limit
    /\ \A s \in ToSet(leases) : At(s, "tar") \/ copier[s] = "copying"

(* Eviction ends, although it waits for searches with the shard locked and *)
(* new ones keep coming.                                                   *)
EvictEnds == (evictor # "idle") ~> (evictor = "idle")

=============================================================================
