---------------------------- MODULE LimiterList ----------------------------
(***************************************************************************)
(* The semaphore of internal/limiter/mutable.go as a data structure: the   *)
(* list cancelFuncs kept by the goroutine `do', oldest acquisition first.  *)
(* MutableLimiter gives it callers; UpdateQueue has one per update loop.   *)
(***************************************************************************)
EXTENDS Integers, Sequences, SequencesExt

Distinct(s) == \A i, j \in 1 .. Len(s) : s[i] = s[j] => i = j

(* Mutant of AtLimit: one acquisition too many is let through.             *)
PastLimit(list, limit) == Len(list) = limit + 1

(* The acquire channel is hidden at exactly the limit: that this is enough *)
(* depends on the list never growing past it.                              *)
AtLimit(list, limit) == Len(list) = limit

(* Mutant of WithinLimit: the youngest contexts are canceled.              *)
DropYoungest(list, limit) ==
    IF limit >= 0 /\ Len(list) > limit THEN SubSeq(list, 1, limit) ELSE list

(* What is left after SetLimit: the front is removed until the list fits.  *)
(* A negative limit means no limit.                                        *)
WithinLimit(list, limit) ==
    IF limit >= 0 /\ Len(list) > limit
      THEN SubSeq(list, Len(list) - limit + 1, Len(list))
      ELSE list

(* list.Remove(el): nothing happens if el is no longer in the list.        *)
Without(list, el) ==
    IF Contains(list, el)
      THEN RemoveAt(list, CHOOSE i \in DOMAIN list : list[i] = el)
      ELSE list

=============================================================================
