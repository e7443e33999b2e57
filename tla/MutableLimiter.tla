--------------------------- MODULE MutableLimiter ---------------------------
(***************************************************************************)
(* internal/limiter/mutable.go: a semaphore whose limit can be changed     *)
(* while contexts are acquired.  One goroutine owns the list; callers meet *)
(* it on unbuffered channels, so each rendezvous is one step.              *)
(*                                                                         *)
(* A call is one use of Acquire: its request, the context and the cancel   *)
(* function it returned.  The name of a call is used again once its caller *)
(* has dropped the cancel function; until then the caller may invoke it    *)
(* any number of times, as its documentation allows.                       *)
(***************************************************************************)
EXTENDS LimiterList, FiniteSets

CONSTANTS Calls,         \* bound: calls of Acquire in existence at one time
          Limits,        \* limits passed to SetLimit; negative is unlimited
          InitialLimit   \* the argument of NewMutable

ASSUME LimiterAssumption ==
    /\ IsFiniteSet(Calls)
    /\ Limits \subseteq Int
    /\ InitialLimit \in Int

VARIABLES limit,         \* the limit of `do'
          cancelFuncs,   \* the elements `do' holds, oldest first
          asking,        \* calls blocked sending on l.acquire, in order
          holding,       \* calls whose caller has not invoked cancel yet
          released,      \* calls whose caller has, and may do so again
          parentDone,    \* calls whose own ctx is done
          canceled       \* calls whose child context was canceled by `do'

limiterVars == <<limit, cancelFuncs, asking, holding, released, parentDone,
                 canceled>>

TypeOK == /\ limit \in Limits \cup {InitialLimit}
          /\ cancelFuncs \in Seq(Calls)
          /\ asking \in Seq(Calls)
          /\ holding \subseteq Calls
          /\ released \subseteq Calls
          /\ parentDone \subseteq Calls
          /\ canceled \subseteq Calls

Init == /\ limit = InitialLimit
        /\ cancelFuncs = <<>>
        /\ asking = <<>>
        /\ holding = {}
        /\ released = {}
        /\ parentDone = {}
        /\ canceled = {}

-----------------------------------------------------------------------------
Idle(c) == c \notin ToSet(asking) \cup holding \cup released

(* A goroutine calls Acquire and blocks in its select.                     *)
Acquire(c) == /\ Idle(c)
              /\ asking' = Append(asking, c)
              /\ UNCHANGED <<limit, cancelFuncs, holding, released,
                             parentDone, canceled>>

(* The ctx given to Acquire is canceled or times out.                      *)
ParentDone(c) == /\ c \in ToSet(asking) \cup holding
                 /\ parentDone' = parentDone \cup {c}
                 /\ UNCHANGED <<limit, cancelFuncs, asking, holding,
                                released, canceled>>

(* The select of Acquire takes ctx.Done: the error is returned.            *)
AcquireFails(c) == /\ c \in ToSet(asking) \cap parentDone
                   /\ asking' = Without(asking, c)
                   /\ parentDone' = parentDone \ {c}
                   /\ UNCHANGED <<limit, cancelFuncs, holding, released,
                                  canceled>>

(* `do' receives the first blocked request and answers it.                 *)
Grant == /\ ~AtLimit(cancelFuncs, limit)
         /\ asking # <<>>
         /\ LET c == Head(asking)
            IN  /\ cancelFuncs' = Append(cancelFuncs, c)
                /\ holding' = holding \cup {c}
         /\ asking' = Tail(asking)
         /\ UNCHANGED <<limit, released, parentDone, canceled>>

(* Mutant of SetLimit: the limit changes and nothing is canceled.          *)
SetLimitOnly(n) == /\ limit' = n
                   /\ UNCHANGED <<cancelFuncs, asking, holding, released,
                                  parentDone, canceled>>

(* `do' receives the limit and cancels the oldest contexts.  The caller    *)
(* may return before the loop that cancels has ended; one step here, as    *)
(* `do' serves nobody else in between.                                     *)
SetLimit(n) == /\ limit' = n
               /\ cancelFuncs' = WithinLimit(cancelFuncs, n)
               /\ canceled' = canceled \cup (ToSet(cancelFuncs)
                                               \ ToSet(cancelFuncs'))
               /\ UNCHANGED <<asking, holding, released, parentDone>>

(* Mutant of Cancel: the oldest slot is freed instead of the caller's.     *)
CancelRemovesFront(c) ==
    /\ c \in holding \cup released
    /\ cancelFuncs' = IF cancelFuncs = <<>> THEN <<>> ELSE Tail(cancelFuncs)
    /\ canceled' = canceled \cup {c}
    /\ holding' = holding \ {c}
    /\ released' = released \cup {c}
    /\ UNCHANGED <<limit, asking, parentDone>>

(* Mutant of Cancel: the context is canceled and its slot is not freed.    *)
CancelKeepsSlot(c) ==
    /\ c \in holding \cup released
    /\ canceled' = canceled \cup {c}
    /\ holding' = holding \ {c}
    /\ released' = released \cup {c}
    /\ UNCHANGED <<limit, cancelFuncs, asking, parentDone>>

(* The caller invokes cancel, perhaps not for the first time, perhaps after*)
(* SetLimit took the element out of the list.                              *)
Cancel(c) == /\ c \in holding \cup released
             /\ cancelFuncs' = Without(cancelFuncs, c)
             /\ canceled' = canceled \cup {c}
             /\ holding' = holding \ {c}
             /\ released' = released \cup {c}
             /\ UNCHANGED <<limit, asking, parentDone>>

(* The caller drops the context and its cancel function.                   *)
Forget(c) == /\ c \in released
             /\ released' = released \ {c}
             /\ parentDone' = parentDone \ {c}
             /\ canceled' = canceled \ {c}
             /\ UNCHANGED <<limit, cancelFuncs, asking, holding>>

Next == \/ Grant
        \/ \E n \in Limits : SetLimit(n)
        \/ \E c \in Calls : \/ Acquire(c) \/ ParentDone(c) \/ AcquireFails(c)
                            \/ Cancel(c)  \/ Forget(c)

(* A caller must invoke cancel; `do' chooses uniformly among the channels  *)
(* that are ready, so no choice that keeps coming up is passed over.       *)
Fairness == /\ SF_limiterVars(Grant)
            /\ \A c \in Calls : WF_limiterVars(c \in holding /\ Cancel(c))

Spec == Init /\ [][Next]_limiterVars /\ Fairness

-----------------------------------------------------------------------------
(* Contexts that are acquired and not done never exceed a limit that is    *)
(* not negative: what SetLimit's comment promises at every moment, with    *)
(* the limit raised, lowered and lifted under acquired contexts.           *)
Live == {c \in holding : c \notin canceled \cup parentDone}

LiveWithinLimit == limit >= 0 => Cardinality(Live) <= limit

(* `do' knows exactly the contexts that are in use: an acquired context    *)
(* that left its list has been canceled, so that its user stops, and one   *)
(* still in the list has not, whatever releases were repeated by others.   *)
CanceledExactlyOutside ==
    \A c \in holding : (c \in canceled) <=> (c \notin ToSet(cancelFuncs))

(* Lowering the limit cancels the oldest contexts first, and no more of    *)
(* them than it has to.                                                    *)
EvictOldest ==
    [][ \A c \in Live : (c \in canceled' /\ c \in holding') =>
          /\ Len(cancelFuncs') = limit'
          /\ \A i, j \in 1 .. Len(cancelFuncs) :
               (cancelFuncs[i] \in ToSet(cancelFuncs') /\ cancelFuncs[j] = c)
                 => j < i ]_limiterVars

(* If the limit does not stay 0 for ever, every call of Acquire returns.   *)
AcquireReturns ==
    ([]<>(limit # 0)) =>
        \A c \in Calls : (c \in ToSet(asking)) ~> (c \notin ToSet(asking))

=============================================================================
