--------------------------- MODULE JobLifecycle ---------------------------
(***************************************************************************)
(* What the database-backed queue promises about a single job, whichever   *)
(* workers, resetters and users act on it: the states a record moves       *)
(* through and how often it can be attempted.                              *)
(*                                                                         *)
(* budget[r] is the number of times r can still be claimed.  A claim takes *)
(* one; nothing but an explicit requeue gives one back.  WorkerStore       *)
(* implements this specification: there the budget is not stored but       *)
(* follows from num_resets and num_failures.                               *)
(***************************************************************************)
EXTENDS Naturals

CONSTANTS Records,        \* the rows of the job table
          InitialBudget   \* attempts a record has when it is enqueued

VARIABLES status, budget

lifecycleVars == <<status, budget>>

(* "waiting" covers queued and errored: the states Dequeue claims from.    *)
Statuses == {"waiting", "running", "completed", "failed", "canceled", "gone"}

Closed == {"completed", "failed", "canceled"}

Init == /\ status = [r \in Records |-> "waiting"]
        /\ budget = [r \in Records |-> InitialBudget]

(* A worker claims the record: this is one attempt.                        *)
Claim(r) == /\ status[r] = "waiting"
            /\ budget[r] > 0
            /\ status' = [status EXCEPT ![r] = "running"]
            /\ budget' = [budget EXCEPT ![r] = @ - 1]

(* The attempt ends without a verdict that closes the record.  Only a      *)
(* record with attempts left goes back.                                    *)
GiveBack(r) == /\ status[r] = "running"
               /\ budget[r] > 0
               /\ status' = [status EXCEPT ![r] = "waiting"]
               /\ UNCHANGED budget

(* A verdict closes the record.  It may forfeit the attempts left.         *)
Close(r) == /\ status[r] = "running"
            /\ \E s \in Closed : status' = [status EXCEPT ![r] = s]
            /\ \E b \in 0 .. budget[r] : budget' = [budget EXCEPT ![r] = b]

(* The user withdraws a record nobody has claimed.  Its last unused        *)
(* attempt is gone.                                                        *)
Withdraw(r) == /\ status[r] = "waiting"
               /\ status' = [status EXCEPT ![r] = "canceled"]
               /\ budget' = [budget EXCEPT ![r] = @ - 1]

(* The row is removed from the table.                                      *)
Remove(r) == /\ status' = [status EXCEPT ![r] = "gone"]
             /\ \E b \in 0 .. budget[r] : budget' = [budget EXCEPT ![r] = b]

(* An explicit requeue makes any record wait again and guarantees it an    *)
(* attempt: a running or closed record has one more than before, a waiting *)
(* one keeps what it has.                                                  *)
Requeue(r) == /\ status[r] # "gone"
              /\ status' = [status EXCEPT ![r] = "waiting"]
              /\ budget' = [budget EXCEPT ![r] =
                               IF status[r] = "waiting" THEN @ ELSE @ + 1]

(* ResetStalled gives back several records in one statement and fails      *)
(* several in another.                                                     *)
GiveBackMany(S) == /\ \A r \in S : status[r] = "running" /\ budget[r] > 0
                   /\ status' = [r \in Records |->
                                   IF r \in S THEN "waiting" ELSE status[r]]
                   /\ UNCHANGED budget

FailMany(S) == /\ \A r \in S : status[r] = "running"
               /\ status' = [r \in Records |->
                               IF r \in S THEN "failed" ELSE status[r]]
               /\ UNCHANGED budget

Next == \/ \E r \in Records :
             \/ Claim(r) \/ GiveBack(r) \/ Close(r)
             \/ Withdraw(r) \/ Requeue(r) \/ Remove(r)
        \/ \E S \in SUBSET Records : GiveBackMany(S) \/ FailMany(S)

Spec == Init /\ [][Next]_lifecycleVars

=============================================================================
