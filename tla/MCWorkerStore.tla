--------------------------- MODULE MCWorkerStore ---------------------------
(* The job table under any client, on a small instance.                    *)
EXTENDS WorkerStore, TLC

CONSTANTS MaxFailures   \* bound: Requeue does not reset num_failures

(* Requeued records can fail for ever; stop counting at MaxFailures.       *)
MCNext == StoreNext /\ \A r \in Records : jobs'[r].num_failures <= MaxFailures

(* Statements do not tell records apart.                                   *)
Symmetry == Permutations(Records)

MCSpec == StoreInit /\ [][MCNext]_jobs

=============================================================================
