------------------------------ MODULE MCWorker ------------------------------
(* Instances of Worker for TLC.                                            *)
EXTENDS Worker, TLC

(* Workers and slots are interchangeable.                                  *)
Symmetry == Permutations(Workers) \cup Permutations(Slots)

LiveSpec == FairSpec /\ ReturningHandlers

=============================================================================
