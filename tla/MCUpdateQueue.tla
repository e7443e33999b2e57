--------------------------- MODULE MCUpdateQueue ---------------------------
(* Instances of UpdateQueue for TLC.                                       *)
EXTENDS UpdateQueue

=============================================================================
