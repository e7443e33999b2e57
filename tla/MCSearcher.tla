----------------------------- MODULE MCSearcher -----------------------------
(* Searcher for TLC: one search is for any archive, the others are for one *)
(* that the disk does not spoil.                                           *)
EXTENDS Searcher

MCWanted == [s \in Searches |-> IF s = CHOOSE t \in Searches : TRUE
                                  THEN Keys ELSE Keys \ Spoilable]

=============================================================================
