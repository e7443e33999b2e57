------------------------ MODULE MCRateLimitNotifier ------------------------
(* RateLimitNotifier for TLC: calls are interchangeable.                   *)
EXTENDS RateLimitNotifier, TLC

Symmetry == Permutations(Calls)

=============================================================================
