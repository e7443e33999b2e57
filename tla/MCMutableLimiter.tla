-------------------------- MODULE MCMutableLimiter --------------------------
(* MutableLimiter for TLC: a negative limit cannot be written in a cfg.    *)
EXTENDS MutableLimiter

MCLimits == {-1, 0, 1, 2, 3}

=============================================================================
