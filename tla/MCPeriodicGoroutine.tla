------------------------ MODULE MCPeriodicGoroutine ------------------------
(* PeriodicGoroutine for TLC.                                              *)
EXTENDS PeriodicGoroutine

=============================================================================
