--------------------------- MODULE MCForkContext ---------------------------
(* ForkContext for TLC: the constants are given in the configurations. *)
EXTENDS ForkContext
=============================================================================
