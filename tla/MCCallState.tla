---------------------------- MODULE MCCallState ----------------------------
(* CallState for TLC: the constants are given in the configurations. *)
EXTENDS CallState, TLC

\* Calls and tags are interchangeable
Symmetry == Permutations(Cids) \cup Permutations(Tags)
=============================================================================
