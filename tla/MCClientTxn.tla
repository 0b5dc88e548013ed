---------------------------- MODULE MCClientTxn ----------------------------
(* ClientTxn for TLC. *)
EXTENDS ClientTxn, TLC

CONSTANTS k1, k2, w1, w2

\* Requests and workers are interchangeable (in the run without liveness)
Interchangeable == Permutations(Keys) \cup Permutations(Owners)

=============================================================================
