---------------------------- MODULE MCServerTxn ----------------------------
(* ServerTxn for TLC: all transactions are of one call, the ACKs of two. *)
EXTENDS ServerTxn

CONSTANTS k1, k2, c1, c2

MCCidOf == [k \in Keys |-> c1]

=============================================================================
