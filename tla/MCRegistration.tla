-------------------------- MODULE MCRegistration --------------------------
(* Registration for TLC: one AoR with more contacts than slots, one with one. *)
EXTENDS Registration, TLC

CONSTANTS a1, a2, c1, c2, c3, d1, w1, w2

MCContactsOf == [a \in Aors |-> IF a = a1 THEN {c1, c2, c3} ELSE {d1}]

\* The contacts of an AoR are interchangeable, and so are the workers
Symmetry == Permutations({c1, c2, c3}) \cup Permutations(Workers)

=============================================================================
