----------------------------- MODULE EventFeed -----------------------------
(***************************************************************************)
(* What an application may rely on when it follows the events of MAF: it   *)
(* is given events that were committed, in the order of their sequence and *)
(* each once, across lost answers and restarts.  Events may be left out.   *)
(***************************************************************************)
EXTENDS Integers

CONSTANT SequenceNumbers

VARIABLES
    committed,   \* the events that can be read
    got,         \* the events given to the application
    last         \* the sequence of the last one, 0 before the first

Init == committed = {} /\ got = {} /\ last = 0

Commit == /\ \E s \in SequenceNumbers \ committed : committed' = committed \cup {s}
          /\ UNCHANGED <<got, last>>

Give == /\ \E s \in committed : /\ s > last
                                /\ got' = got \cup {s} /\ last' = s
        /\ UNCHANGED committed

Next == Commit \/ Give

Spec == Init /\ [][Next]_<<committed, got, last>>
=============================================================================
