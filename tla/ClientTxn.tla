----------------------------- MODULE ClientTxn -----------------------------
(***************************************************************************)
(* Client transactions: the requests the proxy sent and waits for the      *)
(* final response of (client_* keys of rfc.mko), the ring that bounds      *)
(* them, and the incremental sweep (sip_client_txn_tick of sip_dialog.mko) *)
(* that retransmits them and, when they expire, answers 408 for them.      *)
(* This is the timer ForkContext relies on.                                *)
(***************************************************************************)
EXTENDS Integers, FiniteSets

CONSTANTS
    Keys,      \* transactions: branch and CSeq of a request
    Owners,    \* workers, named by their socket
    Window,    \* slots a tick sweeps (64)
    Windows,   \* windows of the ring (256), and empty sweeps that make a
               \* worker idle
    MaxActive, \* bound: what a worker may count when it sends a request
    NoKey      \* an empty slot

ASSUME KeysAssumption == IsFiniteSet(Keys) /\ NoKey \notin Keys
ASSUME WindowAssumption == Window \in Nat \ {0} /\ Windows \in Nat \ {0}
ASSUME MaxActiveAssumption == MaxActive \in Nat

VARIABLES
    txns,     \* the client_* keys, see TableType
    scan,     \* per worker: the slot swept next (client_scan|)
    empty,    \* per worker: sweeps in a row without a transaction of its own
    due,      \* live transactions past client_next|
    expired,  \* live transactions past client_exp|
    stray     \* history: workers that lost a counted request to another one

vars == <<txns, scan, empty, due, expired, stray>>

RingSize == Window * Windows
Slots == 0 .. (RingSize - 1)

\* live: client_req|; ring, seq: client_ring|, client_seq; slot, owner:
\* client_slot|, client_owner| (meaningful while live); active:
\* client_active| of each worker
TableType == [live   : SUBSET Keys,
              ring   : [Slots -> Keys \cup {NoKey}],
              seq    : Slots,
              slot   : [Keys -> Slots],
              owner  : [Keys -> Owners],
              active : [Owners -> Nat]]

---------------------------------------------------------------------------
(* rfc.mko *)

\* sip_client_txn_cleanup of the transactions K, those with a request
Cleanup(t, K) ==
    LET gone == K \cap t.live
        less(o) == Cardinality({k \in gone : t.owner[k] = o})
    IN [live   |-> t.live \ gone,
        ring   |-> [i \in Slots |-> IF t.ring[i] \in gone /\ t.slot[t.ring[i]] = i
                                   THEN NoKey ELSE t.ring[i]],
        seq    |-> t.seq,
        slot   |-> [k \in Keys |-> IF k \in gone THEN 0 ELSE t.slot[k]],
        owner  |-> t.owner,
        active |-> [o \in Owners |-> IF t.active[o] > less(o) THEN t.active[o] - less(o) ELSE 0]]

\* The slot a record takes over: its transaction is cleaned up
Displace(t, i, k) ==
    IF t.ring[i] \notin {NoKey, k} THEN Cleanup(t, {t.ring[i]}) ELSE t

\* Mutation: a request sent again is counted again
CountAlways(t, k, o) == [t EXCEPT !.active[o] = @ + 1]

\* client_active| counts a request that was not recorded yet
Count(t, k, o) == [t EXCEPT !.active[o] = IF k \in t.live THEN @ ELSE @ + 1]

NextSlot(t) == (t.seq + 1) % RingSize

\* sip_client_txn_record
Record(t, k, o) ==
    LET i == NextSlot(t)
        u == Displace(Count(t, k, o), i, k)
    IN [live   |-> u.live \cup {k},
        ring   |-> [u.ring EXCEPT ![i] = k],
        seq    |-> i,
        slot   |-> [u.slot EXCEPT ![k] = i],
        owner  |-> [u.owner EXCEPT ![k] = o],
        active |-> u.active]

\* Recording a request moves the worker's cursor to it
CursorAfterRecord(o) == NextSlot(txns)

---------------------------------------------------------------------------
(* The workers *)

Init ==
    /\ txns \in [live : {{}}, ring : {[i \in Slots |-> NoKey]}, seq : {0},
                 slot : {[k \in Keys |-> 0]}, owner : {[k \in Keys |-> o] : o \in Owners},
                 active : {[o \in Owners |-> 0]}]
    /\ scan = [o \in Owners |-> 0] /\ empty = [o \in Owners |-> 0]
    /\ due = {} /\ expired = {} /\ stray = {}

\* Worker o sends request k (sip_forward_target), or the same request again
\* (sip_forward_first records a second time): the timers start anew.  A live
\* request recorded by another worker changes hands, and the counts do not.
Send(o, k) ==
    /\ k \in txns.live \/ txns.active[o] < MaxActive
    /\ txns' = Record(txns, k, o)
    /\ scan' = [scan EXCEPT ![o] = CursorAfterRecord(o)]
    /\ due' = (due \ {k}) \cap txns'.live /\ expired' = (expired \ {k}) \cap txns'.live
    /\ stray' = IF k \in txns.live THEN stray \cup ({txns.owner[k]} \ {o}) ELSE stray
    /\ UNCHANGED empty

\* sip_client_txn_finish of a provisional response: the retransmission timer
\* starts anew
Provisional(k) ==
    /\ k \in txns.live
    /\ due' = due \ {k}
    /\ UNCHANGED <<txns, scan, empty, expired, stray>>

\* sip_client_txn_finish of a final response
Final(k) ==
    /\ k \in txns.live
    /\ txns' = Cleanup(txns, {k})
    /\ due' = due \ {k} /\ expired' = expired \ {k}
    /\ UNCHANGED <<scan, empty, stray>>

\* Timers A and E, and B, F and C, of a transaction run out
BecomesDue(k) ==
    /\ k \in txns.live \ due
    /\ due' = due \cup {k}
    /\ UNCHANGED <<txns, scan, empty, expired, stray>>
Expire(k) ==
    /\ k \in txns.live \ expired
    /\ expired' = expired \cup {k}
    /\ UNCHANGED <<txns, scan, empty, due, stray>>

\* The transactions worker o finds in the window its cursor is at
Swept(o) ==
    LET window == {(scan[o] + i) % RingSize : i \in 0 .. Window - 1}
    IN {k \in txns.live : txns.owner[k] = o /\ \E s \in window : txns.ring[s] = k}

\* After as many empty sweeps in a row as there are windows, the worker
\* counts itself idle
Idle(o) == Swept(o) = {} /\ empty[o] + 1 >= Windows

\* sip_client_txn_tick, unless the worker has counted itself idle: expired
\* requests are removed (and, except CANCELs and third-party REGISTERs,
\* answered upstream: Timeout of ForkContext), others that are due sent again
Tick(o) ==
    /\ txns.active[o] > 0
    /\ txns' = IF Idle(o) THEN [txns EXCEPT !.active[o] = 0]
               ELSE Cleanup(txns, Swept(o) \cap expired)
    /\ due' = due \ Swept(o)
    /\ expired' = expired \ Swept(o)
    /\ scan' = [scan EXCEPT ![o] = (@ + Window) % RingSize]
    /\ empty' = [empty EXCEPT ![o] = IF Swept(o) # {} \/ Idle(o) THEN 0 ELSE @ + 1]
    /\ stray' = IF Idle(o) THEN stray \ {o} ELSE stray

Next ==
    \/ \E o \in Owners : Tick(o) \/ \E k \in Keys : Send(o, k)
    \/ \E k \in Keys : Provisional(k) \/ Final(k) \/ BecomesDue(k) \/ Expire(k)

\* Every worker ticks again and again; nothing is assumed of the traffic
Fairness == \A o \in Owners : WF_vars(Tick(o))

Spec == Init /\ [][Next]_vars /\ Fairness

---------------------------------------------------------------------------
(* Properties *)

\* Table, cursors and timers are well formed; a worker counts no more empty
\* sweeps than it needs to fall idle.
TypeOK ==
    /\ txns \in TableType
    /\ scan \in [Owners -> Slots] /\ empty \in [Owners -> 0 .. Windows - 1]
    /\ due \subseteq txns.live /\ expired \subseteq txns.live /\ stray \subseteq Owners

\* Every waiting request is in the slot client_slot| names, where the sweep
\* and the wrap-around find it, although sip_forward_first records a request
\* twice and leaves its key behind in the first slot.
LiveIndexed == \A k \in txns.live : txns.ring[txns.slot[k]] = k

\* A worker never counts more requests than it has waiting, however they are
\* sent again, finished, displaced and given up, by whichever worker: the count
\* of a worker with none is zero, and it stops sweeping.  One whose request was
\* recorded again by another worker counts it until it has found itself idle.
CountNotAbove ==
    \A o \in Owners \ stray :
        txns.active[o] <= Cardinality({k \in txns.live : txns.owner[k] = o})

\* RFC_COMPLIANCE.md promises "Timer B/F timeout handling" and a proxy Timer C:
\* a request that expired is answered or removed in the end.  Two requests
\* refute it: a later one, answered before the next sweep, moves the cursor away
\* from the first but leaves client_empty_scan| as it is, so that the worker
\* counts a whole ring of empty sweeps before it has been round the ring, sets
\* its count to zero and sweeps no more while the first request waits.
ExpiredServed == \A k \in Keys : k \in expired ~> k \notin expired

=============================================================================
