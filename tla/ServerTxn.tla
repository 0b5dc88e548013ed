----------------------------- MODULE ServerTxn -----------------------------
(***************************************************************************)
(* Server transactions: the final responses the proxy retains for          *)
(* retransmission (server_* keys of rfc.mko), the ring that bounds them,   *)
(* the ACK markers and queue, and the incremental sweep each worker makes  *)
(* every second (sip_server_txn_tick).                                     *)
(*                                                                         *)
(* A tick sweeps one slot here where the code sweeps a window of 4096 of   *)
(* 16384: a slot of the model stands for a window, whose other slots other *)
(* transactions use.  The markers and the ACK queue are not bounded here   *)
(* (8192 entries in the code).                                             *)
(***************************************************************************)
EXTENDS Integers, FiniteSets

CONSTANTS
    Keys,      \* transactions: branch and CSeq of a request
    Cids,      \* Call-IDs
    CidOf,     \* the Call-ID of a transaction
    Owners,    \* workers, named by their socket
    RingSize,  \* windows of the ring, and empty sweeps that make a worker idle
    NoKey      \* an empty slot

ASSUME RingSizeAssumption == RingSize \in Nat \ {0}
ASSUME CidOfAssumption == CidOf \in [Keys -> Cids]
ASSUME KeysAssumption == IsFiniteSet(Keys)
ASSUME NoKeyAssumption == NoKey \notin Keys

VARIABLES
    txns,     \* the server_* keys, see TableType
    ackQueue, \* per worker: transactions whose ACK was seen (server_ack_ring|)
    scan,     \* per worker: the slot swept next (server_scan|)
    empty,    \* per worker: sweeps in a row without a transaction of its own
    expired,  \* live transactions past server_exp|
    seen,     \* history: live transactions whose call got an ACK since
    acks      \* history: Call-IDs some ACK was received for

vars == <<txns, ackQueue, scan, empty, expired, seen, acks>>

Slots == 0 .. (RingSize - 1)

\* live: server_resp|; ring, seq: server_ring|, server_seq; slot, owner:
\* server_slot|, server_owner| (meaningful while live); active: server_active|
\* of each worker; byCid: server_ack_cid|; ackedKey, ackedCid: server_acked|,
\* server_acked_cid|
TableType == [live     : SUBSET Keys,
              ring     : [Slots -> Keys \cup {NoKey}],
              seq      : Slots,
              slot     : [Keys -> Slots],
              owner    : [Keys -> Owners],
              active   : [Owners -> Nat],
              byCid    : [Cids -> Keys \cup {NoKey}],
              ackedKey : SUBSET Keys,
              ackedCid : SUBSET Cids]

---------------------------------------------------------------------------
(* The helpers of rfc.mko *)

\* Mutation: the keys filed under the Call-ID are forgotten
CallsOfNone(K) == {}

\* The Call-IDs under which a cleanup of K deletes server_ack_cid| and
\* server_acked_cid|
CallsOf(K) == {CidOf[k] : k \in K}

\* sip_server_txn_cleanup of the transactions K, those with a response
Cleanup(t, K) ==
    LET gone == K \cap t.live
        less(o) == Cardinality({k \in gone : t.owner[k] = o})
    IN [live     |-> t.live \ gone,
        ring     |-> [i \in Slots |-> IF t.ring[i] \in gone /\ t.slot[t.ring[i]] = i
                                     THEN NoKey ELSE t.ring[i]],
        seq      |-> t.seq,
        slot     |-> [k \in Keys |-> IF k \in gone THEN 0 ELSE t.slot[k]],
        owner    |-> t.owner,
        active   |-> [o \in Owners |-> IF t.active[o] > less(o) THEN t.active[o] - less(o) ELSE 0],
        byCid    |-> [c \in Cids |-> IF c \in CallsOf(gone) THEN NoKey ELSE t.byCid[c]],
        ackedKey |-> t.ackedKey \ gone,
        ackedCid |-> t.ackedCid \ CallsOf(gone)]

\* Mutation: the transaction whose slot is taken over stays
DisplaceKeepsOld(t, i, k) == t

\* The slot a record takes over: its transaction is cleaned up
Displace(t, i, k) ==
    IF t.ring[i] \notin {NoKey, k} THEN Cleanup(t, {t.ring[i]}) ELSE t

\* sip_server_txn_record
Record(t, k, o) ==
    LET i == (t.seq + 1) % RingSize
        u == Displace([t EXCEPT !.active[o] = IF k \in t.live THEN @ ELSE @ + 1], i, k)
    IN [live     |-> u.live \cup {k},
        ring     |-> [u.ring EXCEPT ![i] = k],
        seq      |-> i,
        slot     |-> [u.slot EXCEPT ![k] = i],
        owner    |-> [u.owner EXCEPT ![k] = o],
        active   |-> u.active,
        byCid    |-> [u.byCid EXCEPT ![CidOf[k]] = k],
        ackedKey |-> u.ackedKey,
        ackedCid |-> u.ackedCid]

\* Mutation: an ACK is filed under every call
MarkAckedAll(t, c, B) ==
    [t EXCEPT !.ackedKey = @ \cup B, !.ackedCid = Cids]

\* sip_server_txn_ack: the markers
MarkAcked(t, c, B) ==
    [t EXCEPT !.ackedKey = @ \cup B, !.ackedCid = @ \cup {c}]

\* sip_server_txn_ack: the transaction it finds, by the branch B if that is a
\* live transaction's, else by the Call-ID
AckFinds(t, c, B) == IF B \cap t.live # {} THEN B \cap t.live ELSE {t.byCid[c]} \ {NoKey}

---------------------------------------------------------------------------
(* The workers *)

Init ==
    /\ txns \in [live : {{}}, ring : {[i \in Slots |-> NoKey]}, seq : {0},
                 slot : {[k \in Keys |-> 0]}, owner : {[k \in Keys |-> o] : o \in Owners},
                 active : {[o \in Owners |-> 0]}, byCid : {[c \in Cids |-> NoKey]},
                 ackedKey : {{}}, ackedCid : {{}}]
    /\ ackQueue = [o \in Owners |-> {}]
    /\ scan = [o \in Owners |-> 0] /\ empty = [o \in Owners |-> 0]
    /\ expired = {} /\ seen = {} /\ acks = {}

\* Worker o sends a final response, the first one or a replay of it
Reply(o, k) ==
    /\ txns' = Record(txns, k, o)
    /\ expired' = (expired \ {k}) \cap txns'.live /\ seen' = (seen \ {k}) \cap txns'.live
    /\ UNCHANGED <<ackQueue, scan, empty, acks>>

\* An ACK of call c arrives: on the branch of a transaction of the call (for
\* a non-2xx response) or on a branch of its own
AckArrives(c, B) ==
    /\ txns' = MarkAcked(txns, c, B)
    /\ ackQueue' = [o \in Owners |-> ackQueue[o] \cup {k \in AckFinds(txns, c, B) : txns.owner[k] = o}]
    /\ seen' = seen \cup {k \in txns.live : CidOf[k] = c}
    /\ acks' = acks \cup {c}
    /\ UNCHANGED <<scan, empty, expired>>

\* Timer H, J or L of a transaction runs out
Expire(k) ==
    /\ k \in txns.live /\ k \notin expired
    /\ expired' = expired \cup {k}
    /\ UNCHANGED <<txns, ackQueue, scan, empty, seen, acks>>

\* Mutation: the ACK queue is emptied and its transactions stay
DrainNothing(o) == txns

\* The first part of a tick: the transactions in the worker's ACK queue
Drain(o) == Cleanup(txns, ackQueue[o])

\* In the table t, the transaction worker o finds in the slot its cursor is at,
\* and whether its retention is over
Swept(t, o) == {k \in t.live : t.ring[scan[o]] = k /\ t.owner[k] = o}
Ended(t, k) == k \in t.ackedKey \/ CidOf[k] \in t.ackedCid \/ k \in expired

\* After RingSize sweeps in a row that met none of its own transactions, the
\* worker counts itself idle
Idle(t, o) == Swept(t, o) = {} /\ empty[o] + 1 >= RingSize

\* The second part, unless the worker has counted itself idle: an acknowledged
\* or expired transaction is removed, any other is retransmitted when due
Sweep(t, o) ==
    /\ scan' = [scan EXCEPT ![o] = (@ + 1) % RingSize]
    /\ empty' = [empty EXCEPT ![o] = IF Swept(t, o) # {} \/ Idle(t, o) THEN 0 ELSE @ + 1]
    /\ txns' = IF Idle(t, o) THEN [t EXCEPT !.active[o] = 0]
               ELSE Cleanup(t, {k \in Swept(t, o) : Ended(t, k)})

\* sip_server_txn_tick
Tick(o) ==
    /\ ackQueue' = [ackQueue EXCEPT ![o] = {}]
    /\ \/ Drain(o).active[o] > 0 /\ Sweep(Drain(o), o)
       \/ Drain(o).active[o] = 0 /\ txns' = Drain(o) /\ UNCHANGED <<scan, empty>>
    /\ expired' = expired \cap txns'.live /\ seen' = seen \cap txns'.live
    /\ UNCHANGED acks

Next ==
    \/ \E o \in Owners : Tick(o) \/ \E k \in Keys : Reply(o, k)
    \/ \E k \in Keys : Expire(k)
    \/ \E c \in Cids : \E B \in {{}} \cup {{k} : k \in {x \in Keys : CidOf[x] = c}} : AckArrives(c, B)

\* Every worker ticks again and again; nothing else is promised
Fairness == \A o \in Owners : WF_vars(Tick(o))

Spec == Init /\ [][Next]_vars /\ Fairness

---------------------------------------------------------------------------
(* Properties *)

\* Table, queues, cursors and timers are well formed; a worker counts no more
\* empty sweeps than it needs to fall idle.
TypeOK ==
    /\ txns \in TableType
    /\ ackQueue \in [Owners -> SUBSET Keys]
    /\ scan \in [Owners -> Slots] /\ empty \in [Owners -> 0 .. RingSize - 1]
    /\ expired \subseteq Keys /\ seen \subseteq Keys /\ acks \subseteq Cids

\* Every retained response is in the slot server_slot| names, where the sweep
\* and the wrap-around of the ring find it, although a replayed response moves
\* to a new slot and leaves its key behind in the old one.
LiveIndexed == \A k \in txns.live : txns.ring[txns.slot[k]] = k

\* The Call-ID index leads an ACK only to a retained response of that call,
\* although all transactions of a call share one entry: an ACK is never queued
\* for a response that is gone or for another call.
AckIndexSound ==
    \A c \in Cids : txns.byCid[c] # NoKey
        => txns.byCid[c] \in txns.live /\ CidOf[txns.byCid[c]] = c

\* A response whose ACK was queued does not outlive the queue: it is removed,
\* unless its request is answered again.
AckStopsReply ==
    \A o \in Owners : \A k \in Keys :
        k \in ackQueue[o] /\ k \in seen ~> k \notin seen

\* A response is given up only when it expired, was displaced by wrap-around
\* or an ACK of its own call was received at some time: ACKs of other calls
\* never stop it.
AckOfSameCall ==
    [][\A o \in Owners : Tick(o)
          => \A k \in txns.live \ txns'.live : k \in expired \/ CidOf[k] \in acks]_vars

=============================================================================
