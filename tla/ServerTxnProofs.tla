-------------------------- MODULE ServerTxnProofs --------------------------
(***************************************************************************)
(* The table of retained responses keeps its indexes sound, for any number *)
(* of transactions, calls and workers and any size of the ring.  Each      *)
(* action is built from Cleanup and Record, so the two lemmas about them   *)
(* carry the proof; the marks of acknowledged responses are followed in    *)
(* the same way.                                                           *)
(***************************************************************************)
EXTENDS ServerTxn, FiniteSetTheorems, TLAPS

\* What the two operations keep of a table: LiveIndexed and AckIndexSound
Sound(t) ==
    /\ t \in TableType
    /\ \A k \in t.live : t.ring[t.slot[k]] = k
    /\ \A c \in Cids : t.byCid[c] # NoKey => t.byCid[c] \in t.live /\ CidOf[t.byCid[c]] = c

\* Transactions cleaned up are finitely many, so the active count of
\* sip_server_txn_cleanup stays a natural number.
LEMMA LessNat ==
    ASSUME NEW t \in TableType, NEW K, NEW o \in Owners
    PROVE  Cardinality({k \in K \cap t.live : t.owner[k] = o}) \in Nat
<1> DEFINE G == {k \in K \cap t.live : t.owner[k] = o}
<1>1. G \subseteq Keys
  BY DEF TableType
<1>2. IsFiniteSet(G)
  BY <1>1, KeysAssumption, FS_Subset
<1> QED BY <1>2, FS_CardinalityType

\* sip_server_txn_cleanup keeps the indexes sound: the slots of the remaining
\* transactions stay, and the calls of the removed ones lose their entry.
LEMMA CleanupSound ==
    ASSUME NEW t, Sound(t), NEW K
    PROVE  Sound(Cleanup(t, K)) /\ Cleanup(t, K).live = t.live \ K
<1> DEFINE gone == K \cap t.live
           u == Cleanup(t, K)
           act == [o \in Owners |->
                     LET n == Cardinality({k \in gone : t.owner[k] = o})
                     IN IF t.active[o] > n THEN t.active[o] - n ELSE 0]
<1>1. t \in TableType
  BY DEF Sound
<1>2. gone \subseteq Keys /\ CallsOf(gone) \subseteq Cids
  BY <1>1, CidOfAssumption DEF TableType, CallsOf
<1>3. act \in [Owners -> Nat]
  <2> SUFFICES ASSUME NEW o \in Owners PROVE act[o] \in Nat
    OBVIOUS
  <2> DEFINE n == Cardinality({k \in gone : t.owner[k] = o})
  <2>1. n \in Nat
    BY <1>1, LessNat
  <2>2. t.active[o] \in Nat
    BY <1>1 DEF TableType
  <2>3. act[o] = IF t.active[o] > n THEN t.active[o] - n ELSE 0
    OBVIOUS
  <2> HIDE DEF n, act
  <2> QED BY <2>1, <2>2, <2>3
<1>4. /\ u.live = t.live \ gone /\ u.seq = t.seq /\ u.owner = t.owner /\ u.active = act
      /\ u.ring = [i \in Slots |-> IF t.ring[i] \in gone /\ t.slot[t.ring[i]] = i
                                   THEN NoKey ELSE t.ring[i]]
      /\ u.slot = [k \in Keys |-> IF k \in gone THEN 0 ELSE t.slot[k]]
      /\ u.byCid = [c \in Cids |-> IF c \in CallsOf(gone) THEN NoKey ELSE t.byCid[c]]
      /\ u.ackedKey = t.ackedKey \ gone /\ u.ackedCid = t.ackedCid \ CallsOf(gone)
      /\ u = [live |-> u.live, ring |-> u.ring, seq |-> u.seq, slot |-> u.slot,
              owner |-> u.owner, active |-> u.active, byCid |-> u.byCid,
              ackedKey |-> u.ackedKey, ackedCid |-> u.ackedCid]
  BY DEF Cleanup
<1> HIDE DEF u, act
<1>5. 0 \in Slots
  BY RingSizeAssumption DEF Slots
<1>6. u \in TableType
  <2>1. u.live \in SUBSET Keys /\ u.seq \in Slots /\ u.owner \in [Keys -> Owners]
    BY <1>1, <1>4 DEF TableType
  <2>2. u.ring \in [Slots -> Keys \cup {NoKey}]
    BY <1>1, <1>4 DEF TableType
  <2>3. u.slot \in [Keys -> Slots]
    BY <1>1, <1>4, <1>5 DEF TableType
  <2>4. u.byCid \in [Cids -> Keys \cup {NoKey}]
    BY <1>1, <1>4 DEF TableType
  <2>5. u.ackedKey \in SUBSET Keys /\ u.ackedCid \in SUBSET Cids
    BY <1>1, <1>4 DEF TableType
  <2>6. u.active \in [Owners -> Nat]
    BY <1>3, <1>4
  <2> QED BY <1>4, <2>1, <2>2, <2>3, <2>4, <2>5, <2>6 DEF TableType
<1>7. \A k \in u.live : u.ring[u.slot[k]] = k
  <2> SUFFICES ASSUME NEW k \in u.live PROVE u.ring[u.slot[k]] = k
    OBVIOUS
  <2>1. k \in t.live /\ k \notin gone /\ k \in Keys
    BY <1>1, <1>4 DEF TableType
  <2>2. u.slot[k] = t.slot[k] /\ t.slot[k] \in Slots
    BY <1>1, <1>4, <2>1 DEF TableType
  <2>3. t.ring[t.slot[k]] = k
    BY <2>1 DEF Sound
  <2> QED BY <1>4, <2>1, <2>2, <2>3
<1>8. \A c \in Cids : u.byCid[c] # NoKey => u.byCid[c] \in u.live /\ CidOf[u.byCid[c]] = c
  <2> SUFFICES ASSUME NEW c \in Cids, u.byCid[c] # NoKey
               PROVE  u.byCid[c] \in u.live /\ CidOf[u.byCid[c]] = c
    OBVIOUS
  <2>1. c \notin CallsOf(gone) /\ u.byCid[c] = t.byCid[c]
    BY <1>4
  <2>2. t.byCid[c] \in t.live /\ CidOf[t.byCid[c]] = c
    BY <2>1 DEF Sound
  <2>3. t.byCid[c] \notin gone
    BY <2>1, <2>2 DEF CallsOf
  <2> QED BY <1>4, <2>1, <2>2, <2>3
<1>9. u.live = t.live \ K
  BY <1>4
<1> QED BY <1>6, <1>7, <1>8, <1>9 DEF Sound, u

\* An adjusted active count does not disturb the indexes.
LEMMA ActiveSound ==
    ASSUME NEW t, Sound(t), NEW o \in Owners, NEW n \in Nat
    PROVE  /\ Sound([t EXCEPT !.active[o] = n])
           /\ [t EXCEPT !.active[o] = n].live = t.live
<1>1. t \in TableType
  BY DEF Sound
<1>2. [t EXCEPT !.active[o] = n] \in TableType
  BY <1>1 DEF TableType
<1>3. /\ [t EXCEPT !.active[o] = n].live = t.live
      /\ [t EXCEPT !.active[o] = n].ring = t.ring
      /\ [t EXCEPT !.active[o] = n].slot = t.slot
      /\ [t EXCEPT !.active[o] = n].byCid = t.byCid
  BY <1>1 DEF TableType
<1> QED BY <1>2, <1>3 DEF Sound

\* sip_server_txn_record keeps the indexes sound: whatever was in the slot it
\* takes over has been cleaned up, and a key left behind in an old slot is not
\* where server_slot| points.
LEMMA RecordSound ==
    ASSUME NEW t, Sound(t), NEW k \in Keys, NEW o \in Owners
    PROVE  Sound(Record(t, k, o)) /\ Record(t, k, o).live \subseteq t.live \cup {k}
<1> DEFINE n == IF k \in t.live THEN t.active[o] ELSE t.active[o] + 1
           v == [t EXCEPT !.active[o] = n]
           i == (t.seq + 1) % RingSize
           u == Displace(v, i, k)
           r == Record(t, k, o)
<1>1. t \in TableType
  BY DEF Sound
<1>2. n \in Nat
  BY <1>1 DEF TableType
<1>3. Sound(v) /\ v.live = t.live
  BY <1>2, ActiveSound
<1>4. i \in Slots
  <2>1. t.seq \in 0 .. (RingSize - 1)
    BY <1>1 DEF TableType, Slots
  <2> QED BY <2>1, RingSizeAssumption DEF Slots
<1>5. Sound(u) /\ u.live \subseteq t.live /\ (u.ring[i] \in u.live => u.ring[i] = k)
  <2> HIDE DEF v, i
  <2>1. CASE v.ring[i] \in {NoKey, k}
    <3>1. u = v
      BY <2>1 DEF Displace
    <3>2. NoKey \notin v.live
      BY <1>3, NoKeyAssumption DEF Sound, TableType
    <3> QED BY <1>3, <2>1, <3>1, <3>2
  <2>2. CASE v.ring[i] \notin {NoKey, k}
    <3>1. u = Cleanup(v, {v.ring[i]})
      BY <2>2 DEF Displace
    <3>2. Sound(u) /\ u.live = v.live \ {v.ring[i]}
      BY <1>3, <3>1, CleanupSound
    <3>3. u.ring[i] \in {NoKey, v.ring[i]}
      BY <3>1, <1>4 DEF Cleanup
    <3>4. NoKey \notin v.live
      BY <1>3, NoKeyAssumption DEF Sound, TableType
    <3> QED BY <1>3, <3>2, <3>3, <3>4
  <2> QED BY <2>1, <2>2
<1>6. r = [live |-> u.live \cup {k}, ring |-> [u.ring EXCEPT ![i] = k], seq |-> i,
           slot |-> [u.slot EXCEPT ![k] = i], owner |-> [u.owner EXCEPT ![k] = o],
           active |-> u.active, byCid |-> [u.byCid EXCEPT ![CidOf[k]] = k],
           ackedKey |-> u.ackedKey, ackedCid |-> u.ackedCid]
  BY DEF Record
<1> HIDE DEF u, i, r
<1>7. u \in TableType
  BY <1>5 DEF Sound
<1>8. r \in TableType
  BY <1>4, <1>6, <1>7, CidOfAssumption DEF TableType
<1>9. \A j \in r.live : r.ring[r.slot[j]] = j
  <2> SUFFICES ASSUME NEW j \in r.live PROVE r.ring[r.slot[j]] = j
    OBVIOUS
  <2>1. CASE j = k
    BY <1>4, <1>6, <1>7, <2>1 DEF TableType
  <2>2. CASE j # k
    <3>1. j \in u.live /\ j \in Keys
      BY <1>6, <1>7, <2>2 DEF TableType
    <3>2. u.ring[u.slot[j]] = j /\ u.slot[j] \in Slots
      BY <1>5, <1>7, <3>1 DEF Sound, TableType
    <3>3. u.slot[j] # i
      BY <1>5, <2>2, <3>1, <3>2
    <3>4. r.slot[j] = u.slot[j]
      BY <1>6, <1>7, <2>2, <3>1 DEF TableType
    <3>5. r.ring[u.slot[j]] = u.ring[u.slot[j]]
      BY <1>6, <1>7, <3>2, <3>3 DEF TableType
    <3> QED BY <3>2, <3>4, <3>5
  <2> QED BY <2>1, <2>2
<1>10. \A c \in Cids : r.byCid[c] # NoKey => r.byCid[c] \in r.live /\ CidOf[r.byCid[c]] = c
  <2> SUFFICES ASSUME NEW c \in Cids, r.byCid[c] # NoKey
               PROVE  r.byCid[c] \in r.live /\ CidOf[r.byCid[c]] = c
    OBVIOUS
  <2>1. CASE c = CidOf[k]
    BY <1>6, <1>7, <2>1 DEF TableType
  <2>2. CASE c # CidOf[k]
    <3>1. r.byCid[c] = u.byCid[c]
      BY <1>6, <1>7, <2>2 DEF TableType
    <3>2. u.byCid[c] \in u.live /\ CidOf[u.byCid[c]] = c
      BY <1>5, <3>1 DEF Sound
    <3> QED BY <1>6, <3>1, <3>2
  <2> QED BY <2>1, <2>2
<1>11. r.live \subseteq t.live \cup {k}
  BY <1>5, <1>6
<1> QED BY <1>8, <1>9, <1>10, <1>11 DEF Sound, r

---------------------------------------------------------------------------
IInv == TypeOK /\ Sound(txns)

\* No transaction is recorded at the start.
LEMMA InitIInv == Init => IInv
<1> SUFFICES ASSUME Init PROVE IInv
  OBVIOUS
<1>1. 0 \in Slots /\ 0 \in 0 .. RingSize - 1
  BY RingSizeAssumption DEF Slots
<1>2. txns \in TableType /\ txns.live = {} /\ txns.byCid = [c \in Cids |-> NoKey]
  BY <1>1 DEF Init, TableType
<1>3. TypeOK
  BY <1>1, <1>2 DEF Init, TypeOK
<1> QED BY <1>2, <1>3 DEF IInv, Sound

\* A tick of a worker: the queued ACKs, then the sweep.
LEMMA TickIInv == ASSUME IInv, NEW o \in Owners, Tick(o) PROVE IInv'
<1> DEFINE d == Drain(o)
<1>1. Sound(d)
  BY CleanupSound DEF IInv, Drain
<1>2. Sound(txns') /\ scan' \in [Owners -> Slots] /\ empty' \in [Owners -> 0 .. RingSize - 1]
  <2>1. CASE Sweep(d, o)
    <3>1. Sound(txns')
      <4>1. CASE Idle(d, o)
        BY <1>1, <2>1, <4>1, ActiveSound DEF Sweep
      <4>2. CASE ~Idle(d, o)
        BY <1>1, <2>1, <4>2, CleanupSound DEF Sweep
      <4> QED BY <4>1, <4>2
    <3> HIDE DEF d
    <3>2. scan[o] \in 0 .. (RingSize - 1) /\ scan \in [Owners -> Slots]
      BY DEF IInv, TypeOK, Slots
    <3>3. (scan[o] + 1) % RingSize \in Slots
      BY <3>2, RingSizeAssumption DEF Slots
    <3>4. scan' \in [Owners -> Slots]
      BY <2>1, <3>2, <3>3 DEF Sweep
    <3>5. empty[o] \in 0 .. RingSize - 1 /\ empty \in [Owners -> 0 .. RingSize - 1]
      BY DEF IInv, TypeOK
    <3>6. (IF Swept(d, o) # {} \/ Idle(d, o) THEN 0 ELSE empty[o] + 1) \in 0 .. RingSize - 1
      BY <3>5, RingSizeAssumption DEF Idle
    <3>7. empty' \in [Owners -> 0 .. RingSize - 1]
      BY <2>1, <3>5, <3>6 DEF Sweep
    <3> QED BY <3>1, <3>4, <3>7
  <2>2. CASE txns' = d /\ UNCHANGED <<scan, empty>>
    BY <1>1, <2>2 DEF IInv, TypeOK
  <2> QED BY <2>1, <2>2 DEF Tick
<1>3. txns' \in TableType /\ txns'.live \subseteq Keys
  BY <1>2 DEF Sound, TableType
<1>4. ackQueue' \in [Owners -> SUBSET Keys]
  BY DEF IInv, TypeOK, Tick
<1>5. expired' \subseteq Keys /\ seen' \subseteq Keys /\ acks' \subseteq Cids
  BY DEF IInv, TypeOK, Tick
<1> QED BY <1>2, <1>3, <1>4, <1>5 DEF IInv, TypeOK, Sound

\* Every step keeps the invariant.
LEMMA NextIInv == ASSUME IInv, [Next]_vars PROVE IInv'
<1>1. ASSUME NEW o \in Owners, Tick(o) PROVE IInv'
  BY <1>1, TickIInv
<1>2. ASSUME NEW o \in Owners, NEW k \in Keys, Reply(o, k) PROVE IInv'
  <2>1. Sound(txns')
    BY <1>2, RecordSound DEF IInv, Reply
  <2>2. txns' \in TableType
    BY <2>1 DEF Sound
  <2>3. TypeOK'
    BY <1>2, <2>2 DEF IInv, TypeOK, Reply
  <2> QED BY <2>1, <2>3 DEF IInv, Sound
<1>3. ASSUME NEW k \in Keys, Expire(k) PROVE IInv'
  BY <1>3 DEF IInv, TypeOK, Sound, Expire
<1>4. ASSUME NEW c \in Cids,
             NEW B \in {{}} \cup {{k} : k \in {x \in Keys : CidOf[x] = c}},
             AckArrives(c, B)
      PROVE  IInv'
  <2>1. B \subseteq Keys
    OBVIOUS
  <2>2. txns \in TableType
    BY DEF IInv, TypeOK
  <2>3. /\ txns' \in TableType /\ txns'.live = txns.live /\ txns'.ring = txns.ring
        /\ txns'.slot = txns.slot /\ txns'.byCid = txns.byCid
    BY <1>4, <2>1, <2>2 DEF AckArrives, MarkAcked, TableType
  <2>4. Sound(txns')
    BY <2>3 DEF IInv, Sound
  <2>5. AckFinds(txns, c, B) \subseteq Keys
    BY <2>1, <2>2 DEF AckFinds, TableType
  <2>6. ackQueue' \in [Owners -> SUBSET Keys]
    BY <1>4, <2>5 DEF IInv, TypeOK, AckArrives
  <2>7. UNCHANGED <<scan, empty, expired>> /\ seen' \subseteq Keys /\ acks' \subseteq Cids
    BY <1>4, <2>2 DEF IInv, TypeOK, AckArrives, TableType
  <2> QED BY <2>3, <2>4, <2>6, <2>7 DEF IInv, TypeOK, Sound
<1>5. CASE UNCHANGED vars
  BY <1>5 DEF IInv, TypeOK, Sound, vars
<1> QED BY <1>1, <1>2, <1>3, <1>4, <1>5 DEF Next

---------------------------------------------------------------------------
\* The strengthened invariant holds in every reachable state.
THEOREM IInvAlways == Spec => []IInv
<1>1. Init => IInv
  BY InitIInv
<1>2. IInv /\ [Next]_vars => IInv'
  BY NextIInv
<1> QED BY <1>1, <1>2, PTL DEF Spec

\* The server transaction table and the workers' cursors keep their types.
THEOREM TypeCorrect == Spec => []TypeOK
<1>1. IInv => TypeOK
  BY DEF IInv
<1> QED BY <1>1, IInvAlways, PTL

\* Every retained response is in the slot server_slot| names, whatever the
\* order of records, replays, ACKs and sweeps of the workers.
THEOREM LiveIndexedAlways == Spec => []LiveIndexed
<1>1. IInv => LiveIndexed
  BY DEF IInv, Sound, LiveIndexed
<1> QED BY <1>1, IInvAlways, PTL

\* The Call-ID index only ever leads an ACK to a retained response of its call.
THEOREM AckIndexSoundAlways == Spec => []AckIndexSound
<1>1. IInv => AckIndexSound
  BY DEF IInv, Sound, AckIndexSound
<1> QED BY <1>1, IInvAlways, PTL

---------------------------------------------------------------------------
(* No ACK of another call stops a response: what an ACK leaves behind, in  *)
(* the markers and in the queues, names only calls that got one.           *)

\* Markers and queues speak of acknowledged calls only
AcksFiled ==
    /\ txns.ackedCid \subseteq acks
    /\ \A k \in txns.ackedKey : CidOf[k] \in acks
    /\ \A o \in Owners : \A k \in ackQueue[o] : CidOf[k] \in acks

\* sip_server_txn_cleanup files no ACK.
LEMMA CleanupMarks ==
    ASSUME NEW t, NEW K
    PROVE  /\ Cleanup(t, K).ackedKey \subseteq t.ackedKey
           /\ Cleanup(t, K).ackedCid \subseteq t.ackedCid
  BY DEF Cleanup

\* An adjusted active count files no ACK.
LEMMA ActiveMarks ==
    ASSUME NEW t \in TableType, NEW o, NEW n
    PROVE  /\ [t EXCEPT !.active[o] = n].ackedKey = t.ackedKey
           /\ [t EXCEPT !.active[o] = n].ackedCid = t.ackedCid
  BY DEF TableType

\* sip_server_txn_record files no ACK: a response sent again is not taken for
\* an acknowledged one.
LEMMA RecordMarks ==
    ASSUME NEW t \in TableType, NEW k \in Keys, NEW o \in Owners
    PROVE  /\ Record(t, k, o).ackedKey \subseteq t.ackedKey
           /\ Record(t, k, o).ackedCid \subseteq t.ackedCid
<1> DEFINE v == [t EXCEPT !.active[o] = IF k \in t.live THEN @ ELSE @ + 1]
           i == (t.seq + 1) % RingSize
           u == Displace(v, i, k)
<1>1. v.ackedKey = t.ackedKey /\ v.ackedCid = t.ackedCid
  BY DEF TableType
<1>2. Record(t, k, o).ackedKey = u.ackedKey /\ Record(t, k, o).ackedCid = u.ackedCid
  BY DEF Record
<1> HIDE DEF v, i
<1>3. u.ackedKey \subseteq v.ackedKey /\ u.ackedCid \subseteq v.ackedCid
  BY CleanupMarks DEF Displace
<1> QED BY <1>1, <1>2, <1>3

\* A tick of a worker files no ACK and empties its queue.
LEMMA TickMarks ==
    ASSUME IInv, NEW o \in Owners, Tick(o)
    PROVE  txns'.ackedKey \subseteq txns.ackedKey /\ txns'.ackedCid \subseteq txns.ackedCid
<1> DEFINE d == Drain(o)
<1>1. d \in TableType
  BY CleanupSound DEF IInv, Drain, Sound
<1>2. d.ackedKey \subseteq txns.ackedKey /\ d.ackedCid \subseteq txns.ackedCid
  BY CleanupMarks DEF Drain
<1> HIDE DEF d
<1>3. CASE Sweep(d, o)
  <2>1. CASE Idle(d, o)
    BY <1>1, <1>2, <1>3, <2>1, ActiveMarks DEF Sweep
  <2>2. CASE ~Idle(d, o)
    <3>1. txns' = Cleanup(d, {k \in Swept(d, o) : Ended(d, k)})
      BY <1>3, <2>2 DEF Sweep
    <3> QED BY <1>2, <3>1, CleanupMarks
  <2> QED BY <2>1, <2>2
<1>4. CASE txns' = d
  BY <1>2, <1>4
<1> QED BY <1>3, <1>4 DEF Tick, d

\* Every step keeps the filed ACKs true: sip_server_txn_ack marks the call of
\* the ACK and queues transactions of that call.
LEMMA NextAcksFiled == ASSUME IInv, AcksFiled, [Next]_vars PROVE AcksFiled'
<1>1. ASSUME NEW o \in Owners, Tick(o) PROVE AcksFiled'
  <2>1. txns'.ackedKey \subseteq txns.ackedKey /\ txns'.ackedCid \subseteq txns.ackedCid
    BY <1>1, TickMarks
  <2>2. acks' = acks /\ \A p \in Owners : ackQueue'[p] \subseteq ackQueue[p]
    BY <1>1 DEF Tick, IInv, TypeOK
  <2> QED BY <2>1, <2>2 DEF AcksFiled
<1>2. ASSUME NEW o \in Owners, NEW k \in Keys, Reply(o, k) PROVE AcksFiled'
  <2>1. txns'.ackedKey \subseteq txns.ackedKey /\ txns'.ackedCid \subseteq txns.ackedCid
    BY <1>2, RecordMarks DEF Reply, IInv, TypeOK
  <2>2. UNCHANGED <<ackQueue, acks>>
    BY <1>2 DEF Reply
  <2> QED BY <2>1, <2>2 DEF AcksFiled
<1>3. ASSUME NEW k \in Keys, Expire(k) PROVE AcksFiled'
  BY <1>3 DEF Expire, AcksFiled
<1>4. ASSUME NEW c \in Cids,
             NEW B \in {{}} \cup {{k} : k \in {x \in Keys : CidOf[x] = c}},
             AckArrives(c, B)
      PROVE  AcksFiled'
  <2>1. \A k \in B : CidOf[k] = c
    OBVIOUS
  <2>2. txns'.ackedKey = txns.ackedKey \cup B /\ txns'.ackedCid = txns.ackedCid \cup {c}
    BY <1>4 DEF AckArrives, MarkAcked, IInv, TypeOK, TableType
  <2>3. \A k \in AckFinds(txns, c, B) : CidOf[k] = c
    BY <2>1 DEF AckFinds, IInv, Sound
  <2>4. acks' = acks \cup {c}
    BY <1>4 DEF AckArrives
  <2>5. \A p \in Owners : ackQueue'[p] \subseteq ackQueue[p] \cup AckFinds(txns, c, B)
    BY <1>4 DEF AckArrives
  <2> QED BY <2>1, <2>2, <2>3, <2>4, <2>5 DEF AcksFiled
<1>5. CASE UNCHANGED vars
  BY <1>5 DEF AcksFiled, vars
<1> QED BY <1>1, <1>2, <1>3, <1>4, <1>5 DEF Next

\* A tick removes the transactions in the worker's queue and those it finds
\* acknowledged or expired, and no other.
LEMMA TickRemoves ==
    ASSUME IInv, NEW o \in Owners, Tick(o), NEW k \in txns.live \ txns'.live
    PROVE  k \in ackQueue[o] \/ k \in txns.ackedKey \/ CidOf[k] \in txns.ackedCid \/ k \in expired
<1> DEFINE d == Drain(o)
<1>1. Sound(d) /\ d.live = txns.live \ ackQueue[o]
  BY CleanupSound DEF IInv, Drain
<1>2. d.ackedKey \subseteq txns.ackedKey /\ d.ackedCid \subseteq txns.ackedCid
  BY CleanupMarks DEF Drain
<1> HIDE DEF d
<1>3. CASE k \in ackQueue[o]
  BY <1>3
<1>4. CASE k \in d.live
  <2>1. CASE Sweep(d, o)
    <3>1. ~Idle(d, o)
      BY <1>1, <1>4, <2>1, ActiveSound DEF Sweep
    <3>2. txns' = Cleanup(d, {j \in Swept(d, o) : Ended(d, j)})
      BY <2>1, <3>1 DEF Sweep
    <3>3. txns'.live = d.live \ {j \in Swept(d, o) : Ended(d, j)}
      BY <1>1, <3>2, CleanupSound
    <3>4. Ended(d, k)
      BY <1>4, <3>3
    <3> QED BY <1>2, <3>4 DEF Ended
  <2>2. CASE txns' = d
    BY <1>4, <2>2
  <2> QED BY <2>1, <2>2 DEF Tick, d
<1> QED BY <1>1, <1>3, <1>4

\* A worker's tick gives up a response only when it expired or an ACK of its
\* own call was received: the ACK of another call never stops its
\* retransmission, however the workers' sweeps and replays interleave.
THEOREM AckOfSameCallAlways == Spec => AckOfSameCall
<1>1. Init => AcksFiled
  BY DEF Init, AcksFiled
<1>2. IInv /\ AcksFiled /\ [Next]_vars => AcksFiled'
  BY NextAcksFiled
<1>3. IInv /\ AcksFiled
        => \A o \in Owners : Tick(o)
             => \A k \in txns.live \ txns'.live : k \in expired \/ CidOf[k] \in acks
  BY TickRemoves DEF AcksFiled
<1> QED BY <1>1, <1>2, <1>3, IInvAlways, PTL DEF Spec, AckOfSameCall

=============================================================================
