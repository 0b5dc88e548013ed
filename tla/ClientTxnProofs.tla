-------------------------- MODULE ClientTxnProofs --------------------------
(***************************************************************************)
(* The table of waiting requests stays indexed by its ring and the counts  *)
(* of the workers stay within what is live, for any number of requests and *)
(* workers and any window and ring size.                                   *)
(***************************************************************************)
EXTENDS ClientTxn, FiniteSetTheorems, TLAPS

\* What the operations keep of a table
Sound(t) ==
    /\ t \in TableType
    /\ \A k \in t.live : t.ring[t.slot[k]] = k

\* The ring has at least one slot.
LEMMA RingNat == RingSize \in Nat \ {0}
<1>1. Window \in Nat /\ Windows \in Nat /\ Window > 0 /\ Windows > 0
  BY WindowAssumption
<1>2. Window * Windows \in Nat /\ Window * Windows > 0
  BY <1>1
<1> QED BY <1>2 DEF RingSize

\* Transactions cleaned up are finitely many, so the active count of
\* sip_client_txn_cleanup stays a natural number.
LEMMA LessNat ==
    ASSUME NEW t \in TableType, NEW K, NEW o \in Owners
    PROVE  Cardinality({k \in K \cap t.live : t.owner[k] = o}) \in Nat
<1> DEFINE G == {k \in K \cap t.live : t.owner[k] = o}
<1>1. G \subseteq Keys
  BY DEF TableType
<1>2. IsFiniteSet(G)
  BY <1>1, KeysAssumption, FS_Subset
<1> QED BY <1>2, FS_CardinalityType

\* sip_client_txn_cleanup leaves the remaining requests in their slots.
LEMMA CleanupSound ==
    ASSUME NEW t, Sound(t), NEW K
    PROVE  Sound(Cleanup(t, K)) /\ Cleanup(t, K).live = t.live \ K
<1> DEFINE gone == K \cap t.live
           u == Cleanup(t, K)
           act == [o \in Owners |->
                     LET n == Cardinality({k \in gone : t.owner[k] = o})
                     IN IF t.active[o] > n THEN t.active[o] - n ELSE 0]
<1>1. t \in TableType
  BY DEF Sound
<1>2. gone \subseteq Keys
  BY <1>1 DEF TableType
<1>3. act \in [Owners -> Nat]
  <2> SUFFICES ASSUME NEW o \in Owners PROVE act[o] \in Nat
    OBVIOUS
  <2> DEFINE n == Cardinality({k \in gone : t.owner[k] = o})
  <2>1. n \in Nat
    BY <1>1, LessNat
  <2>2. t.active[o] \in Nat
    BY <1>1 DEF TableType
  <2>3. act[o] = IF t.active[o] > n THEN t.active[o] - n ELSE 0
    OBVIOUS
  <2> HIDE DEF n, act
  <2> QED BY <2>1, <2>2, <2>3
<1>4. /\ u.live = t.live \ gone /\ u.seq = t.seq /\ u.owner = t.owner /\ u.active = act
      /\ u.ring = [i \in Slots |-> IF t.ring[i] \in gone /\ t.slot[t.ring[i]] = i
                                   THEN NoKey ELSE t.ring[i]]
      /\ u.slot = [k \in Keys |-> IF k \in gone THEN 0 ELSE t.slot[k]]
      /\ u = [live |-> u.live, ring |-> u.ring, seq |-> u.seq, slot |-> u.slot,
              owner |-> u.owner, active |-> u.active]
  BY DEF Cleanup
<1> HIDE DEF u, act
<1>5. 0 \in Slots
  BY RingNat DEF Slots
<1>6. u \in TableType
  <2>1. u.live \in SUBSET Keys /\ u.seq \in Slots /\ u.owner \in [Keys -> Owners]
    BY <1>1, <1>4 DEF TableType
  <2>2. u.ring \in [Slots -> Keys \cup {NoKey}]
    BY <1>1, <1>4 DEF TableType
  <2>3. u.slot \in [Keys -> Slots]
    BY <1>1, <1>4, <1>5 DEF TableType
  <2>4. u.active \in [Owners -> Nat]
    BY <1>3, <1>4
  <2> QED BY <1>4, <2>1, <2>2, <2>3, <2>4 DEF TableType
<1>7. \A k \in u.live : u.ring[u.slot[k]] = k
  <2> SUFFICES ASSUME NEW k \in u.live PROVE u.ring[u.slot[k]] = k
    OBVIOUS
  <2>1. k \in t.live /\ k \notin gone /\ k \in Keys
    BY <1>1, <1>4 DEF TableType
  <2>2. u.slot[k] = t.slot[k] /\ t.slot[k] \in Slots
    BY <1>1, <1>4, <2>1 DEF TableType
  <2>3. t.ring[t.slot[k]] = k
    BY <2>1 DEF Sound
  <2> QED BY <1>4, <2>1, <2>2, <2>3
<1>8. u.live = t.live \ K
  BY <1>4
<1> QED BY <1>6, <1>7, <1>8 DEF Sound, u

\* An adjusted active count does not disturb the index.
LEMMA ActiveSound ==
    ASSUME NEW t, Sound(t), NEW o \in Owners, NEW n \in Nat
    PROVE  /\ Sound([t EXCEPT !.active[o] = n])
           /\ [t EXCEPT !.active[o] = n].live = t.live
<1>1. t \in TableType
  BY DEF Sound
<1>2. [t EXCEPT !.active[o] = n] \in TableType
  BY <1>1 DEF TableType
<1>3. /\ [t EXCEPT !.active[o] = n].live = t.live
      /\ [t EXCEPT !.active[o] = n].ring = t.ring
      /\ [t EXCEPT !.active[o] = n].slot = t.slot
  BY <1>1 DEF TableType
<1> QED BY <1>2, <1>3 DEF Sound

\* sip_client_txn_record keeps the index sound: whatever was in the slot it
\* takes over has been cleaned up, and a key left behind in an old slot is not
\* where client_slot| points.
LEMMA RecordSound ==
    ASSUME NEW t, Sound(t), NEW k \in Keys, NEW o \in Owners
    PROVE  Sound(Record(t, k, o)) /\ Record(t, k, o).live \subseteq t.live \cup {k}
<1> DEFINE n == IF k \in t.live THEN t.active[o] ELSE t.active[o] + 1
           v == Count(t, k, o)
           i == NextSlot(t)
           u == Displace(v, i, k)
           r == Record(t, k, o)
<1>1. t \in TableType
  BY DEF Sound
<1>2. n \in Nat
  BY <1>1 DEF TableType
<1>3. Sound(v) /\ v.live = t.live
  <2>1. v = [t EXCEPT !.active[o] = n]
    BY DEF Count
  <2> QED BY <1>2, <2>1, ActiveSound
<1>4. i \in Slots
  <2>1. t.seq \in 0 .. (RingSize - 1)
    BY <1>1 DEF TableType, Slots
  <2> QED BY <2>1, RingNat DEF Slots, NextSlot
<1>5. Sound(u) /\ u.live \subseteq t.live /\ (u.ring[i] \in u.live => u.ring[i] = k)
  <2> HIDE DEF v, i
  <2>1. CASE v.ring[i] \in {NoKey, k}
    <3>1. u = v
      BY <2>1 DEF Displace
    <3>2. NoKey \notin v.live
      BY <1>3, KeysAssumption DEF Sound, TableType
    <3> QED BY <1>3, <2>1, <3>1, <3>2
  <2>2. CASE v.ring[i] \notin {NoKey, k}
    <3>1. u = Cleanup(v, {v.ring[i]})
      BY <2>2 DEF Displace
    <3>2. Sound(u) /\ u.live = v.live \ {v.ring[i]}
      BY <1>3, <3>1, CleanupSound
    <3>3. u.ring[i] \in {NoKey, v.ring[i]}
      BY <3>1, <1>4 DEF Cleanup
    <3>4. NoKey \notin v.live
      BY <1>3, KeysAssumption DEF Sound, TableType
    <3> QED BY <1>3, <3>2, <3>3, <3>4
  <2> QED BY <2>1, <2>2
<1>6. r = [live |-> u.live \cup {k}, ring |-> [u.ring EXCEPT ![i] = k], seq |-> i,
           slot |-> [u.slot EXCEPT ![k] = i], owner |-> [u.owner EXCEPT ![k] = o],
           active |-> u.active]
  BY DEF Record
<1> HIDE DEF u, i, r
<1>7. u \in TableType
  BY <1>5 DEF Sound
<1>8. r \in TableType
  BY <1>4, <1>6, <1>7 DEF TableType
<1>9. \A j \in r.live : r.ring[r.slot[j]] = j
  <2> SUFFICES ASSUME NEW j \in r.live PROVE r.ring[r.slot[j]] = j
    OBVIOUS
  <2>1. CASE j = k
    BY <1>4, <1>6, <1>7, <2>1 DEF TableType
  <2>2. CASE j # k
    <3>1. j \in u.live /\ j \in Keys
      BY <1>6, <1>7, <2>2 DEF TableType
    <3>2. u.ring[u.slot[j]] = j /\ u.slot[j] \in Slots
      BY <1>5, <1>7, <3>1 DEF Sound, TableType
    <3>3. u.slot[j] # i
      BY <1>5, <2>2, <3>1, <3>2
    <3>4. r.slot[j] = u.slot[j]
      BY <1>6, <1>7, <2>2, <3>1 DEF TableType
    <3>5. r.ring[u.slot[j]] = u.ring[u.slot[j]]
      BY <1>6, <1>7, <3>2, <3>3 DEF TableType
    <3> QED BY <3>2, <3>4, <3>5
  <2> QED BY <2>1, <2>2
<1>10. r.live \subseteq t.live \cup {k}
  BY <1>5, <1>6
<1> QED BY <1>8, <1>9, <1>10 DEF Sound, r

---------------------------------------------------------------------------
IInv == TypeOK /\ Sound(txns)

\* No request is recorded at the start.
LEMMA InitIInv == Init => IInv
<1> SUFFICES ASSUME Init PROVE IInv
  OBVIOUS
<1>1. 0 \in Slots /\ 0 \in 0 .. Windows - 1 /\ 0 \in 0 .. Windows
  BY RingNat, WindowAssumption DEF Slots
<1>2. txns \in TableType /\ txns.live = {}
  BY <1>1 DEF Init, TableType
<1>3. TypeOK
  BY <1>1, <1>2 DEF Init, TypeOK
<1> QED BY <1>2, <1>3 DEF IInv, Sound

\* A request is sent or recorded again.
LEMMA SendIInv == ASSUME IInv, NEW o \in Owners, NEW k \in Keys, Send(o, k) PROVE IInv'
<1>1. Sound(txns')
  BY RecordSound DEF IInv, Send
<1>2. txns' \in TableType
  BY <1>1 DEF Sound
<1>3. txns.seq \in 0 .. (RingSize - 1)
  BY DEF IInv, TypeOK, TableType, Slots
<1>4. NextSlot(txns) \in Slots
  BY <1>3, RingNat DEF NextSlot, Slots
<1>5. scan' \in [Owners -> Slots]
  BY <1>4 DEF IInv, TypeOK, Send, CursorAfterRecord
<1>6. due' \subseteq txns'.live /\ expired' \subseteq txns'.live /\ empty' = empty
  BY DEF Send
<1>7. stray' \subseteq Owners
  BY DEF IInv, TypeOK, TableType, Send
<1> QED BY <1>1, <1>2, <1>5, <1>6, <1>7 DEF IInv, TypeOK, Sound

\* A final response ends a transaction.
LEMMA FinalIInv == ASSUME IInv, NEW k \in Keys, Final(k) PROVE IInv'
<1>1. Sound(txns') /\ txns'.live = txns.live \ {k}
  BY CleanupSound DEF IInv, Final
<1>2. txns' \in TableType
  BY <1>1 DEF Sound
<1>3. due' \subseteq txns'.live /\ expired' \subseteq txns'.live /\ UNCHANGED <<scan, empty, stray>>
  BY <1>1 DEF IInv, TypeOK, Final
<1> QED BY <1>1, <1>2, <1>3 DEF IInv, TypeOK, Sound

\* A tick sweeps a window or makes the worker idle.
LEMMA TickIInv == ASSUME IInv, NEW o \in Owners, Tick(o) PROVE IInv'
<1>1. Sound(txns') /\ txns.live \ (Swept(o) \cap expired) \subseteq txns'.live
  <2>1. CASE Idle(o)
    <3>1. txns' = [txns EXCEPT !.active[o] = 0]
      BY <2>1 DEF Tick
    <3> QED BY <3>1, ActiveSound DEF IInv
  <2>2. CASE ~Idle(o)
    <3>1. txns' = Cleanup(txns, Swept(o) \cap expired)
      BY <2>2 DEF Tick
    <3> QED BY <3>1, CleanupSound DEF IInv
  <2> QED BY <2>1, <2>2
<1>2. txns' \in TableType
  BY <1>1 DEF Sound
<1>3. due' \subseteq txns'.live /\ expired' \subseteq txns'.live
  BY <1>1 DEF IInv, TypeOK, Tick
<1>4. scan[o] \in 0 .. (RingSize - 1) /\ scan \in [Owners -> Slots]
  BY DEF IInv, TypeOK, Slots
<1>5. (scan[o] + Window) % RingSize \in Slots
  BY <1>4, RingNat, WindowAssumption DEF Slots
<1>6. scan' \in [Owners -> Slots]
  BY <1>4, <1>5 DEF Tick
<1>7. empty[o] \in 0 .. Windows - 1 /\ empty \in [Owners -> 0 .. Windows - 1]
  BY DEF IInv, TypeOK
<1>8. (IF Swept(o) # {} \/ Idle(o) THEN 0 ELSE empty[o] + 1) \in 0 .. Windows - 1
  BY <1>7, WindowAssumption DEF Idle
<1>9. empty' \in [Owners -> 0 .. Windows - 1]
  BY <1>7, <1>8 DEF Tick
<1>10. stray' \subseteq Owners
  BY DEF IInv, TypeOK, Tick
<1> QED BY <1>1, <1>2, <1>3, <1>6, <1>9, <1>10 DEF IInv, TypeOK, Sound

\* Every step keeps the invariant.
LEMMA NextIInv == ASSUME IInv, [Next]_vars PROVE IInv'
<1>1. ASSUME NEW o \in Owners, Tick(o) PROVE IInv'
  BY <1>1, TickIInv
<1>2. ASSUME NEW o \in Owners, NEW k \in Keys, Send(o, k) PROVE IInv'
  BY <1>2, SendIInv
<1>3. ASSUME NEW k \in Keys, Final(k) PROVE IInv'
  BY <1>3, FinalIInv
<1>4. ASSUME NEW k \in Keys, Provisional(k) PROVE IInv'
  BY <1>4, WindowAssumption DEF IInv, TypeOK, Sound, Provisional
<1>5. ASSUME NEW k \in Keys, BecomesDue(k) PROVE IInv'
  BY <1>5 DEF IInv, TypeOK, Sound, BecomesDue
<1>6. ASSUME NEW k \in Keys, Expire(k) PROVE IInv'
  BY <1>6 DEF IInv, TypeOK, Sound, Expire
<1>7. CASE UNCHANGED vars
  BY <1>7 DEF IInv, TypeOK, Sound, vars
<1> QED BY <1>1, <1>2, <1>3, <1>4, <1>5, <1>6, <1>7 DEF Next

---------------------------------------------------------------------------
\* The strengthened invariant holds in every reachable state.
THEOREM IInvAlways == Spec => []IInv
<1>1. Init => IInv
  BY InitIInv
<1>2. IInv /\ [Next]_vars => IInv'
  BY NextIInv
<1> QED BY <1>1, <1>2, PTL DEF Spec

\* The client transaction table, the cursors and the timers keep their types;
\* a timer never outlives its request.
THEOREM TypeCorrect == Spec => []TypeOK
<1>1. IInv => TypeOK
  BY DEF IInv
<1> QED BY <1>1, IInvAlways, PTL

\* Every waiting request is in the slot client_slot| names, whatever the order
\* of sends, repeated sends, responses and sweeps.
THEOREM LiveIndexedAlways == Spec => []LiveIndexed
<1>1. IInv => LiveIndexed
  BY DEF IInv, Sound, LiveIndexed
<1> QED BY <1>1, IInvAlways, PTL

---------------------------------------------------------------------------
(* The count of a worker.  A request recorded while it is not live is      *)
(* counted before it is entered, so the table between the two is one       *)
(* ahead: Within(t, w, n) allows for it.                                   *)

OwnedBy(t, w) == {k \in t.live : t.owner[k] = w}
Within(t, w, n) == t.active[w] <= Cardinality(OwnedBy(t, w)) + n

\* The live requests of a worker are finitely many.
LEMMA OwnedFinite ==
    ASSUME NEW t \in TableType, NEW w
    PROVE  IsFiniteSet(OwnedBy(t, w)) /\ Cardinality(OwnedBy(t, w)) \in Nat
<1>1. OwnedBy(t, w) \subseteq Keys
  BY DEF TableType, OwnedBy
<1>2. IsFiniteSet(OwnedBy(t, w))
  BY <1>1, KeysAssumption, FS_Subset
<1> QED BY <1>2, FS_CardinalityType

\* sip_client_txn_cleanup takes as many from the count of a worker as from
\* its part of the table.
LEMMA CleanupCount ==
    ASSUME NEW t, Sound(t), NEW w \in Owners, NEW n \in Nat, Within(t, w, n), NEW K
    PROVE  Within(Cleanup(t, K), w, n)
<1> DEFINE gone == {k \in K \cap t.live : t.owner[k] = w}
           m == Cardinality(gone)
           old == OwnedBy(t, w)
           u == Cleanup(t, K)
<1>1. t \in TableType
  BY DEF Sound
<1>2. u.live = t.live \ (K \cap t.live) /\ u.owner = t.owner
  BY DEF Cleanup
<1>3. u.active[w] = IF t.active[w] > m THEN t.active[w] - m ELSE 0
  BY DEF Cleanup
<1>4. OwnedBy(u, w) = old \ gone /\ old \cap gone = gone
  BY <1>2 DEF OwnedBy
<1>5. t.active[w] \in Nat /\ IsFiniteSet(old) /\ Cardinality(old) \in Nat
  BY <1>1, OwnedFinite DEF TableType
<1>6. t.active[w] <= Cardinality(old) + n
  BY DEF Within
<1> HIDE DEF gone, u, old
<1>7. IsFiniteSet(gone) /\ m \in Nat
  BY <1>4, <1>5, FS_Subset, FS_CardinalityType
<1>8. Cardinality(old \ gone) = Cardinality(old) - m
  BY <1>4, <1>5, FS_Difference
<1>9. Cardinality(old \ gone) \in Nat
  BY <1>5, FS_Subset, FS_CardinalityType
<1> HIDE DEF m
<1>10. u.active[w] <= Cardinality(OwnedBy(u, w)) + n
  BY <1>3, <1>4, <1>5, <1>6, <1>7, <1>8, <1>9
<1> QED BY <1>10 DEF Within, u

\* sip_client_txn_record counts a request once, for the worker that records
\* it, whatever it displaces; the other workers keep what they count unless
\* the request was theirs.
LEMMA RecordCount ==
    ASSUME NEW t, Sound(t), NEW k \in Keys, NEW o \in Owners,
           NEW w \in Owners, Within(t, w, 0),
           w # o => ~(k \in t.live /\ t.owner[k] = w)
    PROVE  Within(Record(t, k, o), w, 0)
<1> DEFINE n == IF w = o /\ k \notin t.live THEN 1 ELSE 0
           a == IF k \in t.live THEN t.active[o] ELSE t.active[o] + 1
           v == Count(t, k, o)
           i == NextSlot(t)
           u == Displace(v, i, k)
           r == Record(t, k, o)
<1>1. t \in TableType /\ n \in Nat
  BY DEF Sound
<1>2. t.active[w] \in Nat /\ t.active[o] \in Nat /\ a \in Nat /\ Cardinality(OwnedBy(t, w)) \in Nat
  BY <1>1, OwnedFinite DEF TableType
<1>3. v = [t EXCEPT !.active[o] = a]
  BY DEF Count
<1>4. Sound(v) /\ v.live = t.live
  BY <1>2, <1>3, ActiveSound
<1>5. v.owner = t.owner /\ v.active[w] = t.active[w] + n
  BY <1>1, <1>2, <1>3 DEF TableType
<1>6. Within(v, w, n)
  <2>1. t.active[w] <= Cardinality(OwnedBy(t, w)) + 0
    BY DEF Within
  <2>2. OwnedBy(v, w) = OwnedBy(t, w)
    BY <1>4, <1>5 DEF OwnedBy
  <2> HIDE DEF v, n
  <2>3. v.active[w] <= Cardinality(OwnedBy(v, w)) + n
    BY <1>1, <1>2, <1>5, <2>1, <2>2
  <2> QED BY <2>3 DEF Within
<1>7. r.live = u.live \cup {k} /\ r.active = u.active /\ r.owner = [u.owner EXCEPT ![k] = o]
  BY DEF Record
<1> HIDE DEF v, i, r
<1>8. /\ Sound(u) /\ Within(u, w, n) /\ u.owner = t.owner
      /\ (k \in u.live <=> k \in t.live)
  <2>1. CASE v.ring[i] \in {NoKey, k}
    BY <1>4, <1>5, <1>6, <2>1 DEF Displace
  <2>2. CASE v.ring[i] \notin {NoKey, k}
    <3>1. u = Cleanup(v, {v.ring[i]})
      BY <2>2 DEF Displace
    <3>2. Sound(u) /\ u.live = v.live \ {v.ring[i]}
      BY <1>4, <3>1, CleanupSound
    <3>3. Within(u, w, n)
      BY <1>1, <1>4, <1>6, <3>1, CleanupCount
    <3>4. u.owner = v.owner
      BY <3>1 DEF Cleanup
    <3> QED BY <1>4, <1>5, <2>2, <3>2, <3>3, <3>4
  <2> QED BY <2>1, <2>2
<1> HIDE DEF u
<1>9. u \in TableType
  BY <1>8 DEF Sound
<1>10. u.active[w] \in Nat /\ IsFiniteSet(OwnedBy(u, w)) /\ Cardinality(OwnedBy(u, w)) \in Nat
  BY <1>9, OwnedFinite DEF TableType
<1>11. u.active[w] <= Cardinality(OwnedBy(u, w)) + n
  BY <1>8 DEF Within
<1>12. Cardinality(OwnedBy(r, w)) \in Nat /\ Cardinality(OwnedBy(r, w)) >= Cardinality(OwnedBy(u, w)) + n
  <2>1. CASE w = o
    <3>1. OwnedBy(r, w) = OwnedBy(u, w) \cup {k}
      BY <1>7, <1>9, <2>1 DEF OwnedBy, TableType
    <3>2. Cardinality(OwnedBy(u, w) \cup {k}) = IF k \in OwnedBy(u, w)
             THEN Cardinality(OwnedBy(u, w)) ELSE Cardinality(OwnedBy(u, w)) + 1
      BY <1>10, FS_AddElement
    <3>3. n = 1 => k \notin OwnedBy(u, w)
      BY <1>8 DEF OwnedBy
    <3>4. n \in {0, 1}
      OBVIOUS
    <3> HIDE DEF n
    <3> QED BY <1>10, <3>1, <3>2, <3>3, <3>4
  <2>2. CASE w # o
    <3>1. OwnedBy(r, w) = OwnedBy(u, w)
      BY <1>7, <1>8, <1>9, <2>2 DEF OwnedBy, TableType
    <3>2. n = 0
      BY <2>2
    <3> QED BY <1>10, <3>1, <3>2
  <2> QED BY <2>1, <2>2
<1> HIDE DEF n
<1>13. r.active[w] <= Cardinality(OwnedBy(r, w)) + 0
  BY <1>1, <1>7, <1>10, <1>11, <1>12
<1> QED BY <1>13 DEF Within, r

\* CountNotAbove in terms of Within
Counted == \A w \in Owners \ stray : Within(txns, w, 0)

\* Every step keeps the counts within the table.
LEMMA NextCount == ASSUME IInv, Counted, [Next]_vars PROVE Counted'
<1>1. Sound(txns) /\ txns \in TableType
  BY DEF IInv, TypeOK
<1> SUFFICES ASSUME NEW w \in Owners, w \notin stray' PROVE Within(txns', w, 0)
  BY DEF Counted
<1>2. ASSUME NEW o \in Owners, NEW k \in Keys, Send(o, k) PROVE Within(txns', w, 0)
  <2>1. w \notin stray /\ (w # o => ~(k \in txns.live /\ txns.owner[k] = w))
    BY <1>2 DEF Send
  <2>2. Within(txns, w, 0)
    BY <2>1 DEF Counted
  <2>3. txns' = Record(txns, k, o)
    BY <1>2 DEF Send
  <2> QED BY <1>1, <2>1, <2>2, <2>3, RecordCount
<1>3. ASSUME NEW k \in Keys, Final(k) PROVE Within(txns', w, 0)
  <2>1. Within(txns, w, 0) /\ txns' = Cleanup(txns, {k})
    BY <1>3 DEF Counted, Final
  <2> QED BY <1>1, <2>1, CleanupCount
<1>4. ASSUME NEW o \in Owners, Tick(o) PROVE Within(txns', w, 0)
  <2>1. CASE Idle(o)
    <3>1. txns' = [txns EXCEPT !.active[o] = 0] /\ stray' = stray \ {o}
      BY <1>4, <2>1 DEF Tick
    <3>2. OwnedBy(txns', w) = OwnedBy(txns, w)
      BY <1>1, <3>1 DEF OwnedBy, TableType
    <3>3. CASE w = o
      <4>1. txns'.active[w] = 0
        BY <1>1, <3>1, <3>3 DEF TableType
      <4>2. Cardinality(OwnedBy(txns, w)) \in Nat
        BY <1>1, OwnedFinite
      <4> QED BY <3>2, <4>1, <4>2 DEF Within
    <3>4. CASE w # o
      <4>1. Within(txns, w, 0) /\ txns'.active[w] = txns.active[w]
        BY <1>1, <3>1, <3>4 DEF Counted, TableType
      <4> QED BY <3>2, <4>1 DEF Within
    <3> QED BY <3>3, <3>4
  <2>2. CASE ~Idle(o)
    <3>1. txns' = Cleanup(txns, Swept(o) \cap expired) /\ Within(txns, w, 0)
      BY <1>4, <2>2 DEF Tick, Counted
    <3> QED BY <1>1, <3>1, CleanupCount
  <2> QED BY <2>1, <2>2
<1>5. CASE UNCHANGED <<txns, stray>>
  BY <1>5 DEF Counted
<1>6. ASSUME NEW k \in Keys, Provisional(k) \/ BecomesDue(k) \/ Expire(k)
      PROVE  UNCHANGED <<txns, stray>>
  BY <1>6 DEF Provisional, BecomesDue, Expire
<1> QED BY <1>2, <1>3, <1>4, <1>5, <1>6 DEF Next, vars

\* No worker counts more requests than it has waiting, so a worker with none
\* has the count zero and stops sweeping, however requests are sent again,
\* finished, displaced by the ring and given up, by any workers; only one
\* whose request another worker recorded again counts it until it is idle.
THEOREM CountNotAboveAlways == Spec => []CountNotAbove
<1>1. Init => Counted
  <2> SUFFICES ASSUME Init, NEW w \in Owners PROVE Within(txns, w, 0)
    BY DEF Counted
  <2>1. OwnedBy(txns, w) = {} /\ txns.active[w] = 0
    BY DEF Init, OwnedBy
  <2> QED BY <2>1, FS_EmptySet DEF Within
<1>2. IInv /\ Counted /\ [Next]_vars => Counted'
  BY NextCount
<1>3. IInv /\ Counted => CountNotAbove
  <2> SUFFICES ASSUME IInv, Counted, NEW w \in Owners \ stray
               PROVE  txns.active[w] <= Cardinality(OwnedBy(txns, w))
    BY DEF CountNotAbove, OwnedBy
  <2>1. Cardinality(OwnedBy(txns, w)) \in Nat
    BY OwnedFinite DEF IInv, TypeOK
  <2> QED BY <2>1 DEF Counted, Within
<1> QED BY <1>1, <1>2, <1>3, IInvAlways, PTL DEF Spec

=============================================================================
