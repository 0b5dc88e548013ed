------------------------- MODULE RegistrationProofs -------------------------
(***************************************************************************)
(* Proofs about the bindings in memory.  Sound(r) collects what every      *)
(* helper of registration.mko keeps true of the table.  Its parts need     *)
(* each other: a single binding is replaced by what the slots hold, and    *)
(* removing an AoR from the ring is safe because all its keys go with it.  *)
(* To them the database only matters as the source of well-formed rows.    *)
(* FailoverAccounted relates the two, with any workers and statements that *)
(* fail: FInv at the end of the module.                                    *)
(***************************************************************************)
EXTENDS Registration, WellFoundedInduction, TLAPS

Covered(r) ==
    \A a \in Aors : (r.single[a] # None \/ \E i \in Slots : r.slot[a][i] # None)
                       => \E n \in Ring : r.ring[n] = a
Distinct(r) ==
    \A a \in Aors : \A i, j \in Slots :
        (r.slot[a][i] # None /\ r.slot[a][j] # None
            /\ r.slot[a][i].contact = r.slot[a][j].contact) => i = j
Backed(r) ==
    \A a \in Aors : Live(r.single[a]) => \E i \in Slots : r.slot[a][i] = r.single[a]
Sound(r) == r \in RegType /\ Covered(r) /\ Distinct(r) /\ Backed(r)

\* What a worker is about to write and what a process reads back is well formed.
IInv == /\ Sound(reg)
        /\ todo \in [Workers -> Statements \cup {None}]
        /\ \A w \in Workers : todo[w] # None => Rows(todo[w]) \subseteq Pairs
        /\ \A w \in Workers : todo[w] # None /\ todo[w].op # "delete" => todo[w].set # {}
        /\ db \in DbType
        /\ loading \subseteq Pairs /\ doubt \subseteq Pairs

\* Slots and ring start at 0.
LEMMA ZeroSlot == 0 \in Slots /\ 0 \in Ring /\ Slots \subseteq Nat
  BY SlotCountAssumption, RingSizeAssumption DEF Slots, Ring

\* A non-empty set of slots has a first one.
LEMMA FirstSlot ==
  ASSUME NEW S \in SUBSET Slots, S # {}
  PROVE  First(S) \in S /\ \A j \in S : First(S) <= j
  <1> DEFINE R == {ss \in Nat \X Nat : ss[1] < ss[2]}
  <1>1. IsWellFoundedOn(R, Nat)
    BY NatLessThanWellFounded, Zenon DEF OpToRel
  <1>2. \E i \in S : \A j \in S : ~(<<j, i>> \in R)
    <2>1. S \subseteq Nat
      BY ZeroSlot
    <2> HIDE DEF R
    <2> QED BY <1>1, <2>1, WFMin
  <1>3. \E i \in S : \A j \in S : i <= j
    <2>1. \A i, j \in Nat : j < i => <<j, i>> \in R
      OBVIOUS
    <2>2. \A i, j \in Nat : i <= j \/ j < i
      OBVIOUS
    <2> HIDE DEF R
    <2> QED BY <1>2, <2>1, <2>2, ZeroSlot
  <1> QED BY <1>3 DEF First

\* A record of the table, field by field.
LEMMA RegFields ==
  ASSUME NEW r \in RegType
  PROVE  /\ r.slot \in [Aors -> [Slots -> Values \cup {None}]]
         /\ r.single \in [Aors -> Values \cup {None}]
         /\ r.ring \in [Ring -> Aors \cup {None}]
         /\ r.seq \in Ring
  BY DEF RegType

\* Setting the keys of one AoR keeps the table sound if its new slots are
\* distinct, back the new single binding, and the AoR is in the ring.
LEMMA BindSound ==
  ASSUME NEW r, Sound(r), NEW a \in Aors,
         NEW s \in [Slots -> Values \cup {None}], NEW v \in Values \cup {None},
         \A i, j \in Slots : (s[i] # None /\ s[j] # None /\ s[i].contact = s[j].contact) => i = j,
         Live(v) => \E i \in Slots : s[i] = v,
         (v # None \/ \E i \in Slots : s[i] # None) => \E n \in Ring : r.ring[n] = a
  PROVE  /\ Sound(Bind(r, a, s, v))
         /\ Bind(r, a, s, v).slot[a] = s /\ Bind(r, a, s, v).single[a] = v
         /\ Bind(r, a, s, v).ring = r.ring
  <1> DEFINE q == Bind(r, a, s, v)
  <1>1. r \in RegType /\ Covered(r) /\ Distinct(r) /\ Backed(r)
    BY DEF Sound
  <1>2. /\ q.slot = [r.slot EXCEPT ![a] = s] /\ q.single = [r.single EXCEPT ![a] = v]
        /\ q.ring = r.ring /\ q.seq = r.seq
    BY DEF Bind
  <1>3. q \in RegType
    BY <1>1, RegFields DEF Bind, RegType
  <1>4. /\ q.slot[a] = s /\ q.single[a] = v
        /\ \A b \in Aors : b # a => q.slot[b] = r.slot[b] /\ q.single[b] = r.single[b]
    BY <1>1, <1>2, RegFields
  <1> HIDE DEF q
  <1>5. Covered(q)
    BY <1>1, <1>2, <1>4 DEF Covered
  <1>6. Distinct(q)
    BY <1>1, <1>4 DEF Distinct
  <1>7. Backed(q)
    BY <1>1, <1>4 DEF Backed
  <1> QED BY <1>2, <1>3, <1>4, <1>5, <1>6, <1>7 DEF Sound, q

\* The empty table of a process that starts is sound.
LEMMA EmptySound == Sound(EmptyReg)
  <1>1. EmptyReg \in RegType
    BY ZeroSlot DEF EmptyReg, RegType
  <1> QED BY <1>1 DEF Sound, Covered, Distinct, Backed, Live, EmptyReg

\* registration_find deletes only what has expired.
LEMMA FindSound ==
  ASSUME NEW r, Sound(r), NEW a \in Aors
  PROVE  /\ Sound(Find(r, a))
         /\ \A i \in Slots : Find(r, a).slot[a][i] \in {None, r.slot[a][i]}
  <1> DEFINE live == LiveSlots(r, a)
             s == [i \in Slots |-> IF \A j \in live : i < j THEN None ELSE r.slot[a][i]]
             v == IF live = {} /\ ~Live(r.single[a]) THEN None ELSE r.single[a]
  <1>1. r \in RegType /\ Covered(r) /\ Distinct(r) /\ Backed(r)
    BY DEF Sound
  <1>2. s \in [Slots -> Values \cup {None}] /\ v \in Values \cup {None}
    BY <1>1, RegFields
  <1>3. \A i \in Slots : s[i] # None => s[i] = r.slot[a][i]
    OBVIOUS
  <1>4. \A i, j \in Slots : (s[i] # None /\ s[j] # None /\ s[i].contact = s[j].contact) => i = j
    BY <1>1, <1>3 DEF Distinct
  <1>5. Live(v) => \E i \in Slots : s[i] = v
    <2> SUFFICES ASSUME Live(v) PROVE \E i \in Slots : s[i] = v
      OBVIOUS
    <2>1. v = r.single[a]
      BY DEF Live
    <2>2. PICK i \in Slots : r.slot[a][i] = v
      BY <1>1, <2>1 DEF Backed
    <2>3. i \in live
      BY <2>2 DEF LiveSlots
    <2>4. ~(i < i)
      BY ZeroSlot
    <2> QED BY <2>2, <2>3, <2>4
  <1>6. (v # None \/ \E i \in Slots : s[i] # None) => \E n \in Ring : r.ring[n] = a
    BY <1>1, <1>3 DEF Covered
  <1>7. Find(r, a) = Bind(r, a, s, v)
    BY DEF Find
  <1> HIDE DEF s, v
  <1>8. Sound(Bind(r, a, s, v)) /\ Bind(r, a, s, v).slot[a] = s
    BY <1>2, <1>4, <1>5, <1>6, BindSound
  <1> QED BY <1>3, <1>7, <1>8

\* registration_response_contacts keeps the live bindings.
LEMMA ReportSound ==
  ASSUME NEW r, Sound(r), NEW a \in Aors
  PROVE  Sound(Report(r, a))
  <1> DEFINE s == [i \in Slots |-> IF Live(r.slot[a][i]) THEN r.slot[a][i] ELSE None]
  <1>1. r \in RegType /\ Covered(r) /\ Distinct(r) /\ Backed(r)
    BY DEF Sound
  <1>2. s \in [Slots -> Values \cup {None}] /\ r.single[a] \in Values \cup {None}
    BY <1>1, RegFields
  <1>3. \A i \in Slots : s[i] # None => s[i] = r.slot[a][i]
    OBVIOUS
  <1>4. \A i, j \in Slots : (s[i] # None /\ s[j] # None /\ s[i].contact = s[j].contact) => i = j
    BY <1>1, <1>3 DEF Distinct
  <1>5. Live(r.single[a]) => \E i \in Slots : s[i] = r.single[a]
    BY <1>1 DEF Backed
  <1>6. (r.single[a] # None \/ \E i \in Slots : s[i] # None) => \E n \in Ring : r.ring[n] = a
    BY <1>1, <1>3 DEF Covered
  <1>7. Report(r, a) \in {Find(Bind(r, a, s, r.single[a]), a), Bind(r, a, s, r.single[a])}
    BY DEF Report
  <1> HIDE DEF s
  <1>8. Sound(Bind(r, a, s, r.single[a]))
    BY <1>2, <1>4, <1>5, <1>6, BindSound
  <1> QED BY <1>7, <1>8, FindSound

\* registration_clear_aor leaves no key of its AoR and touches no other.
LEMMA ClearSound ==
  ASSUME NEW r, Sound(r), NEW a \in Aors
  PROVE  /\ Sound(ClearAor(r, a))
         /\ ClearAor(r, a).slot[a] = NoSlots /\ ClearAor(r, a).single[a] = None
         /\ ClearAor(r, a).ring = r.ring
  <1>1. NoSlots \in [Slots -> Values \cup {None}] /\ \A i \in Slots : NoSlots[i] = None
    BY DEF NoSlots
  <1> QED BY <1>1, BindSound DEF ClearAor, Live

\* The place after a place of the ring is one.
LEMMA RingNext == ASSUME NEW n \in Ring PROVE (n + 1) % RingSize \in Ring
  BY RingSizeAssumption DEF Ring

\* registration_track_aor gives the AoR a place; the AoR that loses it has no
\* key left.
LEMMA TrackSound ==
  ASSUME NEW r, Sound(r), NEW a \in Aors
  PROVE  Sound(TrackAor(r, a)) /\ \E n \in Ring : TrackAor(r, a).ring[n] = a
  <1> DEFINE m    == (r.seq + 1) % RingSize
             old  == r.ring[m]
             kept == IF old = None \/ old = a THEN r ELSE ClearAor(r, old)
             t    == [slot |-> kept.slot, single |-> kept.single,
                      ring |-> [r.ring EXCEPT ![m] = a], seq |-> m]
  <1>1. r \in RegType /\ Covered(r) /\ Distinct(r) /\ Backed(r)
    BY DEF Sound
  <1>2. CASE r.slot[a][0] # None
    <2>1. TrackAor(r, a) = r
      BY <1>2 DEF TrackAor
    <2> QED BY <1>1, <1>2, <2>1, ZeroSlot DEF Covered
  <1>3. CASE r.slot[a][0] = None
    <2>1. TrackAor(r, a) = t
      BY <1>3 DEF TrackAor
    <2>2. m \in Ring /\ r.ring \in [Ring -> Aors \cup {None}]
      BY <1>1, RegFields, RingNext
    <2>3. Sound(kept) /\ kept.ring = r.ring
      BY <2>2, ClearSound
    <2>4. \A b \in Aors : (b = old /\ b # a) => kept.single[b] = None /\ \A i \in Slots : kept.slot[b][i] = None
      BY <2>2, ClearSound, NoneAssumption DEF NoSlots
    <2> HIDE DEF m, kept
    <2>5. kept \in RegType /\ Covered(kept) /\ Distinct(kept) /\ Backed(kept)
      BY <2>3 DEF Sound
    <2>6. t \in RegType
      BY <2>2, <2>5, RegFields DEF RegType
    <2>7. /\ t.slot = kept.slot /\ t.single = kept.single
          /\ t.ring[m] = a /\ \A n \in Ring : n # m => t.ring[n] = r.ring[n]
      BY <2>2
    <2> HIDE DEF t
    <2>8. Covered(t)
      <3> SUFFICES ASSUME NEW b \in Aors,
                          kept.single[b] # None \/ \E i \in Slots : kept.slot[b][i] # None
                   PROVE  \E n \in Ring : t.ring[n] = b
        BY <2>7 DEF Covered
      <3>1. CASE b = a
        BY <3>1, <2>2, <2>7
      <3>2. CASE b # a
        <4>1. PICK n \in Ring : r.ring[n] = b
          BY <2>3, <2>5 DEF Covered
        <4>2. n # m
          BY <3>2, <4>1, <2>4
        <4> QED BY <4>1, <4>2, <2>7
      <3> QED BY <3>1, <3>2
    <2>9. Distinct(t) /\ Backed(t)
      BY <2>5, <2>7 DEF Distinct, Backed
    <2> QED BY <2>1, <2>2, <2>6, <2>7, <2>8, <2>9 DEF Sound
  <1> QED BY <1>2, <1>3

\* registration_store writes a slot that no other slot's contact equals.
LEMMA StoreSound ==
  ASSUME NEW r, Sound(r), NEW a \in Aors, NEW c \in Contacts, NEW l \in Lives
  PROVE  Sound(StoreIn(r, a, c, l))
  <1> DEFINE t == TrackAor(r, a)
             v == [contact |-> c, life |-> l]
             k == SlotFor(t, a, c)
             s == [t.slot[a] EXCEPT ![k] = v]
  <1>1. Sound(t) /\ \E n \in Ring : t.ring[n] = a
    BY TrackSound
  <1>2. StoreIn(r, a, c, l) = Bind(t, a, s, v)
    BY DEF StoreIn
  <1> HIDE DEF t
  <1>3. t \in RegType /\ Distinct(t)
    BY <1>1 DEF Sound
  <1>4. k \in Slots /\ (Same(t, a, c) # {} => k \in Same(t, a, c))
    <2>1. Same(t, a, c) \in SUBSET Slots /\ Usable(t, a) \in SUBSET Slots
      BY DEF Same, Usable
    <2> QED BY <2>1, ZeroSlot, FirstSlot DEF SlotFor
  <1> HIDE DEF k
  <1>5. v \in Values /\ v # None /\ v.contact = c
    BY NoneAssumption DEF Values
  <1>6. t.slot[a] \in [Slots -> Values \cup {None}]
    BY <1>3, RegFields
  <1>7. s \in [Slots -> Values \cup {None}] /\ s[k] = v /\ \A i \in Slots : i # k => s[i] = t.slot[a][i]
    BY <1>4, <1>5, <1>6
  <1> HIDE DEF s, v
  <1>8. \A i, j \in Slots : (s[i] # None /\ s[j] # None /\ s[i].contact = s[j].contact) => i = j
    <2>1. \A j \in Slots : j # k /\ s[j] # None => s[j].contact # c
      BY <1>3, <1>4, <1>7 DEF Same, Distinct
    <2> QED BY <1>3, <1>5, <1>7, <2>1 DEF Distinct
  <1> QED BY <1>1, <1>2, <1>4, <1>5, <1>7, <1>8, BindSound

\* registration_remove puts a binding that is left in the place of the single
\* one, and no removed contact remains.
LEMMA RemoveSound ==
  ASSUME NEW r, Sound(r), NEW a \in Aors, NEW K
  PROVE  /\ Sound(RemoveIn(r, a, K))
         /\ Bound(RemoveIn(r, a, K), a) \cap K = {}
  <1> DEFINE w    == Without(r, a, K)
             gone == Bind(r, a, w, None)
             f    == Find(gone, a)
             v    == Found(gone, a)
             live == LiveSlots(gone, a)
  <1>1. r \in RegType /\ Covered(r) /\ Distinct(r)
    BY DEF Sound
  <1>2. /\ w \in [Slots -> Values \cup {None}]
        /\ \A i \in Slots : w[i] # None => w[i] = r.slot[a][i] /\ w[i].contact \notin K
    BY <1>1, RegFields DEF Without
  <1> HIDE DEF w
  <1>3. /\ Sound(gone) /\ gone.slot[a] = w /\ gone.single[a] = None /\ gone.ring = r.ring
    <2>1. \A i, j \in Slots : (w[i] # None /\ w[j] # None /\ w[i].contact = w[j].contact) => i = j
      BY <1>1, <1>2 DEF Distinct
    <2>2. (\E i \in Slots : w[i] # None) => \E n \in Ring : r.ring[n] = a
      BY <1>1, <1>2 DEF Covered
    <2>3. ~Live(None)
      BY DEF Live
    <2> QED BY <1>2, <2>1, <2>2, <2>3, BindSound
  <1>4. /\ Sound(f) /\ \A i \in Slots : f.slot[a][i] \in {None, w[i]}
        /\ f.ring = gone.ring
        /\ \A i \in live : f.slot[a][i] = w[i]
    <2>1. Sound(f) /\ \A i \in Slots : f.slot[a][i] \in {None, w[i]}
      BY <1>3, FindSound
    <2>2. gone.slot \in [Aors -> [Slots -> Values \cup {None}]]
      BY <1>3, RegFields DEF Sound
    <2>3. /\ f.ring = gone.ring
          /\ f.slot[a] = [i \in Slots |-> IF \A j \in live : i < j THEN None ELSE gone.slot[a][i]]
      BY <2>2 DEF Find, Bind
    <2>4. \A i \in live : i \in Slots /\ ~(i < i)
      BY ZeroSlot DEF LiveSlots
    <2> QED BY <1>3, <2>1, <2>3, <2>4
  <1>5. /\ v \in Values \cup {None}
        /\ v # None => \E i \in live : v = w[i]
    <2>1. live \in SUBSET Slots
      BY DEF LiveSlots
    <2>2. v = IF live # {} THEN w[First(live)] ELSE None
      BY <1>3 DEF Found, Live
    <2> QED BY <1>2, <2>1, <2>2, FirstSlot
  <1>6. live \subseteq Slots
    BY DEF LiveSlots
  <1>7. RemoveIn(r, a, K) = Bind(f, a, f.slot[a], v)
    BY DEF RemoveIn, w
  <1> HIDE DEF f, v, live, gone
  <1>8. f \in RegType /\ Covered(f) /\ Distinct(f)
    BY <1>4 DEF Sound
  <1>9. /\ f.slot[a] \in [Slots -> Values \cup {None}]
        /\ \A i, j \in Slots : (/\ f.slot[a][i] # None /\ f.slot[a][j] # None
                                /\ f.slot[a][i].contact = f.slot[a][j].contact) => i = j
    BY <1>8, RegFields DEF Distinct
  <1>10. Live(v) => \E i \in Slots : f.slot[a][i] = v
    BY <1>4, <1>5, <1>6 DEF Live
  <1>11. (v # None \/ \E i \in Slots : f.slot[a][i] # None) => \E n \in Ring : f.ring[n] = a
    BY <1>4, <1>5, <1>6, <1>8 DEF Covered
  <1>12. /\ Sound(Bind(f, a, f.slot[a], v))
         /\ Bind(f, a, f.slot[a], v).slot[a] = f.slot[a] /\ Bind(f, a, f.slot[a], v).single[a] = v
    BY <1>4, <1>5, <1>9, <1>10, <1>11, BindSound
  <1>13. \A i \in Slots : f.slot[a][i] # None => f.slot[a][i].contact \notin K
    BY <1>2, <1>4
  <1>14. v # None => v.contact \notin K
    BY <1>2, <1>5, <1>6
  <1> QED BY <1>7, <1>12, <1>13, <1>14 DEF Bound, LiveSlots, Live

---------------------------------------------------------------------------
(* The database *)

\* The order of updates relates rows.
LEMMA TouchType ==
  ASSUME NEW o \in SUBSET (Pairs \X Pairs), NEW p \in Pairs, NEW R \in SUBSET Pairs
  PROVE  Touch(o, p, R) \in SUBSET (Pairs \X Pairs)
  BY DEF Touch

\* The statements keep the table well formed.
LEMMA DbTypes ==
  ASSUME NEW d \in DbType
  PROVE  /\ \A p \in Pairs : InsertRow(d, p) \in DbType
         /\ \A p \in Pairs, l \in Lives : UpdateRow(d, p, l) \in DbType
         /\ \A P : DeleteRows(d, P) \in DbType
  <1>1. /\ d.row \in SUBSET Pairs /\ d.life \in [Pairs -> Lives]
        /\ d.newer \in SUBSET (Pairs \X Pairs) /\ MaxLife \in Lives /\ 0 \in Lives
    BY MaxLifeAssumption DEF DbType, Lives
  <1>2. \A p \in Pairs : InsertRow(d, p) \in DbType
    BY <1>1, TouchType DEF InsertRow, DbType
  <1>3. \A p \in Pairs, l \in Lives : UpdateRow(d, p, l) \in DbType
    BY <1>1, TouchType DEF UpdateRow, DbType
  <1>4. \A P : DeleteRows(d, P) \in DbType
    BY <1>1 DEF DeleteRows, DbType
  <1> QED BY <1>2, <1>3, <1>4

\* A pair that has a row belongs to an AoR and one of its contacts.
LEMMA PairTypes ==
  ASSUME NEW p \in Pairs
  PROVE  p[1] \in Aors /\ p[2] \in Contacts
  BY DEF Pairs

---------------------------------------------------------------------------
(* The actions *)

\* A statement that is executed leaves a well-formed database.
LEMMA ExecutesType ==
  ASSUME IInv, NEW w \in Workers, NEW op, NEW d, Executes(w, op, d), d \in DbType
  PROVE  /\ db' \in DbType /\ loading' = loading /\ todo[w] # None /\ todo[w].op = op
         /\ doubt' \subseteq Pairs
  BY DEF Executes, IInv

\* The end of the handler.
LEMMA AnswersSound ==
  ASSUME IInv, NEW w \in Workers, todo[w] # None, Answers(w)
  PROVE  /\ Sound(reg')
         /\ todo' \in [Workers -> Statements \cup {None}]
         /\ \A u \in Workers : todo'[u] # None => todo'[u] = todo[u]
  <1>1. todo[w].aor \in Aors
    BY DEF IInv, Statements
  <1>2. Sound(reg')
    BY <1>1, FindSound, ReportSound DEF Answers, IInv
  <1> QED BY <1>2 DEF Answers, IInv

\* A Contact is stored.
LEMMA StoreIInv ==
  ASSUME IInv, NEW w \in Workers, NEW a \in Aors, NEW c \in ContactsOf[a],
         NEW asked \in 1 .. (MaxLife + 1), Store(w, a, c, asked)
  PROVE  IInv'
  <1> DEFINE l == Granted(asked)
             t == [op |-> "insert", aor |-> a, set |-> {c}, life |-> l]
  <1>1. l \in Lives
    BY MaxLifeAssumption DEF Granted, Lives
  <1>2. c \in Contacts /\ <<a, c>> \in Pairs
    BY DEF Contacts, Pairs
  <1>3. Sound(reg')
    BY <1>1, <1>2, StoreSound DEF Store, IInv
  <1>4. t \in Statements /\ t.op = "insert" /\ t.set # {} /\ Rows(t) \subseteq Pairs
    BY <1>1, <1>2 DEF Statements, Rows
  <1>5. /\ todo' = [todo EXCEPT ![w] = t] /\ db' = db /\ loading' = loading
        /\ doubt' \subseteq Pairs
    BY <1>2 DEF Store, Issue, IInv
  <1> HIDE DEF l, t
  <1> QED BY <1>3, <1>4, <1>5 DEF IInv

\* Contacts are removed.
LEMMA RemoveIInv ==
  ASSUME IInv, NEW w \in Workers, NEW a \in Aors, NEW K \in SUBSET ContactsOf[a], Remove(w, a, K)
  PROVE  IInv'
  <1> DEFINE t == [op |-> "delete", aor |-> a, set |-> K, life |-> 0]
  <1>1. Sound(reg')
    BY RemoveSound DEF Remove, IInv
  <1>2. t \in Statements /\ t.op = "delete" /\ Rows(t) \subseteq Pairs
    BY MaxLifeAssumption DEF Statements, Rows, Pairs, Contacts, Lives
  <1>3. /\ todo' = [todo EXCEPT ![w] = t] /\ db' = db /\ loading' = loading
        /\ doubt' \subseteq Pairs
    BY DEF Remove, Issue, IInv, Pairs, Contacts
  <1> HIDE DEF t
  <1> QED BY <1>1, <1>2, <1>3 DEF IInv

\* The statements of a worker.
LEMMA DbIInv ==
  ASSUME IInv, NEW w \in Workers, DbInsert(w) \/ DbUpdate(w) \/ DbDelete(w)
  PROVE  IInv'
  <1>0. todo[w] # None /\ todo[w] \in Statements /\ todo[w].life \in Lives
    BY DEF DbInsert, DbUpdate, DbDelete, Executes, IInv, Statements
  <1>1. todo[w].op # "delete" => Row(todo[w]) \in Pairs
    BY <1>0 DEF IInv, Row, Rows
  <1>2. CASE DbInsert(w)
    <2>1. todo[w].op = "insert"
      BY <1>2 DEF DbInsert, Executes
    <2>2. db' \in DbType /\ loading' = loading /\ reg' = reg /\ doubt' \subseteq Pairs
      BY <1>1, <1>2, <2>1, ExecutesType, DbTypes DEF DbInsert, IInv
    <2>3. todo' = [todo EXCEPT ![w] = [todo[w] EXCEPT !.op = "update"]]
      BY <1>2 DEF DbInsert
    <2> DEFINE t == [todo[w] EXCEPT !.op = "update"]
    <2>4. t \in Statements /\ t.aor = todo[w].aor /\ t.set = todo[w].set
      BY <1>0 DEF Statements
    <2>5. Rows(t) = Rows(todo[w])
      BY <2>4 DEF Rows
    <2> HIDE DEF t
    <2> QED BY <1>0, <2>1, <2>2, <2>3, <2>4, <2>5 DEF IInv, t
  <1>3. CASE DbUpdate(w)
    <2>1. todo[w].op = "update"
      BY <1>3 DEF DbUpdate, Executes
    <2>2. db' \in DbType /\ loading' = loading /\ doubt' \subseteq Pairs
      BY <1>0, <1>1, <1>3, <2>1, ExecutesType, DbTypes DEF DbUpdate, IInv
    <2> QED BY <1>0, <1>3, <2>2, AnswersSound DEF DbUpdate, IInv
  <1>4. CASE DbDelete(w)
    <2>1. db' \in DbType /\ loading' = loading /\ doubt' \subseteq Pairs
      BY <1>4, ExecutesType, DbTypes DEF DbDelete, IInv
    <2> QED BY <1>0, <1>4, <2>1, AnswersSound DEF DbDelete, IInv
  <1> QED BY <1>2, <1>3, <1>4

\* Bindings age together, so a single binding ages with its slot.
LEMMA TickIInv == ASSUME IInv, Tick PROVE IInv'
  <1> DEFINE r == [slot   |-> [a \in Aors |-> [i \in Slots |-> Aged(reg.slot[a][i])]],
                   single |-> [a \in Aors |-> Aged(reg.single[a])],
                   ring   |-> reg.ring,
                   seq    |-> reg.seq]
  <1>1. reg \in RegType /\ Covered(reg) /\ Distinct(reg) /\ Backed(reg)
    BY DEF IInv, Sound
  <1>2. \A n \in Lives : Less(n) \in Lives /\ (Less(n) > 0 => n > 0)
    BY MaxLifeAssumption DEF Less, Lives
  <1>3. \A v \in Values \cup {None} :
           /\ Aged(v) \in Values \cup {None}
           /\ (Aged(v) # None) = (v # None)
           /\ v # None => Aged(v).contact = v.contact
           /\ Live(Aged(v)) => Live(v)
    BY <1>2, NoneAssumption DEF Aged, Values, Live
  <1>4. /\ r.slot = [a \in Aors |-> [i \in Slots |-> Aged(reg.slot[a][i])]]
        /\ r.single = [a \in Aors |-> Aged(reg.single[a])]
        /\ r.ring = reg.ring /\ r.seq = reg.seq
        /\ r = [slot |-> r.slot, single |-> r.single, ring |-> r.ring, seq |-> r.seq]
    OBVIOUS
  <1> HIDE DEF r
  <1>5. /\ \A a \in Aors, i \in Slots : r.slot[a][i] = Aged(reg.slot[a][i])
                                        /\ reg.slot[a][i] \in Values \cup {None}
        /\ \A a \in Aors : r.single[a] = Aged(reg.single[a]) /\ reg.single[a] \in Values \cup {None}
    BY <1>1, <1>4, RegFields
  <1>6. r \in RegType
    BY <1>1, <1>3, <1>4, <1>5, RegFields DEF RegType
  <1>7. Covered(r)
    BY <1>1, <1>3, <1>4, <1>5 DEF Covered
  <1>8. Distinct(r)
    BY <1>1, <1>3, <1>5 DEF Distinct
  <1>9. Backed(r)
    BY <1>1, <1>3, <1>5 DEF Backed
  <1>10. db' \in DbType
    BY <1>2 DEF Tick, DbType, IInv
  <1>11. reg' = r /\ todo' = todo /\ loading' = loading /\ doubt' = doubt
    BY DEF Tick, r
  <1> QED BY <1>6, <1>7, <1>8, <1>9, <1>10, <1>11 DEF IInv, Sound

\* A restart empties the memory and reads rows of the database.
LEMMA RestartIInv ==
  ASSUME IInv, Restart \/ \E p \in Pairs : Load(p)
  PROVE  IInv'
  <1>1. CASE Restart
    <2>1. PICK d \in {db, DeleteRows(db, Expired(db))} : db' = d /\ loading' = d.row \ Expired(d)
      BY <1>1 DEF Restart
    <2>2. d \in DbType
      BY DbTypes DEF IInv
    <2> QED BY <1>1, <2>1, <2>2, EmptySound DEF Restart, IInv, DbType
  <1>2. CASE \E p \in Pairs : Load(p)
    <2>1. PICK p \in Pairs : Load(p)
      BY <1>2
    <2>2. db.life[p] \in Lives
      BY DEF IInv, DbType
    <2>3. Sound(reg')
      BY <2>1, <2>2, PairTypes, StoreSound DEF Load, IInv
    <2> QED BY <2>1, <2>3 DEF Load, IInv
  <1> QED BY <1>1, <1>2

\* The first process finds no binding.
LEMMA InitIInv == Init => IInv
  BY EmptySound, MaxLifeAssumption DEF Init, IInv, DbType, Lives

\* Every step keeps the invariant.
LEMMA NextIInv == ASSUME IInv, [Next]_vars PROVE IInv'
  <1>1. CASE \E w \in Workers, a \in Aors : \E c \in ContactsOf[a] :
                \E asked \in 1 .. (MaxLife + 1) : Store(w, a, c, asked)
    BY <1>1, StoreIInv
  <1>2. CASE \E w \in Workers, a \in Aors : Remove(w, a, ContactsOf[a])
                                          \/ \E c \in ContactsOf[a] : Remove(w, a, {c})
    BY <1>2, RemoveIInv
  <1>3. CASE \E w \in Workers : DbInsert(w) \/ DbUpdate(w) \/ DbDelete(w)
    BY <1>3, DbIInv
  <1>4. CASE \E a \in Aors : Lookup(a)
    BY <1>4, FindSound DEF Lookup, IInv
  <1>5. CASE Tick
    BY <1>5, TickIInv
  <1>6. CASE Restart \/ \E p \in Pairs : Load(p)
    BY <1>6, RestartIInv
  <1>7. CASE UNCHANGED vars
    BY <1>7 DEF vars, IInv
  <1> QED BY <1>1, <1>2, <1>3, <1>4, <1>5, <1>6, <1>7 DEF Next

\* The invariant holds in every reachable state.
THEOREM IInvAlways == Spec => []IInv
  BY InitIInv, NextIInv, PTL DEF Spec

\* Memory, database and the statements under way are well formed, and no
\* binding lives longer than registration_expires grants.
THEOREM TypeCorrect == Spec => []TypeOK
  <1>1. IInv => TypeOK
    BY DEF IInv, Sound, TypeOK
  <1> QED BY <1>1, IInvAlways, PTL

\* No AoR keeps a key in memory without a place in the ring, whatever the
\* order of registrations, removals, expiries, displacements and restarts.
THEOREM RingCoversAlways == Spec => []RingCovers
  <1>1. IInv => RingCovers
    BY DEF IInv, Sound, Covered, RingCovers
  <1> QED BY <1>1, IInvAlways, PTL

\* registration_store never gives a contact a second slot.
THEOREM OneSlotAlways == Spec => []OneSlotPerContact
  <1>1. IInv => OneSlotPerContact
    BY DEF IInv, Sound, Distinct, OneSlotPerContact
  <1> QED BY <1>1, IInvAlways, PTL

\* The fallback of registration_find agrees with the slots.
THEOREM SingleInSlotsAlways == Spec => []SingleInSlots
  <1>1. IInv => SingleInSlots
    BY DEF IInv, Sound, Backed, SingleInSlots
  <1> QED BY <1>1, IInvAlways, PTL

\* After a removal no lookup can return a removed contact.
THEOREM RemovedStaysUnreachable == Spec => RemovedUnreachable
  <1>1. IInv /\ [Next]_vars =>
           [\A w \in Workers, a \in Aors : \A K \in SUBSET ContactsOf[a] :
               Remove(w, a, K) => Bound(reg', a) \cap K = {}]_vars
    BY RemoveSound DEF Remove, IInv
  <1> QED BY <1>1, IInvAlways, PTL DEF Spec, RemovedUnreachable

---------------------------------------------------------------------------
(* What the helpers do to the slots: all but registration_store only empty *)
(* some of them, and registration_store fills one.                         *)

Shrinks(q, r) == \A b \in Aors, i \in Slots : q.slot[b][i] \in {None, r.slot[b][i]}

\* The keys of one AoR are set, those of the others stay.
LEMMA BindSlots ==
  ASSUME NEW r \in RegType, NEW a \in Aors, NEW s, NEW v
  PROVE  /\ Bind(r, a, s, v).slot[a] = s /\ Bind(r, a, s, v).single[a] = v
         /\ \A b \in Aors : b # a => Bind(r, a, s, v).slot[b] = r.slot[b]
  BY RegFields DEF Bind

\* registration_find empties slots only.
LEMMA FindShrinks ==
  ASSUME NEW r, Sound(r), NEW a \in Aors
  PROVE  Shrinks(Find(r, a), r)
  <1>1. r \in RegType
    BY DEF Sound
  <1>2. \A b \in Aors : b # a => Find(r, a).slot[b] = r.slot[b]
    BY <1>1, BindSlots DEF Find
  <1> QED BY <1>2, FindSound DEF Shrinks

\* registration_response_contacts empties slots only.
LEMMA ReportShrinks ==
  ASSUME NEW r, Sound(r), NEW a \in Aors
  PROVE  Shrinks(Report(r, a), r)
  <1> DEFINE s == [i \in Slots |-> IF Live(r.slot[a][i]) THEN r.slot[a][i] ELSE None]
             q == Bind(r, a, s, r.single[a])
  <1>1. r \in RegType
    BY DEF Sound
  <1>2. q.slot[a] = s /\ \A b \in Aors : b # a => q.slot[b] = r.slot[b]
    BY <1>1, BindSlots
  <1>3. q.single[a] = r.single[a]
    BY <1>1, BindSlots
  <1>4. Shrinks(q, r)
    <2> HIDE DEF q
    <2> QED BY <1>2 DEF Shrinks
  <1>5. Report(r, a) = IF LiveSlots(r, a) = {} THEN Find(q, a) ELSE q
    BY DEF Report
  <1>6. q \in RegType
    <2>1. s \in [Slots -> Values \cup {None}] /\ r.single[a] \in Values \cup {None}
      BY <1>1, RegFields
    <2> QED BY <1>1, <2>1, RegFields DEF Bind, RegType
  <1> HIDE DEF q
  <1>7. Shrinks(Find(q, a), q)
    <2>1. \A b \in Aors : b # a => Find(q, a).slot[b] = q.slot[b]
      BY <1>6, BindSlots DEF Find
    <2>2. \A i \in Slots : Find(q, a).slot[a][i] \in {None, q.slot[a][i]}
      BY <1>6, BindSlots DEF Find
    <2> QED BY <2>1, <2>2 DEF Shrinks
  <1> QED BY <1>4, <1>5, <1>7 DEF Shrinks

\* registration_track_aor forgets another AoR at most.
LEMMA TrackShrinks ==
  ASSUME NEW r, Sound(r), NEW a \in Aors
  PROVE  /\ Shrinks(TrackAor(r, a), r)
         /\ TrackAor(r, a).slot[a] = r.slot[a] /\ TrackAor(r, a).single[a] = r.single[a]
  <1> DEFINE m    == (r.seq + 1) % RingSize
             old  == r.ring[m]
             kept == IF old = None \/ old = a THEN r ELSE ClearAor(r, old)
  <1>1. r \in RegType
    BY DEF Sound
  <1>2. m \in Ring /\ old \in Aors \cup {None}
    BY <1>1, RegFields, RingNext
  <1>3. \/ TrackAor(r, a) = r
        \/ TrackAor(r, a).slot = kept.slot /\ TrackAor(r, a).single = kept.single
    BY DEF TrackAor
  <1> HIDE DEF old
  <1>4. Shrinks(kept, r) /\ kept.slot[a] = r.slot[a] /\ kept.single[a] = r.single[a]
    <2>1. CASE old = None \/ old = a
      BY <2>1 DEF Shrinks
    <2>2. CASE old \in Aors /\ old # a
      <3>1. kept = ClearAor(r, old)
        BY <2>2, NoneAssumption
      <3>2. /\ kept.slot[old] = NoSlots
            /\ \A b \in Aors : b # old => kept.slot[b] = r.slot[b]
        BY <1>1, <2>2, <3>1, BindSlots DEF ClearAor
      <3>3. kept.single[a] = r.single[a]
        BY <1>1, <2>2, <3>1, RegFields DEF ClearAor, Bind
      <3> HIDE DEF kept
      <3> QED BY <2>2, <3>2, <3>3 DEF Shrinks, NoSlots
    <2> QED BY <1>2, <2>1, <2>2
  <1> HIDE DEF kept
  <1> QED BY <1>3, <1>4 DEF Shrinks

\* The slot registration_store chooses.
LEMMA SlotForIn ==
  ASSUME NEW r, NEW a, NEW c
  PROVE  /\ SlotFor(r, a, c) \in Slots
         /\ Same(r, a, c) # {} => SlotFor(r, a, c) \in Same(r, a, c)
         /\ Same(r, a, c) = {} /\ Usable(r, a) # {} => SlotFor(r, a, c) \in Usable(r, a)
  <1>1. Same(r, a, c) \in SUBSET Slots /\ Usable(r, a) \in SUBSET Slots
    BY DEF Same, Usable
  <1> QED BY <1>1, ZeroSlot, FirstSlot DEF SlotFor

\* registration_store writes the chosen slot and the single binding of its
\* AoR; of the other AoRs it forgets one at most.
LEMMA StoreSlots ==
  ASSUME NEW r, Sound(r), NEW a \in Aors, NEW c \in Contacts, NEW l \in Lives
  PROVE  \E k \in Slots :
           /\ StoreIn(r, a, c, l).slot[a][k] = [contact |-> c, life |-> l]
           /\ \A i \in Slots : i # k => StoreIn(r, a, c, l).slot[a][i] = r.slot[a][i]
           /\ \A i \in Slots : r.slot[a][i] # None /\ r.slot[a][i].contact = c => i = k
           /\ Live(r.slot[a][k]) =>
                 r.slot[a][k].contact = c
                 \/ \A i \in Slots : Live(r.slot[a][i]) /\ r.slot[a][i].contact # c
           /\ \A b \in Aors, i \in Slots :
                 b # a => StoreIn(r, a, c, l).slot[b][i] \in {None, r.slot[b][i]}
           /\ StoreIn(r, a, c, l).single[a] = [contact |-> c, life |-> l]
  <1> DEFINE t == TrackAor(r, a)
             v == [contact |-> c, life |-> l]
             k == SlotFor(t, a, c)
             s == [t.slot[a] EXCEPT ![k] = v]
             q == StoreIn(r, a, c, l)
  <1>1. Sound(t) /\ t \in RegType /\ Distinct(r)
    BY TrackSound DEF Sound
  <1>2. Shrinks(t, r) /\ t.slot[a] = r.slot[a]
    BY TrackShrinks
  <1>3. q = Bind(t, a, s, v)
    BY DEF StoreIn
  <1> HIDE DEF t, q
  <1>4. k \in Slots
    BY SlotForIn
  <1>5. Same(t, a, c) = Same(r, a, c) /\ Usable(t, a) = Usable(r, a)
    BY <1>2 DEF Same, Usable
  <1>6. /\ Same(r, a, c) # {} => k \in Same(r, a, c)
        /\ Same(r, a, c) = {} /\ Usable(r, a) # {} => k \in Usable(r, a)
    BY <1>5, SlotForIn
  <1> HIDE DEF k
  <1>7. q.slot[a] = s /\ q.single[a] = v /\ \A b \in Aors : b # a => q.slot[b] = t.slot[b]
    BY <1>1, <1>3, BindSlots
  <1>8. t.slot[a] \in [Slots -> Values \cup {None}]
    BY <1>1, RegFields
  <1>9. q.slot[a][k] = v /\ \A i \in Slots : i # k => q.slot[a][i] = r.slot[a][i]
    BY <1>2, <1>4, <1>7, <1>8
  <1>10. \A i \in Slots : r.slot[a][i] # None /\ r.slot[a][i].contact = c => i = k
    BY <1>1, <1>4, <1>6 DEF Same, Distinct
  <1>11. Live(r.slot[a][k]) =>
            r.slot[a][k].contact = c
            \/ \A i \in Slots : Live(r.slot[a][i]) /\ r.slot[a][i].contact # c
    BY <1>6 DEF Same, Usable, Live
  <1>12. \A b \in Aors, i \in Slots : b # a => q.slot[b][i] \in {None, r.slot[b][i]}
    BY <1>2, <1>7 DEF Shrinks
  <1> HIDE DEF v, s
  <1> QED BY <1>4, <1>7, <1>9, <1>10, <1>11, <1>12 DEF q, v

\* registration_remove empties slots only, those of the removed contacts among
\* them.
LEMMA RemoveSlots ==
  ASSUME NEW r, Sound(r), NEW a \in Aors, NEW K
  PROVE  /\ Shrinks(RemoveIn(r, a, K), r)
         /\ \A i \in Slots : RemoveIn(r, a, K).slot[a][i] # None
                                => RemoveIn(r, a, K).slot[a][i].contact \notin K
  <1> DEFINE s    == Without(r, a, K)
             gone == Bind(r, a, s, None)
             f    == Find(gone, a)
             q    == RemoveIn(r, a, K)
  <1>1. r \in RegType
    BY DEF Sound
  <1>2. gone.slot[a] = s /\ \A b \in Aors : b # a => gone.slot[b] = r.slot[b]
    BY <1>1, BindSlots
  <1>3. gone \in RegType
    <2>1. s \in [Slots -> Values \cup {None}]
      BY <1>1, RegFields DEF Without
    <2> QED BY <1>1, <2>1, RegFields DEF Bind, RegType
  <1>4. /\ \A i \in Slots : s[i] \in {None, r.slot[a][i]}
        /\ \A i \in Slots : s[i] # None => s[i].contact \notin K
    BY DEF Without
  <1> HIDE DEF gone, s
  <1>5. /\ \A i \in Slots : f.slot[a][i] \in {None, gone.slot[a][i]}
        /\ \A b \in Aors : b # a => f.slot[b] = gone.slot[b]
        /\ f \in RegType
    <2> DEFINE z == [i \in Slots |-> IF \A j \in LiveSlots(gone, a) : i < j
                                     THEN None ELSE gone.slot[a][i]]
               v == IF LiveSlots(gone, a) = {} /\ ~Live(gone.single[a])
                    THEN None ELSE gone.single[a]
    <2>1. f = Bind(gone, a, z, v)
      BY DEF Find
    <2>2. z \in [Slots -> Values \cup {None}] /\ v \in Values \cup {None}
      BY <1>3, RegFields
    <2>3. \A i \in Slots : z[i] \in {None, gone.slot[a][i]}
      OBVIOUS
    <2> HIDE DEF z, v
    <2>4. f \in RegType
      BY <1>3, <2>1, <2>2, RegFields DEF Bind, RegType
    <2> QED BY <1>3, <2>1, <2>3, <2>4, BindSlots
  <1>6. q = Bind(f, a, f.slot[a], Found(gone, a))
    BY DEF RemoveIn, gone, s
  <1> HIDE DEF f, q
  <1>7. q.slot[a] = f.slot[a] /\ \A b \in Aors : b # a => q.slot[b] = f.slot[b]
    BY <1>5, <1>6, BindSlots
  <1>8. Shrinks(q, r)
    BY <1>2, <1>4, <1>5, <1>7 DEF Shrinks
  <1>9. \A i \in Slots : q.slot[a][i] # None => q.slot[a][i].contact \notin K
    BY <1>2, <1>4, <1>5, <1>7
  <1> QED BY <1>8, <1>9 DEF q

---------------------------------------------------------------------------
(* A registration costs its AoR no other live contact while there is room. *)

\* Storing a contact displaces a live one of its AoR only when every slot
\* holds a live binding of another contact.
LEMMA StoreKeeps ==
  ASSUME NEW r, Sound(r), NEW a \in Aors, NEW c \in Contacts, NEW l \in Lives,
         \E i \in Slots : ~Live(r.slot[a][i]) \/ r.slot[a][i].contact = c
  PROVE  Bound(r, a) \ {c} \subseteq Bound(StoreIn(r, a, c, l), a)
  <1> DEFINE q == StoreIn(r, a, c, l)
  <1>1. PICK k \in Slots :
           /\ q.slot[a][k] = [contact |-> c, life |-> l]
           /\ \A i \in Slots : i # k => q.slot[a][i] = r.slot[a][i]
           /\ \A i \in Slots : r.slot[a][i] # None /\ r.slot[a][i].contact = c => i = k
           /\ Live(r.slot[a][k]) =>
                 r.slot[a][k].contact = c
                 \/ \A i \in Slots : Live(r.slot[a][i]) /\ r.slot[a][i].contact # c
           /\ \A b \in Aors, i \in Slots :
                 b # a => q.slot[b][i] \in {None, r.slot[b][i]}
           /\ q.single[a] = [contact |-> c, life |-> l]
    BY StoreSlots
  <1> HIDE DEF q
  <1>2. SUFFICES ASSUME NEW x \in Bound(r, a), x # c PROVE x \in Bound(q, a)
    BY DEF q
  <1>3. PICK i \in Slots : Live(r.slot[a][i]) /\ r.slot[a][i].contact = x
    BY DEF Bound, LiveSlots, Sound, Backed
  <1>4. i # k
    BY <1>1, <1>2, <1>3
  <1>5. q.slot[a][i] = r.slot[a][i]
    BY <1>1, <1>4
  <1> QED BY <1>3, <1>5 DEF Bound, LiveSlots

\* A contact that is registered leaves the other live contacts of its AoR in
\* reach as long as one slot is empty, expired or its own, whatever other
\* AoRs the ring displaces meanwhile.
THEOREM StoreKeepsOthersAlways == Spec => StoreKeepsOthers
  <1>1. ASSUME IInv, NEW w \in Workers, NEW a \in Aors, NEW c \in ContactsOf[a],
               NEW asked \in 1 .. (MaxLife + 1), Store(w, a, c, asked),
               \E i \in Slots : ~Live(reg.slot[a][i]) \/ reg.slot[a][i].contact = c
        PROVE  Bound(reg, a) \ {c} \subseteq Bound(reg', a)
    <2>1. Granted(asked) \in Lives /\ c \in Contacts
      BY MaxLifeAssumption DEF Granted, Lives, Contacts
    <2>2. Sound(reg) /\ reg' = StoreIn(reg, a, c, Granted(asked))
      BY <1>1 DEF IInv, Store
    <2> QED BY <1>1, <2>1, <2>2, StoreKeeps
  <1>2. IInv =>
          \A w \in Workers, a \in Aors : \A c \in ContactsOf[a], asked \in 1 .. (MaxLife + 1) :
             (/\ Store(w, a, c, asked)
              /\ \E i \in Slots : ~Live(reg.slot[a][i]) \/ reg.slot[a][i].contact = c)
                => Bound(reg, a) \ {c} \subseteq Bound(reg', a)
    BY <1>1
  <1> QED BY <1>2, IInvAlways, PTL DEF StoreKeepsOthers

---------------------------------------------------------------------------
(* The database keeps what memory has, apart from rows in doubt.           *)

\* What a statement t under way promises of memory r and database d for its
\* rows outside D: an upsert grants at least what memory has, its row exists
\* before its expiry is set, and a deletion is of contacts memory has no more
Promised(t, r, d, D) ==
    /\ \A i \in Slots :
          r.slot[t.aor][i] # None /\ <<t.aor, r.slot[t.aor][i].contact>> \in Rows(t) \ D
             => t.op # "delete" /\ r.slot[t.aor][i].life <= t.life
    /\ t.op = "update" => Rows(t) \ D \subseteq d.row

RowedIn(d, a, v) == <<a, v.contact>> \in d.row /\ d.life[<<a, v.contact>>] >= v.life

\* Every live binding of r has its row in d, is in doubt, or is covered by P
Backup(r, d, D, P) ==
    \A a \in Aors, i \in Slots :
        Live(r.slot[a][i]) =>
            \/ RowedIn(d, a, r.slot[a][i])
            \/ <<a, r.slot[a][i].contact>> \in D \cup P

Underway(q) == UNION {Pending(q[w]) : w \in Workers}

\* Upserts are of one contact, no two workers write a row that is not in
\* doubt, statements keep their promises, together with the rows they complete
\* memory's backup, and while a starting process reads rows none is written
FInv ==
    /\ \A w \in Workers : todo[w] # None /\ todo[w].op # "delete" => \E c \in Contacts : todo[w].set = {c}
    /\ \A v, w \in Workers : v # w => Pending(todo[v]) \cap Pending(todo[w]) \subseteq doubt
    /\ \A w \in Workers : todo[w] # None => Promised(todo[w], reg, db, doubt)
    /\ Backup(reg, db, doubt, Underway(todo))
    /\ loading \subseteq db.row
    /\ loading # {} => \A w \in Workers : todo[w] = None

\* The row of a statement for one contact.
LEMMA RowOf ==
  ASSUME NEW t, NEW c, t.set = {c}
  PROVE  Row(t) = <<t.aor, c>> /\ Rows(t) = {Row(t)}
  <1>1. (CHOOSE x \in {c} : TRUE) = c
    OBVIOUS
  <1> QED BY <1>1 DEF Row, Rows

\* Slots that are emptied break no promise and need no row.
LEMMA ShrinkKeeps ==
  ASSUME NEW q, NEW r, Shrinks(q, r), NEW d, NEW D, NEW t, NEW P
  PROVE  /\ t \in Statements /\ Promised(t, r, d, D) => Promised(t, q, d, D)
         /\ Backup(r, d, D, P) => Backup(q, d, D, P)
  <1>1. ASSUME t \in Statements, Promised(t, r, d, D) PROVE Promised(t, q, d, D)
    <2>1. \A i \in Slots : q.slot[t.aor][i] \in {None, r.slot[t.aor][i]}
      BY <1>1 DEF Shrinks, Statements
    <2> QED BY <1>1, <2>1 DEF Promised
  <1>2. ASSUME Backup(r, d, D, P) PROVE Backup(q, d, D, P)
    BY <1>2 DEF Backup, Shrinks, Live
  <1> QED BY <1>1, <1>2

\* The end of the handler empties slots only.
LEMMA AnswersShrinks ==
  ASSUME IInv, NEW w \in Workers, todo[w] # None, Answers(w)
  PROVE  Shrinks(reg', reg) /\ todo' = [todo EXCEPT ![w] = None]
  <1> DEFINE a == todo[w].aor
  <1>1. a \in Aors
    BY DEF IInv, Statements
  <1>2. Sound(reg) /\ todo' = [todo EXCEPT ![w] = None]
    BY DEF Answers, IInv
  <1>3. Shrinks(Report(Find(reg, a), a), reg)
    <2>1. Sound(Find(reg, a)) /\ Shrinks(Find(reg, a), reg)
      BY <1>1, <1>2, FindSound, FindShrinks
    <2>2. Shrinks(Report(Find(reg, a), a), Find(reg, a))
      BY <1>1, <2>1, ReportShrinks
    <2> QED BY <2>1, <2>2 DEF Shrinks
  <1>4. reg' = Report(Find(reg, a), a) \/ reg' = reg
    BY DEF Answers
  <1> QED BY <1>2, <1>3, <1>4 DEF Shrinks

\* What is under way when one worker turns to the statement t
LEMMA UnderwayOf ==
  ASSUME NEW w \in Workers, NEW t, todo \in [Workers -> Statements \cup {None}],
         todo' = [todo EXCEPT ![w] = t]
  PROVE  /\ \A v \in Workers : v # w => todo'[v] = todo[v]
         /\ todo'[w] = t
         /\ Underway(todo) \subseteq Underway(todo') \cup Pending(todo[w])
         /\ Pending(t) \subseteq Underway(todo')
  BY DEF Underway

\* A handler that turns to its statement puts the rows in doubt that another
\* one has under way, and takes the others out of it.
LEMMA IssueFInv ==
  ASSUME NEW w \in Workers, IInv, FInv, NEW op \in {"insert", "delete"}, NEW a \in Aors,
         NEW K \in SUBSET Contacts, NEW l \in Lives, Issue(w, op, a, K, l), Free(w),
         op # "delete" => \E c \in Contacts : K = {c},
         UNCHANGED <<db, loading>>,
         \A b \in Aors, i \in Slots :
            ~(b = a /\ reg'.slot[b][i] # None /\ reg'.slot[b][i].contact \in K)
               => reg'.slot[b][i] \in {None, reg.slot[b][i]},
         \A i \in Slots : reg'.slot[a][i] # None /\ reg'.slot[a][i].contact \in K
               => op # "delete" /\ reg'.slot[a][i].life <= l
  PROVE  FInv'
  <1> DEFINE t == [op |-> op, aor |-> a, set |-> K, life |-> l]
             P == {a} \X K
             D == doubt'
  <1>1. t \in Statements /\ t # None /\ Rows(t) = P /\ Pending(t) = P
    BY NoneAssumption DEF Statements, Rows, Pending
  <1>2. /\ todo \in [Workers -> Statements \cup {None}] /\ todo[w] = None /\ loading = {}
        /\ todo' = [todo EXCEPT ![w] = t]
        /\ D = (doubt \ P) \cup {p \in P : \E v \in Workers : p \in Pending(todo[v])}
    BY DEF IInv, Issue, Free, Serving
  <1>3. t.op = op /\ t.aor = a /\ t.set = K /\ t.life = l
    OBVIOUS
  <1> HIDE DEF t, P, D
  <1>4. /\ \A v \in Workers : v # w => todo'[v] = todo[v]
        /\ todo'[w] = t /\ P \subseteq Underway(todo') /\ Underway(todo) \subseteq Underway(todo')
    BY <1>1, <1>2, UnderwayOf DEF Pending
  <1>5. \A v \in Workers : Pending(todo[v]) \cap P \subseteq D
    BY <1>2
  <1>6. \A p \in doubt : p \in D \/ p \in P
    BY <1>2
  <1>7. \A v \in Workers : v # w /\ todo[v] # None => Rows(todo[v]) \ D \subseteq (Rows(todo[v]) \ doubt) \ P
    <2> SUFFICES ASSUME NEW v \in Workers, todo[v] # None, NEW p \in Rows(todo[v]), p \notin D
                 PROVE  p \notin doubt /\ p \notin P
      OBVIOUS
    <2>1. p \in Pending(todo[v])
      BY DEF Pending
    <2> QED BY <1>5, <1>6, <2>1
  <1>8. \A v \in Workers : todo'[v] # None /\ todo'[v].op # "delete"
                               => \E c \in Contacts : todo'[v].set = {c}
    BY <1>3, <1>4 DEF FInv
  <1>9. \A u, v \in Workers : u # v => Pending(todo'[u]) \cap Pending(todo'[v]) \subseteq D
    <2> SUFFICES ASSUME NEW u \in Workers, NEW v \in Workers, u # v,
                        NEW p \in Pending(todo'[u]), p \in Pending(todo'[v])
                 PROVE  p \in D
      OBVIOUS
    <2>1. CASE u = w
      BY <1>1, <1>4, <1>5, <2>1
    <2>2. CASE v = w
      BY <1>1, <1>4, <1>5, <2>2
    <2>3. CASE u # w /\ v # w
      <3>1. p \in Pending(todo[u]) /\ p \in Pending(todo[v])
        BY <1>4, <2>3
      <3>2. p \in doubt
        BY <3>1 DEF FInv
      <3> QED BY <1>5, <1>6, <3>1, <3>2
    <2> QED BY <2>1, <2>2, <2>3
  <1>10. \A v \in Workers : todo'[v] # None => Promised(todo'[v], reg', db', D)
    <2> SUFFICES ASSUME NEW v \in Workers, todo'[v] # None
                 PROVE  Promised(todo'[v], reg', db, D)
      OBVIOUS
    <2>1. CASE v = w
      <3>1. \A i \in Slots : <<a, reg'.slot[a][i].contact>> \in P => reg'.slot[a][i].contact \in K
        BY DEF P
      <3>2. t.op # "update"
        BY <1>3
      <3> QED BY <1>1, <1>3, <1>4, <2>1, <3>1, <3>2 DEF Promised
    <2>2. CASE v # w
      <3> DEFINE s == todo[v]
      <3>1. s # None /\ todo'[v] = s /\ s \in Statements /\ Promised(s, reg, db, doubt)
        BY <1>2, <1>4, <2>2 DEF FInv
      <3>2. Rows(s) \ D \subseteq (Rows(s) \ doubt) \ P
        BY <1>7, <2>2, <3>1
      <3>3. s.aor \in Aors
        BY <3>1 DEF Statements
      <3> HIDE DEF s
      <3>4. ASSUME NEW i \in Slots, reg'.slot[s.aor][i] # None,
                   <<s.aor, reg'.slot[s.aor][i].contact>> \in Rows(s) \ D
            PROVE  s.op # "delete" /\ reg'.slot[s.aor][i].life <= s.life
        <4>1. <<s.aor, reg'.slot[s.aor][i].contact>> \in Rows(s) \ doubt
              /\ <<s.aor, reg'.slot[s.aor][i].contact>> \notin P
          BY <3>2, <3>4
        <4>2. ~(s.aor = a /\ reg'.slot[s.aor][i].contact \in K)
          BY <4>1 DEF P
        <4>3. reg'.slot[s.aor][i] = reg.slot[s.aor][i]
          BY <3>3, <3>4, <4>2
        <4> QED BY <3>1, <3>4, <4>1, <4>3 DEF Promised
      <3>5. s.op = "update" => Rows(s) \ D \subseteq db.row
        BY <3>1, <3>2 DEF Promised
      <3> QED BY <3>1, <3>4, <3>5 DEF Promised
    <2> QED BY <2>1, <2>2
  <1>11. Backup(reg', db', D, Underway(todo'))
    <2> SUFFICES ASSUME NEW b \in Aors, NEW i \in Slots, Live(reg'.slot[b][i]),
                        <<b, reg'.slot[b][i].contact>> \notin D \cup Underway(todo')
                 PROVE  RowedIn(db, b, reg'.slot[b][i])
      BY DEF Backup
    <2>1. <<b, reg'.slot[b][i].contact>> \notin P
      BY <1>4
    <2>2. reg'.slot[b][i] = reg.slot[b][i]
      BY <2>1 DEF P, Live
    <2>3. <<b, reg.slot[b][i].contact>> \notin doubt \cup Underway(todo)
      BY <1>4, <1>6, <2>1, <2>2
    <2> QED BY <2>2, <2>3 DEF FInv, Backup
  <1> QED BY <1>2, <1>8, <1>9, <1>10, <1>11 DEF FInv, D

\* A stored contact is covered by the statement that follows.
LEMMA StoreFInv ==
  ASSUME IInv, FInv, NEW w \in Workers, NEW a \in Aors, NEW c \in ContactsOf[a],
         NEW asked \in 1 .. (MaxLife + 1), Store(w, a, c, asked)
  PROVE  FInv'
  <1> DEFINE l == Granted(asked)
             q == StoreIn(reg, a, c, l)
  <1>1. l \in Lives /\ c \in Contacts
    BY MaxLifeAssumption DEF Granted, Lives, Contacts
  <1>2. Sound(reg) /\ reg' = q /\ Issue(w, "insert", a, {c}, l) /\ Free(w) /\ UNCHANGED <<db, loading>>
    BY DEF Store, IInv
  <1> HIDE DEF l
  <1>3. PICK k \in Slots :
           /\ q.slot[a][k] = [contact |-> c, life |-> l]
           /\ \A i \in Slots : i # k => q.slot[a][i] = reg.slot[a][i]
           /\ \A i \in Slots : reg.slot[a][i] # None /\ reg.slot[a][i].contact = c => i = k
           /\ Live(reg.slot[a][k]) =>
                 reg.slot[a][k].contact = c
                 \/ \A i \in Slots : Live(reg.slot[a][i]) /\ reg.slot[a][i].contact # c
           /\ \A b \in Aors, i \in Slots :
                 b # a => q.slot[b][i] \in {None, reg.slot[b][i]}
           /\ q.single[a] = [contact |-> c, life |-> l]
    BY <1>1, <1>2, StoreSlots
  <1> HIDE DEF q
  <1>4. \A b \in Aors, i \in Slots :
            ~(b = a /\ reg'.slot[b][i] # None /\ reg'.slot[b][i].contact \in {c})
               => reg'.slot[b][i] \in {None, reg.slot[b][i]}
    <2> SUFFICES ASSUME NEW b \in Aors, NEW i \in Slots,
                        ~(b = a /\ q.slot[b][i] # None /\ q.slot[b][i].contact = c)
                 PROVE  q.slot[b][i] \in {None, reg.slot[b][i]}
      BY <1>2
    <2>1. CASE b = a /\ i = k
      BY <1>3, <2>1
    <2>2. CASE ~(b = a /\ i = k)
      BY <1>3, <2>2
    <2> QED BY <2>1, <2>2
  <1>5. l <= l
    BY <1>1 DEF Lives
  <1>6. \A i \in Slots : reg'.slot[a][i] # None /\ reg'.slot[a][i].contact \in {c} => reg'.slot[a][i].life <= l
    BY <1>2, <1>3, <1>5
  <1> QED BY <1>1, <1>2, <1>4, <1>6, IssueFInv

\* Removed contacts are out of memory before their rows go.
LEMMA RemoveFInv ==
  ASSUME IInv, FInv, NEW w \in Workers, NEW a \in Aors, NEW K \in SUBSET ContactsOf[a],
         Remove(w, a, K)
  PROVE  FInv'
  <1>1. Sound(reg) /\ reg' = RemoveIn(reg, a, K) /\ Issue(w, "delete", a, K, 0) /\ Free(w)
        /\ UNCHANGED <<db, loading>>
    BY DEF Remove, IInv
  <1>2. Shrinks(reg', reg) /\ \A i \in Slots : reg'.slot[a][i] # None => reg'.slot[a][i].contact \notin K
    BY <1>1, RemoveSlots
  <1>3. K \in SUBSET Contacts /\ 0 \in Lives
    BY MaxLifeAssumption DEF Contacts, Lives
  <1>4. \A b \in Aors, i \in Slots : reg'.slot[b][i] \in {None, reg.slot[b][i]}
    BY <1>2 DEF Shrinks
  <1> QED BY <1>1, <1>2, <1>3, <1>4, IssueFInv

\* A statement changes its rows at most: for the others, and for those in
\* doubt afterwards, promises and backup stay.
LEMMA ExecutesFInv ==
  ASSUME IInv, FInv, NEW w \in Workers, todo[w] # None,
         NEW t \in Statements \cup {None}, todo' = [todo EXCEPT ![w] = t],
         t = None \/ (t \in Statements /\ t.op = "update" /\ t.aor = todo[w].aor /\ t.set = todo[w].set
                         /\ t.life = todo[w].life /\ todo[w].op = "insert"),
         Shrinks(reg', reg), loading' = loading, doubt \subseteq doubt',
         db'.row \subseteq db.row \cup Rows(todo[w]), db.row \subseteq db'.row \cup Rows(todo[w]),
         \A p \in Pairs : p \notin Rows(todo[w]) => db'.life[p] = db.life[p],
         t # None => Rows(t) \ doubt' \subseteq db'.row,
         t = None => \A a \in Aors, i \in Slots :
                        Live(reg.slot[a][i]) /\ <<a, reg.slot[a][i].contact>> \in Rows(todo[w]) \ doubt'
                           => RowedIn(db', a, reg.slot[a][i])
  PROVE  FInv'
  <1> DEFINE s == todo[w]
  <1>1. /\ todo \in [Workers -> Statements \cup {None}] /\ db \in DbType /\ s \in Statements
        /\ loading = {}
    BY DEF IInv, FInv
  <1>2. /\ \A v \in Workers : v # w => todo'[v] = todo[v]
        /\ todo'[w] = t /\ Pending(t) \subseteq Underway(todo')
        /\ Underway(todo) \subseteq Underway(todo') \cup Rows(s)
    BY <1>1, UnderwayOf DEF Pending
  <1>3. Pending(s) = Rows(s) /\ (t # None => Pending(t) = Rows(s) /\ Rows(t) = Rows(s))
    BY DEF Pending, Rows
  <1>4. \A v \in Workers : todo'[v] # None /\ todo'[v].op # "delete"
                               => \E c \in Contacts : todo'[v].set = {c}
    BY <1>2 DEF FInv
  <1>5. \A v \in Workers : v # w => Pending(todo[v]) \cap Rows(s) \subseteq doubt'
    BY <1>3 DEF FInv
  <1>6. \A u, v \in Workers : u # v => Pending(todo'[u]) \cap Pending(todo'[v]) \subseteq doubt'
    <2> SUFFICES ASSUME NEW u \in Workers, NEW v \in Workers, u # v,
                        NEW p \in Pending(todo'[u]), p \in Pending(todo'[v])
                 PROVE  p \in doubt'
      OBVIOUS
    <2>1. Pending(todo'[w]) \subseteq Rows(s)
      BY <1>2, <1>3 DEF Pending
    <2>2. CASE u = w \/ v = w
      BY <1>2, <1>5, <2>1, <2>2
    <2>3. CASE u # w /\ v # w
      BY <1>2, <2>3 DEF FInv
    <2> QED BY <2>2, <2>3
  <1>7. \A v \in Workers : todo'[v] # None => Promised(todo'[v], reg', db', doubt')
    <2> SUFFICES ASSUME NEW v \in Workers, todo'[v] # None
                 PROVE  Promised(todo'[v], reg', db', doubt')
      OBVIOUS
    <2> DEFINE r == todo'[v]
    <2>1. r \in Statements
      BY <1>1, <1>2
    <2>2. Promised(r, reg, db', doubt')
      <3>1. CASE v = w
        <4>1. r = t /\ t # None /\ Promised(s, reg, db, doubt)
          BY <1>2, <3>1 DEF FInv
        <4>2. r.aor = s.aor /\ Rows(r) = Rows(s) /\ r.life = s.life /\ r.op # "delete"
          BY <1>3, <4>1
        <4>3. Rows(r) \ doubt' \subseteq db'.row
          BY <4>1
        <4> HIDE DEF r, s
        <4> QED BY <4>1, <4>2, <4>3 DEF Promised
      <3>2. CASE v # w
        <4>1. r = todo[v] /\ Promised(r, reg, db, doubt) /\ Pending(r) = Rows(r)
          BY <1>2, <3>2 DEF FInv, Pending
        <4>2. Rows(r) \ doubt' \subseteq Rows(r) \ doubt /\ Rows(r) \cap Rows(s) \subseteq doubt'
          BY <1>5, <3>2, <4>1
        <4> HIDE DEF r, s
        <4>3. r.op = "update" => Rows(r) \ doubt' \subseteq db'.row
          <5> SUFFICES ASSUME r.op = "update", NEW p \in Rows(r), p \notin doubt' PROVE p \in db'.row
            OBVIOUS
          <5>1. p \in db.row /\ p \notin Rows(s)
            BY <4>1, <4>2 DEF Promised
          <5> QED BY <5>1 DEF s
        <4> QED BY <4>1, <4>2, <4>3 DEF Promised
      <3> QED BY <3>1, <3>2
    <2> QED BY <2>1, <2>2, ShrinkKeeps
  <1>8. Backup(reg, db', doubt', Underway(todo'))
    <2> SUFFICES ASSUME NEW b \in Aors, NEW i \in Slots, Live(reg.slot[b][i]),
                        <<b, reg.slot[b][i].contact>> \notin doubt' \cup Underway(todo')
                 PROVE  RowedIn(db', b, reg.slot[b][i])
      BY DEF Backup
    <2> DEFINE p == <<b, reg.slot[b][i].contact>>
    <2>1. CASE p \in Rows(s)
      <3>1. t = None
        BY <1>2, <1>3, <2>1
      <3> QED BY <2>1, <3>1
    <2>2. CASE p \notin Rows(s)
      <3>1. RowedIn(db, b, reg.slot[b][i])
        BY <1>2, <2>2 DEF FInv, Backup
      <3>2. p \in db.row /\ p \in Pairs
        BY <1>1, <3>1 DEF RowedIn, DbType
      <3>3. p \in db'.row /\ db'.life[p] = db.life[p]
        BY <2>2, <3>2
      <3> QED BY <3>1, <3>3 DEF RowedIn
    <2> QED BY <2>1, <2>2
  <1>9. Backup(reg', db', doubt', Underway(todo'))
    BY <1>8, ShrinkKeeps
  <1> QED BY <1>1, <1>4, <1>6, <1>7, <1>9 DEF FInv

\* The row is made, its expiry is still to come.
LEMMA InsertFInv ==
  ASSUME IInv, FInv, NEW w \in Workers, DbInsert(w)
  PROVE  FInv'
  <1> DEFINE s == todo[w]
             t == [s EXCEPT !.op = "update"]
             d == InsertRow(db, Row(s))
  <1>1. s # None /\ s \in Statements /\ s.op = "insert" /\ db \in DbType
    BY DEF DbInsert, Executes, IInv
  <1>2. /\ todo' = [todo EXCEPT ![w] = t] /\ reg' = reg /\ loading' = loading
        /\ \/ db' = d /\ doubt' = doubt
           \/ db' = db /\ doubt' = doubt \cup Rows(s)
    BY DEF DbInsert, Executes, IInv
  <1>3. t \in Statements /\ t.op = "update" /\ t.aor = s.aor /\ t.set = s.set /\ t.life = s.life
    BY <1>1 DEF Statements
  <1>4. Rows(t) = {Row(s)} /\ Rows(s) = {Row(s)} /\ Row(s) \in Pairs
    <2>1. PICK c \in Contacts : s.set = {c}
      BY <1>1 DEF FInv
    <2> QED BY <1>1, <1>3, <2>1, RowOf DEF IInv, Rows
  <1>5. t # None
    BY <1>3, NoneAssumption
  <1>6. d.row = db.row \cup {Row(s)} /\ \A p \in Pairs : p # Row(s) => d.life[p] = db.life[p]
    BY <1>1, <1>4 DEF InsertRow, DbType
  <1>7. Shrinks(reg', reg)
    BY <1>2 DEF Shrinks
  <1> HIDE DEF t, d
  <1>8. /\ doubt \subseteq doubt' /\ db'.row \subseteq db.row \cup Rows(s)
        /\ db.row \subseteq db'.row \cup Rows(s) /\ Rows(t) \ doubt' \subseteq db'.row
        /\ \A p \in Pairs : p \notin Rows(s) => db'.life[p] = db.life[p]
    BY <1>2, <1>4, <1>6
  <1> QED BY <1>1, <1>2, <1>3, <1>5, <1>7, <1>8, ExecutesFInv

\* The expiry is set; no slot of the contact lives longer.
LEMMA UpdateFInv ==
  ASSUME IInv, FInv, NEW w \in Workers, DbUpdate(w)
  PROVE  FInv'
  <1> DEFINE s == todo[w]
             d == UpdateRow(db, Row(s), s.life)
  <1>1. s # None /\ s \in Statements /\ s.op = "update" /\ db \in DbType /\ Promised(s, reg, db, doubt)
    BY DEF DbUpdate, Executes, IInv, FInv
  <1>2. /\ loading' = loading
        /\ \/ db' = d /\ doubt' = doubt
           \/ db' = db /\ doubt' = doubt \cup Rows(s)
    BY DEF DbUpdate, Executes
  <1>3. Shrinks(reg', reg) /\ todo' = [todo EXCEPT ![w] = None]
    BY <1>1, AnswersShrinks DEF DbUpdate
  <1>4. Rows(s) = {Row(s)} /\ Row(s) \in Pairs
    <2>1. PICK c \in Contacts : s.set = {c}
      BY <1>1 DEF FInv
    <2> QED BY <1>1, <2>1, RowOf DEF IInv
  <1>5. /\ d.row = db.row /\ \A p \in Pairs : p # Row(s) => d.life[p] = db.life[p]
        /\ Row(s) \in db.row => d.life[Row(s)] = s.life
    BY <1>1, <1>4 DEF UpdateRow, DbType
  <1> HIDE DEF s, d
  <1>6. /\ doubt \subseteq doubt' /\ db'.row \subseteq db.row \cup Rows(s)
        /\ db.row \subseteq db'.row \cup Rows(s)
        /\ \A p \in Pairs : p \notin Rows(s) => db'.life[p] = db.life[p]
    BY <1>2, <1>4, <1>5
  <1>7. ASSUME NEW a \in Aors, NEW i \in Slots, Live(reg.slot[a][i]),
               <<a, reg.slot[a][i].contact>> \in Rows(s) \ doubt'
        PROVE  RowedIn(db', a, reg.slot[a][i])
    <2> DEFINE v == reg.slot[a][i]
               p == <<a, v.contact>>
    <2>1. p = Row(s) /\ p \in Rows(s) \ doubt /\ v # None /\ db' = d
      BY <1>2, <1>4, <1>6, <1>7 DEF Live
    <2>2. a = s.aor
      BY <2>1 DEF Row
    <2>3. v.life <= s.life /\ p \in db.row
      BY <1>1, <2>1, <2>2 DEF Promised
    <2>4. v.life \in Nat /\ s.life \in Nat
      <3>1. v \in Values
        BY <2>1, RegFields DEF IInv, Sound
      <3> QED BY <1>1, <3>1 DEF Values, Statements, Lives
    <2> HIDE DEF v
    <2>5. p \in d.row /\ d.life[p] >= v.life
      BY <1>5, <2>1, <2>3, <2>4
    <2> QED BY <2>1, <2>5 DEF RowedIn, v
  <1> QED BY <1>1, <1>2, <1>3, <1>6, <1>7, ExecutesFInv DEF s

\* The rows that go are of contacts that memory no longer has.
LEMMA DeleteFInv ==
  ASSUME IInv, FInv, NEW w \in Workers, DbDelete(w)
  PROVE  FInv'
  <1> DEFINE s == todo[w]
             d == DeleteRows(db, Rows(s))
  <1>1. s # None /\ s \in Statements /\ s.op = "delete" /\ db \in DbType /\ Promised(s, reg, db, doubt)
    BY DEF DbDelete, Executes, IInv, FInv
  <1>2. /\ loading' = loading
        /\ \/ db' = d /\ doubt' = doubt
           \/ db' = db /\ doubt' = doubt \cup Rows(s)
    BY DEF DbDelete, Executes
  <1>3. Shrinks(reg', reg) /\ todo' = [todo EXCEPT ![w] = None]
    BY <1>1, AnswersShrinks DEF DbDelete
  <1>4. d.row = db.row \ Rows(s) /\ \A p \in Pairs : p \notin Rows(s) => d.life[p] = db.life[p]
    BY DEF DeleteRows
  <1> HIDE DEF s, d
  <1>5. /\ doubt \subseteq doubt' /\ db'.row \subseteq db.row \cup Rows(s)
        /\ db.row \subseteq db'.row \cup Rows(s)
        /\ \A p \in Pairs : p \notin Rows(s) => db'.life[p] = db.life[p]
    BY <1>2, <1>4
  <1>6. ASSUME NEW a \in Aors, NEW i \in Slots, Live(reg.slot[a][i])
        PROVE  <<a, reg.slot[a][i].contact>> \notin Rows(s) \ doubt'
    <2>1. SUFFICES ASSUME <<a, reg.slot[a][i].contact>> \in Rows(s) \ doubt' PROVE FALSE
      OBVIOUS
    <2>2. a = s.aor
      BY <2>1 DEF Rows
    <2> QED BY <1>1, <1>5, <1>6, <2>1, <2>2 DEF Promised, Live
  <1> QED BY <1>1, <1>2, <1>3, <1>5, <1>6, ExecutesFInv DEF s

\* Memory and rows age together; a statement under way does not age.
LEMMA TickFInv ==
  ASSUME IInv, FInv, Tick
  PROVE  FInv'
  <1>1. reg \in RegType /\ db \in DbType
    BY DEF IInv, Sound
  <1>2. /\ \A a \in Aors, i \in Slots : reg'.slot[a][i] = Aged(reg.slot[a][i])
        /\ todo' = todo /\ loading' = loading /\ doubt' = doubt
    BY DEF Tick
  <1>3. db'.row = db.row /\ \A p \in Pairs : db'.life[p] = Less(db.life[p])
    BY <1>1 DEF Tick, DbType
  <1>4. \A a \in Aors, i \in Slots : reg.slot[a][i] \in Values \cup {None}
    BY <1>1, RegFields
  <1>5. \A m, n \in Nat : (m <= n => Less(m) <= Less(n)) /\ Less(m) <= m /\ Less(m) \in Nat
    BY DEF Less
  <1>6. \A v \in Values \cup {None} :
           /\ Aged(v) # None <=> v # None
           /\ v # None => /\ Aged(v).contact = v.contact /\ Aged(v).life = Less(v.life)
                          /\ v.life \in Nat
    <2>1. \A n \in Lives : Less(n) \in Lives /\ n \in Nat
      BY MaxLifeAssumption DEF Less, Lives
    <2>2. \A v \in Values : v # None /\ v.life \in Nat /\ Aged(v) = [contact |-> v.contact, life |-> Less(v.life)]
      BY <2>1, NoneAssumption DEF Aged, Values
    <2>3. \A v \in Values : Aged(v) \in Values
      BY <2>1, <2>2 DEF Values
    <2>4. \A v \in Values : Aged(v).contact = v.contact /\ Aged(v).life = Less(v.life)
      BY <2>2
    <2> QED BY <2>2, <2>3, <2>4, NoneAssumption DEF Aged
  <1>7. \A v \in Values \cup {None} : Live(Aged(v)) => Live(v)
    <2>1. \A n \in Nat : Less(n) > 0 => n > 0
      BY DEF Less
    <2> QED BY <1>6, <2>1 DEF Live
  <1>8. ASSUME NEW w \in Workers, todo[w] # None PROVE Promised(todo[w], reg', db', doubt)
    <2> DEFINE t == todo[w]
    <2>1. Promised(t, reg, db, doubt) /\ t.aor \in Aors /\ t.life \in Nat
      BY <1>8 DEF FInv, IInv, Statements, Lives
    <2> HIDE DEF t
    <2>2. ASSUME NEW i \in Slots, reg'.slot[t.aor][i] # None
          PROVE  /\ reg.slot[t.aor][i] # None
                 /\ reg'.slot[t.aor][i].contact = reg.slot[t.aor][i].contact
                 /\ reg.slot[t.aor][i].life <= t.life => reg'.slot[t.aor][i].life <= t.life
      <3> DEFINE v == reg.slot[t.aor][i]
      <3>1. v \in Values \cup {None} /\ reg'.slot[t.aor][i] = Aged(v)
        BY <1>2, <1>4, <2>1
      <3> HIDE DEF v
      <3>2. v # None /\ Aged(v).contact = v.contact /\ Aged(v).life = Less(v.life) /\ v.life \in Nat
        BY <1>6, <2>2, <3>1
      <3>3. Less(v.life) <= v.life /\ Less(v.life) \in Nat
        BY <1>5, <3>2
      <3>4. v.life <= t.life => Less(v.life) <= t.life
        BY <2>1, <3>2, <3>3
      <3> QED BY <3>1, <3>2, <3>4 DEF v
    <2>3. Promised(t, reg', db', doubt)
      BY <1>3, <2>1, <2>2 DEF Promised
    <2> QED BY <2>3 DEF t
  <1>9. Backup(reg', db', doubt, Underway(todo))
    <2> SUFFICES ASSUME NEW b \in Aors, NEW i \in Slots, Live(reg'.slot[b][i]),
                        <<b, reg'.slot[b][i].contact>> \notin doubt \cup Underway(todo)
                 PROVE  RowedIn(db', b, reg'.slot[b][i])
      BY DEF Backup
    <2> DEFINE v == reg.slot[b][i]
               p == <<b, v.contact>>
    <2>1. v \in Values \cup {None} /\ reg'.slot[b][i] = Aged(v)
      BY <1>2, <1>4
    <2>2. Live(v)
      BY <1>7, <2>1
    <2>3. v # None /\ Aged(v).contact = v.contact /\ Aged(v).life = Less(v.life) /\ v.life \in Nat
      BY <1>6, <2>1, <2>2 DEF Live
    <2>4. RowedIn(db, b, v)
      BY <2>1, <2>2, <2>3 DEF FInv, Backup
    <2>5. p \in db.row /\ p \in Pairs /\ db.life[p] \in Nat /\ v.life <= db.life[p]
      BY <1>1, <2>3, <2>4 DEF RowedIn, DbType, Lives
    <2>6. Less(v.life) <= Less(db.life[p]) /\ Less(v.life) \in Nat /\ Less(db.life[p]) \in Nat
      BY <1>5, <2>3, <2>5
    <2>7. db'.life[p] >= Aged(v).life
      BY <1>3, <2>3, <2>5, <2>6
    <2> QED BY <1>3, <2>1, <2>3, <2>5, <2>7 DEF RowedIn
  <1> QED BY <1>2, <1>3, <1>8, <1>9 DEF FInv

\* A process that starts has nothing in memory and reads rows that exist.
LEMMA RestartFInv ==
  ASSUME IInv, FInv, Restart
  PROVE  FInv'
  <1>1. reg' = EmptyReg /\ (\A w \in Workers : todo'[w] = None) /\ loading' \subseteq db'.row
    BY DEF Restart
  <1>2. Backup(EmptyReg, db', doubt', Underway(todo'))
    BY DEF Backup, EmptyReg, Live
  <1> QED BY <1>1, <1>2 DEF FInv, Pending

\* A binding that is read back has its row.
LEMMA LoadFInv ==
  ASSUME IInv, FInv, NEW p \in Pairs, Load(p)
  PROVE  FInv'
  <1> DEFINE a == p[1]
             c == p[2]
             l == db.life[p]
             q == StoreIn(reg, a, c, l)
             P == Underway(todo)
  <1>1. Sound(reg) /\ a \in Aors /\ c \in Contacts /\ l \in Lives /\ p = <<a, c>>
    BY DEF IInv, DbType, Pairs
  <1>2. /\ reg' = q /\ todo' = todo /\ db' = db /\ loading' = loading \ {p} /\ doubt' = doubt
        /\ p \in loading /\ p \in db.row /\ \A w \in Workers : todo[w] = None
    BY DEF Load, FInv
  <1>3. PICK k \in Slots :
           /\ q.slot[a][k] = [contact |-> c, life |-> l]
           /\ \A i \in Slots : i # k => q.slot[a][i] = reg.slot[a][i]
           /\ \A i \in Slots : reg.slot[a][i] # None /\ reg.slot[a][i].contact = c => i = k
           /\ Live(reg.slot[a][k]) =>
                 reg.slot[a][k].contact = c
                 \/ \A i \in Slots : Live(reg.slot[a][i]) /\ reg.slot[a][i].contact # c
           /\ \A b \in Aors, i \in Slots :
                 b # a => q.slot[b][i] \in {None, reg.slot[b][i]}
           /\ q.single[a] = [contact |-> c, life |-> l]
    BY <1>1, StoreSlots
  <1>4. l >= l
    BY <1>1 DEF Lives
  <1> HIDE DEF q, P
  <1>5. Backup(reg, db, doubt, P)
    BY DEF FInv, P
  <1>6. Backup(q, db, doubt, P)
    <2> SUFFICES ASSUME NEW b \in Aors, NEW i \in Slots, Live(q.slot[b][i]),
                        <<b, q.slot[b][i].contact>> \notin doubt \cup P
                 PROVE  RowedIn(db, b, q.slot[b][i])
      BY DEF Backup
    <2>1. CASE b = a /\ i = k
      BY <1>1, <1>2, <1>3, <1>4, <2>1 DEF RowedIn
    <2>2. CASE ~(b = a /\ i = k)
      <3>1. q.slot[b][i] = reg.slot[b][i]
        BY <1>3, <2>2 DEF Live
      <3> QED BY <1>5, <3>1 DEF Backup
    <2> QED BY <2>1, <2>2
  <1> QED BY <1>2, <1>6 DEF FInv, P

\* Every step of the workers and of the process keeps the backup.
LEMMA NextFInv == ASSUME IInv, FInv, [Next]_vars PROVE FInv'
  <1>1. CASE \E w \in Workers, a \in Aors : \E c \in ContactsOf[a] :
                \E asked \in 1 .. (MaxLife + 1) : Store(w, a, c, asked)
    BY <1>1, StoreFInv
  <1>2. CASE \E w \in Workers, a \in Aors : Remove(w, a, ContactsOf[a])
                                          \/ \E c \in ContactsOf[a] : Remove(w, a, {c})
    BY <1>2, RemoveFInv
  <1>3. CASE \E w \in Workers : DbInsert(w) \/ DbUpdate(w) \/ DbDelete(w)
    BY <1>3, InsertFInv, UpdateFInv, DeleteFInv
  <1>4. CASE \E a \in Aors : Lookup(a)
    <2>1. PICK a \in Aors : Lookup(a)
      BY <1>4
    <2>2. Shrinks(reg', reg) /\ UNCHANGED <<todo, db, loading, doubt>>
      BY <2>1, FindShrinks DEF Lookup, IInv
    <2>3. \A w \in Workers : todo[w] # None => todo[w] \in Statements
      BY DEF IInv
    <2>4. \A w \in Workers : todo[w] # None => Promised(todo[w], reg', db, doubt)
      BY <2>2, <2>3, ShrinkKeeps DEF FInv
    <2>5. Backup(reg', db, doubt, Underway(todo))
      BY <2>2, ShrinkKeeps DEF FInv
    <2> QED BY <2>2, <2>4, <2>5 DEF FInv
  <1>5. CASE Tick
    BY <1>5, TickFInv
  <1>6. CASE Restart
    BY <1>6, RestartFInv
  <1>7. CASE \E p \in Pairs : Load(p)
    BY <1>7, LoadFInv
  <1>8. CASE UNCHANGED vars
    BY <1>8 DEF vars, FInv
  <1> QED BY <1>1, <1>2, <1>3, <1>4, <1>5, <1>6, <1>7, <1>8 DEF Next

\* "The database keeps the same binding data for cluster failover": every
\* live binding in memory has a row that lives at least as long, or a REGISTER
\* is about to write it, or else its last statements overlapped or one failed.
THEOREM FailoverAccountedAlways == Spec => []FailoverAccounted
  <1>1. Init => FInv
    <2> SUFFICES ASSUME Init PROVE FInv
      OBVIOUS
    <2>1. loading = {} /\ \A w \in Workers : todo[w] = None
      BY DEF Init
    <2>2. Backup(reg, db, doubt, Underway(todo))
      BY DEF Init, Backup, EmptyReg, Live
    <2> QED BY <2>1, <2>2 DEF FInv, Pending
  <1>2. IInv /\ FInv /\ [Next]_vars => FInv'
    BY NextFInv
  <1>3. FInv => FailoverAccounted
    <2> SUFFICES ASSUME FInv, NEW a \in Aors, NEW i \in LiveSlots(reg, a),
                        <<a, reg.slot[a][i].contact>> \notin doubt,
                        \A w \in Workers : <<a, reg.slot[a][i].contact>> \notin Pending(todo[w])
                 PROVE  Rowed(a, reg.slot[a][i])
      BY DEF FailoverAccounted
    <2>1. i \in Slots /\ Live(reg.slot[a][i])
      BY DEF LiveSlots
    <2>2. <<a, reg.slot[a][i].contact>> \notin Underway(todo)
      BY DEF Underway
    <2>3. RowedIn(db, a, reg.slot[a][i])
      BY <2>1, <2>2 DEF FInv, Backup
    <2> QED BY <2>3 DEF Rowed, RowedIn
  <1> QED BY <1>1, <1>2, <1>3, IInvAlways, PTL DEF Spec

=============================================================================
