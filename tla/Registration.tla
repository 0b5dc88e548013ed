---------------------------- MODULE Registration ----------------------------
(***************************************************************************)
(* The bindings of addresses of record (AoRs): the CMap `reg` with its     *)
(* slots, its single-binding keys and the ring that bounds it, and the     *)
(* table registration_bindings that a restarted process reads it back from *)
(* (registration.mko, outbound.mko, the REGISTER handler of main.mko).     *)
(*                                                                         *)
(* The handler takes the Contacts of a REGISTER one by one: memory first,  *)
(* then the statements to the database, each of which may fail unnoticed.  *)
(* A Contact that is rejected ends the handler where it is, so a worker    *)
(* between two Contacts is as good as idle.  The expiry of a binding is    *)
(* kept as the time left to it; 0 is expired.                              *)
(***************************************************************************)
EXTENDS Integers, FiniteSets

CONSTANTS
    Aors,
    ContactsOf,  \* the contacts an AoR registers
    Workers,     \* threads that handle messages
    SlotCount,   \* bindings of an AoR kept in memory (8)
    RingSize,    \* AoRs kept in memory (65536)
    MaxLife,     \* longest time a binding is granted; the default of a new row
    DbFails,     \* may a statement to the database fail?
    None

ASSUME SlotCountAssumption == SlotCount \in Nat \ {0}
ASSUME RingSizeAssumption == RingSize \in Nat \ {0}
ASSUME MaxLifeAssumption == MaxLife \in Nat \ {0}
ASSUME DbFailsAssumption == DbFails \in BOOLEAN

Slots == 0 .. (SlotCount - 1)
Ring == 0 .. (RingSize - 1)
Contacts == UNION {ContactsOf[a] : a \in Aors}
Lives == 0 .. MaxLife
Pairs == {p \in Aors \X Contacts : p[2] \in ContactsOf[p[1]]}
Values == [contact : Contacts, life : Lives]
Statements == [op : {"insert", "update", "delete"}, aor : Aors, set : SUBSET Contacts, life : Lives]

ASSUME NoneAssumption == None \notin Aors /\ None \notin Values /\ None \notin Statements

VARIABLES
    reg,      \* slot: reg|aor|i; single: reg[aor]; ring, seq: reg_aor_ring|, reg_aor_seq
    todo,     \* the database statement a worker is about to issue
    db,       \* row: the rows, life: the time left to them, newer: by updated_at
    loading,  \* rows a starting process has still to read
    doubt     \* history: bindings whose last statements overlapped, or failed

vars == <<reg, todo, db, loading, doubt>>

RegType == [slot   : [Aors -> [Slots -> Values \cup {None}]],
            single : [Aors -> Values \cup {None}],
            ring   : [Ring -> Aors \cup {None}],
            seq    : Ring]
DbType == [row : SUBSET Pairs, life : [Pairs -> Lives], newer : SUBSET (Pairs \X Pairs)]

EmptyReg == [slot |-> [a \in Aors |-> [i \in Slots |-> None]], single |-> [a \in Aors |-> None],
             ring |-> [n \in Ring |-> None], seq |-> 0]

---------------------------------------------------------------------------
(* registration.mko: memory *)

\* registration_live
Live(v) == v # None /\ v.life > 0
LiveSlots(r, a) == {i \in Slots : Live(r.slot[a][i])}
First(S) == CHOOSE i \in S : \A j \in S : i <= j

\* The keys of an AoR are set to slots s and single binding v
Bind(r, a, s, v) ==
    [slot   |-> [r.slot EXCEPT ![a] = s],
     single |-> [r.single EXCEPT ![a] = v],
     ring   |-> r.ring,
     seq    |-> r.seq]

\* registration_find, what it deletes: expired slots before the first live
\* one and, when there is none, the expired single binding
Find(r, a) ==
    LET live == LiveSlots(r, a)
    IN Bind(r, a,
            [i \in Slots |-> IF \A j \in live : i < j THEN None ELSE r.slot[a][i]],
            IF live = {} /\ ~Live(r.single[a]) THEN None ELSE r.single[a])

\* ... and the binding it returns
Found(r, a) ==
    LET live == LiveSlots(r, a)
    IN IF live # {} THEN r.slot[a][First(live)]
       ELSE IF Live(r.single[a]) THEN r.single[a] ELSE None

\* registration_response_contacts deletes every expired slot
Report(r, a) ==
    LET swept == Bind(r, a, [i \in Slots |-> IF Live(r.slot[a][i]) THEN r.slot[a][i] ELSE None],
                      r.single[a])
    IN IF LiveSlots(r, a) = {} THEN Find(swept, a) ELSE swept

NoSlots == [i \in Slots |-> None]

\* registration_clear_aor
ClearAor(r, a) == Bind(r, a, NoSlots, None)

\* Mutation: the AoR that had the place keeps its bindings
TrackAorKeepsOld(r, a) ==
    LET n == (r.seq + 1) % RingSize
    IN IF r.slot[a][0] # None THEN r
       ELSE [slot |-> r.slot, single |-> r.single, ring |-> [r.ring EXCEPT ![n] = a], seq |-> n]

\* registration_track_aor: an AoR whose slot 0 is empty takes the next place
\* of the ring, and the AoR that had it is forgotten
TrackAor(r, a) ==
    LET n    == (r.seq + 1) % RingSize
        old  == r.ring[n]
        kept == IF old = None \/ old = a THEN r ELSE ClearAor(r, old)
    IN IF r.slot[a][0] # None THEN r
       ELSE [slot |-> kept.slot, single |-> kept.single,
             ring |-> [r.ring EXCEPT ![n] = a], seq |-> n]

Same(r, a, c) == {i \in Slots : r.slot[a][i] # None /\ r.slot[a][i].contact = c}
Usable(r, a) == {i \in Slots : ~Live(r.slot[a][i])}

\* Mutation: the search stops at the first slot that can be taken
SlotForFirstFree(r, a, c) ==
    IF Usable(r, a) # {} THEN First(Usable(r, a)) ELSE 0

\* Mutation: an expired slot is not reused
SlotForEmpty(r, a, c) ==
    LET empty == {i \in Slots : r.slot[a][i] = None}
    IN IF Same(r, a, c) # {} THEN First(Same(r, a, c))
       ELSE IF empty # {} THEN First(empty) ELSE 0

\* The slot registration_store writes: that of the same contact, else the
\* first that is empty or expired, else slot 0
SlotFor(r, a, c) ==
    IF Same(r, a, c) # {} THEN First(Same(r, a, c))
    ELSE IF Usable(r, a) # {} THEN First(Usable(r, a)) ELSE 0

\* registration_store, outbound_store_binding
StoreIn(r, a, c, l) ==
    LET t == TrackAor(r, a)
        v == [contact |-> c, life |-> l]
    IN Bind(t, a, [t.slot[a] EXCEPT ![SlotFor(t, a, c)] = v], v)

Without(r, a, K) ==
    [i \in Slots |-> IF r.slot[a][i] # None /\ r.slot[a][i].contact \in K THEN None ELSE r.slot[a][i]]

\* Mutation: "*" is compared with the contacts like any other value
RemoveInNoWildcard(r, a, K) ==
    LET gone == Bind(r, a, Without(r, a, IF Cardinality(K) = 1 THEN K ELSE {}), None)
    IN Bind(Find(gone, a), a, Find(gone, a).slot[a], Found(gone, a))

\* registration_remove: one contact, or all of them; the single binding
\* becomes the first that is left
RemoveIn(r, a, K) ==
    LET gone == Bind(r, a, Without(r, a, K), None)
    IN Bind(Find(gone, a), a, Find(gone, a).slot[a], Found(gone, a))

---------------------------------------------------------------------------
(* registration.mko: the database *)

\* Sets updated_at of a row
Touch(newer, p, rows) == (newer \ (rows \X {p})) \cup ({p} \X (rows \ {p}))

\* The statements of registration_db_upsert: the row is made with a default
\* expiry, or keeps the one it had ...
InsertRow(d, p) ==
    [row   |-> d.row \cup {p},
     life  |-> IF p \in d.row THEN d.life ELSE [d.life EXCEPT ![p] = MaxLife],
     newer |-> Touch(d.newer, p, d.row)]

\* Mutation: the expiry is set by AoR only
UpdateRowsOfAor(d, p, l) ==
    [row   |-> d.row,
     life  |-> [q \in Pairs |-> IF q \in d.row /\ q[1] = p[1] THEN l ELSE d.life[q]],
     newer |-> Touch(d.newer, p, d.row)]

\* ... and gets its expiry
UpdateRow(d, p, l) ==
    IF p \in d.row
    THEN [row |-> d.row, life |-> [d.life EXCEPT ![p] = l], newer |-> Touch(d.newer, p, d.row)]
    ELSE d

\* registration_db_remove, registration_cleanup_db
DeleteRows(d, P) ==
    [row   |-> d.row \ P,
     life  |-> [p \in Pairs |-> IF p \in P THEN 0 ELSE d.life[p]],
     newer |-> {o \in d.newer : o[1] \notin P /\ o[2] \notin P}]

---------------------------------------------------------------------------
(* The handlers *)

Init ==
    /\ reg = EmptyReg /\ loading = {} /\ doubt = {}
    /\ todo = [w \in Workers |-> None]
    /\ db = [row |-> {}, life |-> [p \in Pairs |-> 0], newer |-> {}]

Serving == loading = {}
Free(w) == Serving /\ todo[w] = None

\* The rows of a statement
Rows(t) == {t.aor} \X t.set
Row(t) == <<t.aor, CHOOSE c \in t.set : TRUE>>
Pending(s) == IF s = None THEN {} ELSE Rows(s)

\* A worker turns to its statement; what becomes of the rows is in doubt if
\* another worker has one for them under way
Issue(w, op, a, K, l) ==
    /\ todo' = [todo EXCEPT ![w] = [op |-> op, aor |-> a, set |-> K, life |-> l]]
    /\ doubt' = (doubt \ ({a} \X K))
                  \cup {p \in {a} \X K : \E v \in Workers : p \in Pending(todo[v])}

\* registration_expires: no more than the maximum is granted
Granted(asked) == IF asked > MaxLife THEN MaxLife ELSE asked

\* A Contact with a lifetime
Store(w, a, c, asked) ==
    /\ Free(w)
    /\ reg' = StoreIn(reg, a, c, Granted(asked))
    /\ Issue(w, "insert", a, {c}, Granted(asked))
    /\ UNCHANGED <<db, loading>>

\* A Contact with expires=0, "*", and a deregistration by the network
Remove(w, a, K) ==
    /\ Free(w)
    /\ reg' = RemoveIn(reg, a, K)
    /\ Issue(w, "delete", a, K, 0)
    /\ UNCHANGED <<db, loading>>

\* The statement a worker issues takes effect, or fails unnoticed
Executes(w, op, d) ==
    /\ todo[w] # None /\ todo[w].op = op
    /\ \/ db' = d /\ UNCHANGED doubt
       \/ DbFails /\ UNCHANGED db /\ doubt' = doubt \cup Rows(todo[w])
    /\ UNCHANGED loading

\* The end of the handler: the remaining binding is looked up for the IMS
\* lifecycle and the live ones are reported.  It is not reached when a later
\* Contact is rejected.
Answers(w) ==
    /\ todo' = [todo EXCEPT ![w] = None]
    /\ \/ reg' = Report(Find(reg, todo[w].aor), todo[w].aor)
       \/ UNCHANGED reg

DbInsert(w) ==
    /\ Executes(w, "insert", InsertRow(db, Row(todo[w])))
    /\ todo' = [todo EXCEPT ![w].op = "update"]
    /\ UNCHANGED reg

DbUpdate(w) ==
    /\ Executes(w, "update", UpdateRow(db, Row(todo[w]), todo[w].life))
    /\ Answers(w)

DbDelete(w) ==
    /\ Executes(w, "delete", DeleteRows(db, Rows(todo[w])))
    /\ Answers(w)

\* An INVITE or another request looks up its target
Lookup(a) ==
    /\ Serving
    /\ reg' = Find(reg, a)
    /\ UNCHANGED <<todo, db, loading, doubt>>

\* Time passes
Less(n) == IF n = 0 THEN 0 ELSE n - 1
Aged(v) == IF v = None THEN None ELSE [contact |-> v.contact, life |-> Less(v.life)]
Tick ==
    /\ Serving
    /\ reg' = [slot   |-> [a \in Aors |-> [i \in Slots |-> Aged(reg.slot[a][i])]],
               single |-> [a \in Aors |-> Aged(reg.single[a])],
               ring   |-> reg.ring,
               seq    |-> reg.seq]
    /\ db' = [db EXCEPT !.life = [p \in Pairs |-> Less(db.life[p])]]
    /\ UNCHANGED <<todo, loading, doubt>>

Expired(d) == {p \in d.row : d.life[p] = 0}

\* The process ends, wherever its workers are, and a new one starts to read
\* the bindings; an orderly end deletes the expired rows first
Restart ==
    /\ reg' = EmptyReg
    /\ todo' = [w \in Workers |-> None]
    /\ doubt' = {}
    /\ \E d \in {db, DeleteRows(db, Expired(db))} :
          db' = d /\ loading' = d.row \ Expired(d)

\* registration_load_db: the row updated last comes first
Load(p) ==
    /\ p \in loading
    /\ \A q \in loading : <<q, p>> \notin db.newer
    /\ reg' = StoreIn(reg, p[1], p[2], db.life[p])
    /\ loading' = loading \ {p}
    /\ UNCHANGED <<todo, db, doubt>>

Next ==
    \/ \E w \in Workers, a \in Aors :
          \/ \E c \in ContactsOf[a] : \/ \E asked \in 1 .. (MaxLife + 1) : Store(w, a, c, asked)
                                      \/ Remove(w, a, {c})
          \/ Remove(w, a, ContactsOf[a])
    \/ \E w \in Workers : DbInsert(w) \/ DbUpdate(w) \/ DbDelete(w)
    \/ \E a \in Aors : Lookup(a)
    \/ Tick
    \/ Restart
    \/ \E p \in Pairs : Load(p)

Spec == Init /\ [][Next]_vars

---------------------------------------------------------------------------
(* Properties *)

\* Memory, database and pending statements are well formed, and no binding
\* lives longer than was granted.
TypeOK ==
    /\ reg \in RegType /\ todo \in [Workers -> Statements \cup {None}]
    /\ db \in DbType /\ loading \subseteq Pairs /\ doubt \subseteq Pairs

\* The contacts a lookup of an AoR can come upon
Bound(r, a) ==
    {r.slot[a][i].contact : i \in LiveSlots(r, a)}
       \cup (IF Live(r.single[a]) THEN {r.single[a].contact} ELSE {})

\* Every AoR that has a key in `reg` has a place in the ring, in spite of the
\* test of slot 0 alone in registration_track_aor: nothing escapes the bound.
RingCovers ==
    \A a \in Aors :
        (reg.single[a] # None \/ \E i \in Slots : reg.slot[a][i] # None)
           => \E n \in Ring : reg.ring[n] = a

\* A contact has one slot of its AoR: a refresh never leaves an older copy
\* that would answer lookups after the contact is removed.
OneSlotPerContact ==
    \A a \in Aors : \A i, j \in Slots :
        (/\ reg.slot[a][i] # None /\ reg.slot[a][j] # None
         /\ reg.slot[a][i].contact = reg.slot[a][j].contact)
           => i = j

\* reg[aor], which registration_find falls back on, never holds a live
\* binding that the slots do not: the fallback cannot bring back a contact
\* that was removed, displaced or refreshed.
SingleInSlots ==
    \A a \in Aors :
        Live(reg.single[a]) => \E i \in Slots : reg.slot[a][i] = reg.single[a]

\* A contact that is removed is out of reach of every later lookup.
RemovedUnreachable ==
    [][\A w \in Workers, a \in Aors : \A K \in SUBSET ContactsOf[a] :
          Remove(w, a, K) => Bound(reg', a) \cap K = {}]_vars

\* A contact that is registered costs its AoR no other live contact as long
\* as one of the eight slots is empty, expired or its own.
StoreKeepsOthers ==
    [][\A w \in Workers, a \in Aors : \A c \in ContactsOf[a], asked \in 1 .. (MaxLife + 1) :
          (/\ Store(w, a, c, asked)
           /\ \E i \in Slots : ~Live(reg.slot[a][i]) \/ reg.slot[a][i].contact = c)
             => Bound(reg, a) \ {c} \subseteq Bound(reg', a)]_vars

\* A row of the database is as good as the binding v of AoR a
Rowed(a, v) == <<a, v.contact>> \in db.row /\ db.life[<<a, v.contact>>] >= v.life

\* registration.mko: "The database keeps the same binding data for cluster
\* failover."  What is bound in memory is in the database for at least as long,
\* unless a statement for it is still to come: only statements of two workers that
\* overlapped, or one that failed, lose a binding, until it is refreshed.
FailoverAccounted ==
    \A a \in Aors : \A i \in LiveSlots(reg, a) :
        LET v == reg.slot[a][i]
            p == <<a, v.contact>>
        IN \/ Rowed(a, v)
           \/ p \in doubt
           \/ \E w \in Workers : p \in Pending(todo[w])

=============================================================================
