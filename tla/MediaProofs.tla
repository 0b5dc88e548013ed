---------------------------- MODULE MediaProofs ----------------------------
(***************************************************************************)
(* Proofs about MediaRelay, for any calls, ports, limit and timeout.  The  *)
(* inductive invariant is the type invariant, the ownership of the open    *)
(* sockets, the distinctness of ports and the shape of sessions together:  *)
(* a port returned by Free is new only because every bound port is open,   *)
(* and closing a session frees nothing of another one only because no two  *)
(* legs share a port.  The datagrams of MediaControl then add nothing, as  *)
(* each does what one command does.                                        *)
(* What the replies carry is proved of the codec: its recursive functions  *)
(* are shown to exist by induction over the numbers (EveryNumber), and     *)
(* then to give a dictionary of plain values back when what _bencode wrote *)
(* is decoded.                                                             *)
(***************************************************************************)
EXTENDS MediaControl, TLAPS, FiniteSetTheorems, SequenceTheorems, WellFoundedInduction

\* the parts of SessionsWhole that are about the legs, and the limit
Shape ==
    /\ \A c \in Calls : (from[c] # None) <=> (port[<<c, "offer">>] # None)
    /\ \A c \in Calls : port[<<c, "answer">>] # None => from[c] # None
    /\ \A l \in Legs : port[l] # None => advertised[l] # None
Limit == Cardinality(Live) <= MaxSessions

\* between the rounds no event is left
RoundDone == (pc # "handle" => batch = {}) /\ (pc = "select" => fresh = {})

Inv == TypeOK /\ SocketsOwned /\ PortsDistinct /\ Shape

---------------------------------------------------------------------------
(* Legs and ports *)

LEMMA LegsPairs ==
    /\ \A c \in Calls, s \in Sides : <<c, s>> \in Legs
    /\ \A l \in Legs : l[1] \in Calls /\ l[2] \in Sides /\ l = <<l[1], l[2]>>
    /\ \A c \in Calls : <<c, "offer">> \in Legs /\ <<c, "answer">> \in Legs
    /\ \A c, d, s, t : <<c, s>> = <<d, t>> <=> c = d /\ s = t
BY DEF Legs, Sides

LEMMA ControlNoPort == Control \notin Ports /\ None \notin Ports /\ Ports \subseteq Int
<1>1. MediaMin \in Int /\ MediaMax \in Int /\ MediaMin > 0
  BY RangeAssumption
<1>2. Control \notin Ports /\ Ports \subseteq Int
  BY <1>1 DEF Control, Ports
<1> QED BY <1>2, SetsAssumption

LEMMA TimeoutPositive == Timeout \in Int /\ Timeout > 0
BY RangeAssumption

\* a leg's port is bound to its call
LEMMA BoundToPort ==
    ASSUME NEW S \in SUBSET Calls
    PROVE /\ \A l \in Legs : l[1] \in S /\ port[l] # None => port[l] \in BoundTo(S)
          /\ \A p \in BoundTo(S) : p # None /\ \E l \in Legs : l[1] \in S /\ port[l] = p
BY LegsPairs DEF BoundTo, LegsOf, Legs, Sides

LEMMA FreePort == \A o : \A p \in Free(o) : p \in Ports /\ p \notin o
BY DEF Free

---------------------------------------------------------------------------
(* Removing sessions *)

\* the ports of the sessions that stay are exactly what stays open
LEMMA DeleteKeeps ==
    ASSUME Inv, NEW S \in SUBSET Calls, Delete(S),
           batch' \subseteq open' \cup {Control}, pc' \in {"select", "handle", "stopped"},
           fresh' \subseteq fresh \cup open'
    PROVE Inv'
<1> USE DEF Inv
<1>1. /\ \A l \in Legs : /\ port'[l] = IF l[1] \in S THEN None ELSE port[l]
                         /\ port'[l] \in Ports \cup {None}
      /\ \A c \in Calls : from'[c] = IF c \in S THEN None ELSE from[c]
      /\ port' \in [Legs -> Ports \cup {None}]
  BY DEF Delete, Without, TypeOK
<1>2. TypeOK'
  <2>1. idle' \in [Calls -> 0 .. Timeout]
    BY TimeoutPositive DEF Delete, TypeOK
  <2>2. from' \in [Calls -> Tags \cup {None}]
    BY DEF Delete, TypeOK
  <2>3. /\ advertised' \in [Legs -> Endpoints \cup {None}]
        /\ observed' \in [Legs -> Endpoints \cup {None}]
    BY DEF Delete, Without, TypeOK
  <2>4. open' \subseteq Ports
    BY DEF Delete, TypeOK
  <2> QED BY <1>1, <2>1, <2>2, <2>3, <2>4 DEF TypeOK
<1>3. PortsDistinct'
  BY <1>1 DEF PortsDistinct
<1>4. SocketsOwned'
  <2>1. ASSUME NEW p \in open' PROVE p \in BoundTo(Calls)'
    <3>1. p \in open /\ p \notin BoundTo(S)
      BY DEF Delete
    <3>2. PICK l \in Legs : port[l] = p /\ p # None
      BY <3>1, BoundToPort DEF SocketsOwned
    <3>3. l[1] \notin S
      BY <3>1, <3>2, BoundToPort
    <3>4. port'[l] = p
      BY <1>1, <3>2, <3>3
    <3> QED BY <3>2, <3>4, LegsPairs DEF BoundTo, LegsOf, Legs, Sides
  <2>2. ASSUME NEW p \in BoundTo(Calls)' PROVE p \in open'
    <3>1. PICK l \in Legs : port'[l] = p /\ p # None
      BY DEF BoundTo, LegsOf, Legs, Sides
    <3>2. port[l] = p /\ l[1] \notin S
      BY <1>1, <3>1
    <3>3. p \in open
      BY <3>1, <3>2, BoundToPort, LegsPairs DEF SocketsOwned
    <3>4. p \notin BoundTo(S)
      BY <3>1, <3>2, BoundToPort DEF PortsDistinct
    <3> QED BY <3>3, <3>4 DEF Delete
  <2> QED BY <2>1, <2>2 DEF SocketsOwned
<1>5. Shape'
  <2>0. \A l \in Legs : port'[l] # None => advertised'[l] # None
    BY <1>1 DEF Shape, Delete, Without
  <2> SUFFICES ASSUME NEW c \in Calls
               PROVE /\ (from'[c] # None) <=> (port'[<<c, "offer">>] # None)
                     /\ port'[<<c, "answer">>] # None => from'[c] # None
    BY <2>0 DEF Shape
  <2>1. /\ port'[<<c, "offer">>] = IF c \in S THEN None ELSE port[<<c, "offer">>]
        /\ port'[<<c, "answer">>] = IF c \in S THEN None ELSE port[<<c, "answer">>]
    BY <1>1, LegsPairs
  <2> QED BY <1>1, <2>1 DEF Shape
<1> QED BY <1>2, <1>3, <1>4, <1>5

---------------------------------------------------------------------------
(* Adding a leg *)

\* A leg of a call whose other port stays open gets a port that is not open.
\* K are the calls that lose their legs before.
LEMMA LegAdded ==
    ASSUME Inv, NEW l \in Legs, NEW K \in SUBSET Calls, NEW p \in Free(open \ BoundTo(K)),
           port' = [m \in Legs |-> IF m = l THEN p ELSE IF m[1] \in K THEN None ELSE port[m]],
           l[1] \in K \/ port[l] = None,
           open' = (open \ BoundTo(K)) \cup {p}
    PROVE /\ port' \in [Legs -> Ports \cup {None}] /\ open' \subseteq Ports
          /\ PortsDistinct' /\ SocketsOwned'
<1> USE DEF Inv
<1>1. p \in Ports /\ p \notin open \ BoundTo(K) /\ p # None
  BY FreePort, ControlNoPort
<1>2. port' \in [Legs -> Ports \cup {None}] /\ open' \subseteq Ports
  BY <1>1 DEF TypeOK
<1>3. ASSUME NEW m \in Legs, m[1] \notin K, port[m] # None
      PROVE port[m] \in open \ BoundTo(K)
  <2>1. port[m] \in open
    BY <1>3, BoundToPort, LegsPairs DEF SocketsOwned
  <2>2. port[m] \notin BoundTo(K)
    BY <1>3, BoundToPort DEF PortsDistinct
  <2> QED BY <2>1, <2>2
<1>4. PortsDistinct'
  <2> SUFFICES ASSUME NEW m \in Legs, NEW n \in Legs, port'[m] # None, port'[m] = port'[n]
               PROVE m = n
    BY DEF PortsDistinct
  <2>1. \A k \in Legs : k # l /\ port'[k] # None => port'[k] = port[k] /\ k[1] \notin K
    OBVIOUS
  <2>2. \A k \in Legs : k # l /\ port'[k] # None => port'[k] # p
    BY <1>1, <1>3, <2>1
  <2>3. port'[l] = p
    OBVIOUS
  <2> QED BY <2>1, <2>2, <2>3 DEF PortsDistinct
<1>5. SocketsOwned'
  <2>1. ASSUME NEW q \in open' PROVE q \in BoundTo(Calls)'
    <3>1. CASE q = p
      BY <1>1, <3>1, LegsPairs DEF BoundTo, LegsOf, Legs, Sides
    <3>2. CASE q \in open \ BoundTo(K)
      <4>1. PICK m \in Legs : port[m] = q /\ q # None
        BY <3>2, BoundToPort DEF SocketsOwned
      <4>2. m[1] \notin K
        BY <3>2, <4>1, BoundToPort
      <4>3. m # l
        BY <4>1, <4>2
      <4>4. port'[m] = q
        BY <4>1, <4>2, <4>3
      <4> QED BY <4>1, <4>4, LegsPairs DEF BoundTo, LegsOf, Legs, Sides
    <3> QED BY <3>1, <3>2
  <2>2. ASSUME NEW q \in BoundTo(Calls)' PROVE q \in open'
    <3>1. PICK m \in Legs : port'[m] = q /\ q # None
      BY DEF BoundTo, LegsOf, Legs, Sides
    <3>2. CASE m = l
      BY <3>1, <3>2
    <3>3. CASE m # l
      BY <1>3, <3>1, <3>3
    <3> QED BY <3>2, <3>3
  <2> QED BY <2>1, <2>2 DEF SocketsOwned
<1> QED BY <1>2, <1>4, <1>5

LEMMA OfferKeeps ==
    ASSUME Inv, NEW c \in Calls, NEW t \in Tags, NEW adv \in Endpoints, Offer(c, t, adv),
           batch' \subseteq open' \cup {Control}, pc' = pc,
           fresh' \subseteq fresh \cup open'
    PROVE Inv'
<1> USE DEF Inv
<1> DEFINE l == <<c, "offer">>
<1>1. l \in Legs /\ l[1] = c
  BY LegsPairs
<1>2. PICK p \in Free(open \ BoundTo({c})) :
          /\ from' = [from EXCEPT ![c] = t]
          /\ port' = With(port, l, {c}, p)
          /\ advertised' = With(advertised, l, {c}, adv)
          /\ observed' = Without(observed, {c})
          /\ idle' = [idle EXCEPT ![c] = 0]
          /\ open' = (open \ BoundTo({c})) \cup {p}
  BY DEF Offer
<1>3. port' = [m \in Legs |-> IF m = l THEN p ELSE IF m[1] \in {c} THEN None ELSE port[m]]
  BY <1>1, <1>2 DEF With, Without
<1>4. /\ port' \in [Legs -> Ports \cup {None}] /\ open' \subseteq Ports
      /\ PortsDistinct' /\ SocketsOwned'
  <2>1. {c} \in SUBSET Calls /\ l[1] \in {c}
    BY <1>1
  <2>2. open' = (open \ BoundTo({c})) \cup {p}
    BY <1>2
  <2> HIDE DEF l
  <2> QED BY <1>1, <1>3, <2>1, <2>2, LegAdded
<1>5. TypeOK'
  <2>1. idle' \in [Calls -> 0 .. Timeout]
    BY <1>2, TimeoutPositive DEF TypeOK
  <2>2. from' \in [Calls -> Tags \cup {None}]
    BY <1>2 DEF TypeOK
  <2>3. advertised' \in [Legs -> Endpoints \cup {None}]
    BY <1>1, <1>2 DEF TypeOK, With, Without
  <2>4. observed' \in [Legs -> Endpoints \cup {None}]
    BY <1>2 DEF TypeOK, Without
  <2> QED BY <1>4, <2>1, <2>2, <2>3, <2>4 DEF TypeOK
<1>6. Shape'
  <2>1. p # None /\ t # None
    BY <1>2, FreePort, ControlNoPort, SetsAssumption
  <2>2. \A d \in Calls : from'[d] = IF d = c THEN t ELSE from[d]
    BY <1>2 DEF TypeOK
  <2>3. ASSUME NEW d \in Calls
        PROVE /\ port'[<<d, "offer">>] = IF d = c THEN p ELSE port[<<d, "offer">>]
              /\ port'[<<d, "answer">>] = IF d = c THEN None ELSE port[<<d, "answer">>]
    <3>1. <<d, "offer">> \in Legs /\ <<d, "answer">> \in Legs
      BY LegsPairs
    <3>2. <<d, "offer">>[1] = d /\ <<d, "answer">>[1] = d
      OBVIOUS
    <3>3. (<<d, "offer">> = l <=> d = c) /\ <<d, "answer">> # l
      OBVIOUS
    <3> QED BY <1>3, <3>1, <3>2, <3>3
  <2>4. \A m \in Legs : port'[m] # None => advertised'[m] # None
    <3>1. \A m \in Legs : advertised'[m] = IF m = l THEN adv ELSE IF m[1] = c THEN None ELSE advertised[m]
      BY <1>1, <1>2 DEF With, Without
    <3> QED BY <1>3, <3>1, SetsAssumption DEF Shape
  <2> QED BY <2>1, <2>2, <2>3, <2>4 DEF Shape
<1> QED BY <1>4, <1>5, <1>6

LEMMA AnswerKeeps ==
    ASSUME Inv, NEW c \in Calls, NEW t \in Tags, NEW adv \in Endpoints, Answer(c, t, adv),
           batch' \subseteq open' \cup {Control}, pc' = pc,
           fresh' \subseteq fresh \cup open'
    PROVE Inv'
<1> USE DEF Inv
<1> DEFINE l == <<c, "answer">>
<1>1. l \in Legs /\ port[l] = None /\ from[c] = t /\ t # None
  BY LegsPairs, SetsAssumption DEF Answer, Answerable
<1>2. PICK p \in Free(open) :
          /\ port' = [port EXCEPT ![l] = p]
          /\ advertised' = [advertised EXCEPT ![l] = adv]
          /\ observed' = [observed EXCEPT ![l] = None]
          /\ open' = open \cup {p}
  BY DEF Answer, AddAnswer
<1>3. BoundTo({}) = {}
  BY DEF BoundTo, LegsOf, Sides
<1>4. port' = [m \in Legs |-> IF m = l THEN p ELSE IF m[1] \in {} THEN None ELSE port[m]]
  BY <1>1, <1>2 DEF TypeOK
<1>5. /\ port' \in [Legs -> Ports \cup {None}] /\ open' \subseteq Ports
      /\ PortsDistinct' /\ SocketsOwned'
  <2>1. p \in Free(open \ BoundTo({})) /\ open' = (open \ BoundTo({})) \cup {p}
    BY <1>2, <1>3
  <2> QED BY <1>1, <1>4, <2>1, LegAdded
<1>6. TypeOK'
  <2>1. idle' \in [Calls -> 0 .. Timeout] /\ from' = from
    BY TimeoutPositive DEF TypeOK, Answer, AddAnswer
  <2>2. /\ advertised' \in [Legs -> Endpoints \cup {None}]
        /\ observed' \in [Legs -> Endpoints \cup {None}]
    BY <1>1, <1>2 DEF TypeOK
  <2> QED BY <1>5, <2>1, <2>2 DEF TypeOK
<1>7. Shape'
  <2>1. from' = from
    BY DEF Answer, AddAnswer
  <2>2. ASSUME NEW d \in Calls
        PROVE /\ port'[<<d, "offer">>] = port[<<d, "offer">>]
              /\ d # c => port'[<<d, "answer">>] = port[<<d, "answer">>]
    <3>1. <<d, "offer">> \in Legs /\ <<d, "answer">> \in Legs
      BY LegsPairs
    <3>2. <<d, "offer">> # l /\ (d # c => <<d, "answer">> # l)
      OBVIOUS
    <3> QED BY <1>2, <3>1, <3>2 DEF TypeOK
  <2>3. \A m \in Legs : port'[m] # None => advertised'[m] # None
    BY <1>1, <1>2, SetsAssumption DEF Shape, TypeOK
  <2> QED BY <1>1, <2>1, <2>2, <2>3 DEF Shape
<1> QED BY <1>5, <1>6, <1>7

---------------------------------------------------------------------------
(* The invariant *)

LEMMA InitInv == Init => Inv
<1> SUFFICES ASSUME Init PROVE Inv
  OBVIOUS
<1>1. TypeOK
  BY TimeoutPositive DEF Init, TypeOK
<1>2. \A l \in Legs : port[l] = None
  BY DEF Init
<1>3. SocketsOwned
  BY <1>2, LegsPairs DEF Init, SocketsOwned, BoundTo, LegsOf, Legs, Sides
<1>4. PortsDistinct
  BY <1>2 DEF PortsDistinct
<1>5. Shape
  BY <1>2, LegsPairs DEF Init, Shape
<1> QED BY <1>1, <1>3, <1>4, <1>5 DEF Inv

\* steps that leave the legs alone
LEMMA QuietKeeps ==
    ASSUME Inv, UNCHANGED <<from, port, advertised, open>>, TypeOK'
    PROVE Inv'
BY DEF Inv, TypeOK, SocketsOwned, BoundTo, LegsOf, PortsDistinct, Shape

LEMMA RoundsEnd == RoundDone /\ [Next]_vars => RoundDone'
<1> SUFFICES ASSUME RoundDone, [Next]_vars PROVE RoundDone'
  OBVIOUS
<1>1. CASE UNCHANGED vars
  BY <1>1 DEF vars, RoundDone
<1>2. CASE Expire \/ Tick \/ Close
  BY <1>2 DEF Expire, Tick, Close, RoundDone
<1>3. CASE \/ \E c \in Calls, t \in Tags, adv \in Endpoints :
                ControlOffer(c, t, adv) \/ ControlAnswer(c, t, adv)
           \/ \E c \in Calls : ControlOfferFails(c) \/ ControlDelete(c)
           \/ ControlNothing
           \/ \E l \in Legs, src \in Endpoints : Media(l, src)
           \/ \E x \in batch : MediaDropped(x)
  BY <1>3 DEF ControlOffer, ControlAnswer, ControlOfferFails, ControlDelete, ControlNothing,
              Media, MediaDropped, Serving, RoundDone
<1>4. CASE \E ready \in SUBSET (open \cup {Control}) : Select(ready)
  BY <1>4 DEF Select, RoundDone
<1> QED BY <1>1, <1>2, <1>3, <1>4 DEF Next, Loop

LEMMA NextInv == Inv /\ RoundDone /\ [Next]_vars => Inv'
<1> SUFFICES ASSUME Inv, RoundDone, [Next]_vars PROVE Inv'
  OBVIOUS
<1>0. TypeOK /\ batch \subseteq open \cup {Control}
  BY DEF Inv, TypeOK
<1>1. ASSUME NEW c \in Calls, NEW t \in Tags, NEW adv \in Endpoints, ControlOffer(c, t, adv)
      PROVE Inv'
  <2>1. pc' = pc /\ fresh' \subseteq fresh \cup open' /\ Offer(c, t, adv)
    BY <1>1 DEF ControlOffer, Serving, Handled
  <2>2. batch' = batch \ (BoundTo({c}) \cup {Control})
    BY <1>1 DEF ControlOffer, Handled
  <2>3. open \ BoundTo({c}) \subseteq open'
    BY <2>1 DEF Offer
  <2>4. batch' \subseteq open' \cup {Control}
    BY <1>0, <2>2, <2>3
  <2> QED BY <2>1, <2>4, OfferKeeps
<1>2. ASSUME NEW c \in Calls, NEW t \in Tags, NEW adv \in Endpoints, ControlAnswer(c, t, adv)
      PROVE Inv'
  <2>1. pc' = pc /\ fresh' \subseteq fresh \cup open' /\ Answer(c, t, adv)
    BY <1>2 DEF ControlAnswer, Serving, Handled
  <2>2. batch' \subseteq batch
    BY <1>2 DEF ControlAnswer, Handled
  <2>3. open \subseteq open'
    BY <2>1 DEF Answer, AddAnswer
  <2>4. batch' \subseteq open' \cup {Control}
    BY <1>0, <2>2, <2>3
  <2> QED BY <2>1, <2>4, AnswerKeeps
<1>3. ASSUME NEW c \in Calls, ControlOfferFails(c) \/ ControlDelete(c)
      PROVE Inv'
  <2>1. /\ pc' = pc /\ fresh' \subseteq fresh \cup open' /\ Delete({c})
        /\ batch' = batch \ (BoundTo({c}) \cup {Control})
    BY <1>3 DEF ControlOfferFails, ControlDelete, Serving, Handled
  <2>2. open' = open \ BoundTo({c})
    BY <2>1 DEF Delete
  <2>3. batch' \subseteq open' \cup {Control}
    BY <1>0, <2>1, <2>2
  <2>4. pc' \in {"select", "handle", "stopped"}
    BY <1>0, <2>1 DEF TypeOK
  <2>5. {c} \in SUBSET Calls
    OBVIOUS
  <2> QED BY <2>1, <2>3, <2>4, <2>5, DeleteKeeps
<1>4. CASE ControlNothing
  <2>1. TypeOK'
    BY <1>0, <1>4 DEF ControlNothing, Serving, Unchanged, Handled, TypeOK
  <2> QED BY <1>4, <2>1, QuietKeeps DEF ControlNothing, Unchanged
<1>5. ASSUME NEW ready \in SUBSET (open \cup {Control}), Select(ready)
      PROVE Inv'
  <2>1. TypeOK'
    BY <1>0, <1>5 DEF Select, Unchanged, TypeOK
  <2> QED BY <1>5, <2>1, QuietKeeps DEF Select, Unchanged
<1>6. ASSUME NEW l \in Legs, NEW src \in Endpoints, Media(l, src)
      PROVE Inv'
  <2>1. l[1] \in Calls
    BY LegsPairs
  <2>2. TypeOK'
    BY <1>0, <1>6, <2>1, TimeoutPositive DEF Media, Serving, TypeOK
  <2> QED BY <1>6, <2>2, QuietKeeps DEF Media
<1>7. ASSUME NEW x \in batch, MediaDropped(x)
      PROVE Inv'
  <2>1. TypeOK'
    BY <1>0, <1>7 DEF MediaDropped, Serving, Unchanged, TypeOK
  <2> QED BY <1>7, <2>1, QuietKeeps DEF MediaDropped, Unchanged
<1>8. CASE Expire
  <2> DEFINE S == {c \in Calls : Expired(c)}
  <2>1. S \in SUBSET Calls /\ Delete(S) /\ batch' = {} /\ pc' = "select" /\ fresh' = {}
    BY <1>8 DEF Expire
  <2> HIDE DEF S
  <2> QED BY <2>1, DeleteKeeps
<1>9. CASE Tick
  <2>1. idle' \in [Calls -> 0 .. Timeout]
    BY <1>0, <1>9, TimeoutPositive DEF Tick, TypeOK
  <2>2. TypeOK'
    BY <1>0, <1>9, <2>1 DEF Tick, TypeOK
  <2> QED BY <1>9, <2>2, QuietKeeps DEF Tick
<1>10. CASE Close
  <2>1. batch' = {}
    BY <1>10 DEF Close, RoundDone
  <2>2. Delete(Calls) /\ pc' = "stopped" /\ fresh' = fresh
    BY <1>10 DEF Close
  <2> QED BY <1>0, <2>1, <2>2, DeleteKeeps
<1>11. CASE UNCHANGED vars
  <2>1. TypeOK'
    BY <1>0, <1>11 DEF vars, TypeOK
  <2> QED BY <1>11, <2>1, QuietKeeps DEF vars
<1> QED
  BY <1>1, <1>2, <1>3, <1>4, <1>5, <1>6, <1>7, <1>8, <1>9, <1>10, <1>11 DEF Next, Loop

LEMMA InvHolds == Spec => [](Inv /\ RoundDone)
<1>1. Init => RoundDone
  BY DEF Init, RoundDone
<1> QED BY <1>1, InitInv, NextInv, RoundsEnd, PTL DEF Spec

---------------------------------------------------------------------------
(* The limit on sessions *)

LEMMA LiveFinite == \A S : S \subseteq Live => IsFiniteSet(S) /\ Cardinality(S) \in Nat
BY SetsAssumption, FS_Subset, FS_CardinalityType DEF Live

\* a step that starts no session keeps the limit
LEMMA FewerSessions ==
    ASSUME Limit, Live' \subseteq Live
    PROVE Limit'
<1>1. IsFiniteSet(Live) /\ Cardinality(Live) \in Nat
  BY LiveFinite
<1>2. Cardinality(Live') <= Cardinality(Live) /\ Cardinality(Live') \in Nat
  BY <1>1, FS_Subset, FS_CardinalityType
<1> QED BY <1>1, <1>2, RangeAssumption DEF Limit

LEMMA NextLimit == Limit /\ TypeOK /\ [Next]_vars => Limit'
<1> SUFFICES ASSUME Limit, TypeOK, [Next]_vars PROVE Limit'
  OBVIOUS
<1>1. ASSUME NEW c \in Calls, NEW t \in Tags, NEW adv \in Endpoints, ControlOffer(c, t, adv)
      PROVE Limit'
  <2>1. Room(c) /\ from' = [from EXCEPT ![c] = t]
    BY <1>1 DEF ControlOffer, Offer
  <2>2. Live' \subseteq (Live \ {c}) \cup {c}
    BY <2>1 DEF Live, TypeOK
  <2>3. IsFiniteSet(Live \ {c}) /\ Cardinality(Live \ {c}) \in Nat
    BY LiveFinite
  <2>4. /\ IsFiniteSet((Live \ {c}) \cup {c})
        /\ Cardinality((Live \ {c}) \cup {c}) = Cardinality(Live \ {c}) + 1
    BY <2>3, FS_AddElement
  <2>5. Cardinality(Live') <= Cardinality((Live \ {c}) \cup {c}) /\ Cardinality(Live') \in Nat
    BY <2>2, <2>4, FS_Subset, FS_CardinalityType
  <2> QED BY <2>1, <2>3, <2>4, <2>5, RangeAssumption DEF Room, Limit
<1>2. CASE UNCHANGED from
  BY <1>2, FewerSessions DEF Live
<1>3. ASSUME NEW S, Delete(S)
      PROVE Limit'
  <2>1. Live' \subseteq Live
    BY <1>3 DEF Delete, Live
  <2> QED BY <2>1, FewerSessions
<1>4. ASSUME NEW c \in Calls, NEW t \in Tags, NEW adv \in Endpoints, ControlAnswer(c, t, adv)
      PROVE UNCHANGED from
  BY <1>4 DEF ControlAnswer, Answer, AddAnswer
<1>5. ASSUME NEW c \in Calls, ControlOfferFails(c) \/ ControlDelete(c) PROVE Limit'
  BY <1>3, <1>5 DEF ControlOfferFails, ControlDelete
<1>6. ASSUME NEW l \in Legs, NEW src \in Endpoints, Media(l, src) PROVE UNCHANGED from
  BY <1>6 DEF Media
<1>7. ASSUME \/ ControlNothing \/ Tick \/ UNCHANGED vars
             \/ \E ready \in SUBSET (open \cup {Control}) : Select(ready)
             \/ \E x \in batch : MediaDropped(x)
      PROVE UNCHANGED from
  BY <1>7 DEF ControlNothing, Tick, vars, Select, MediaDropped, Unchanged
<1>8. CASE Expire \/ Close
  BY <1>3, <1>8 DEF Expire, Close
<1> QED BY <1>1, <1>2, <1>4, <1>5, <1>6, <1>7, <1>8 DEF Next, Loop

LEMMA InitLimit == Init => Limit
<1> SUFFICES ASSUME Init PROVE Limit
  OBVIOUS
<1>1. Live = {}
  BY DEF Init, Live
<1> QED BY <1>1, FS_EmptySet, RangeAssumption DEF Limit

---------------------------------------------------------------------------
(* The theorems *)

\* Every variable of the relay keeps its type, whatever is received: in
\* particular every event left of a round is of a socket that is still open.
THEOREM TypeCorrect == Spec => []TypeOK
BY InvHolds, PTL DEF Inv

\* No port leaks and no leg loses its socket, for any number of calls.
THEOREM SocketsOwnedHolds == Spec => []SocketsOwned
BY InvHolds, PTL DEF Inv

\* Two legs never have the same port, however many are replaced and expire.
THEOREM PortsDistinctHolds == Spec => []PortsDistinct
BY InvHolds, PTL DEF Inv

\* Sessions are whole, every leg has its party's address, and there are never
\* more of them than the limit.
THEOREM SessionsWholeHolds == Spec => []SessionsWhole
<1>1. Spec => []Limit
  <2>1. Limit /\ TypeOK /\ [Next]_vars => Limit'
    BY NextLimit
  <2> QED BY <2>1, InitLimit, TypeCorrect, PTL DEF Spec
<1>2. Inv /\ Limit => SessionsWhole
  BY DEF Inv, Shape, Limit, SessionsWhole
<1> QED BY <1>1, <1>2, InvHolds, PTL

---------------------------------------------------------------------------
(* Action properties *)

LEMMA LatchStep ==
    TypeOK /\ [Next]_vars => \A l \in Legs : observed[l] # None /\ observed'[l] # None
                                               => observed'[l] = observed[l]
<1> SUFFICES ASSUME TypeOK, [Next]_vars, NEW l \in Legs, observed[l] # None, observed'[l] # None
             PROVE observed'[l] = observed[l]
  OBVIOUS
<1>1. ASSUME NEW S, observed' = Without(observed, S) PROVE observed'[l] = observed[l]
  BY <1>1 DEF Without
<1>2. ASSUME NEW c \in Calls, NEW t \in Tags, NEW adv \in Endpoints, ControlOffer(c, t, adv)
      PROVE observed'[l] = observed[l]
  <2>1. observed' = Without(observed, {c})
    BY <1>2 DEF ControlOffer, Offer
  <2> QED BY <1>1, <2>1
<1>3. ASSUME NEW c \in Calls, NEW t \in Tags, NEW adv \in Endpoints, ControlAnswer(c, t, adv)
      PROVE observed'[l] = observed[l]
  BY <1>3 DEF ControlAnswer, Answer, AddAnswer, TypeOK
<1>4. ASSUME NEW m \in Legs, NEW src \in Endpoints, Media(m, src)
      PROVE observed'[l] = observed[l]
  BY <1>4 DEF Media, Latched, TypeOK
<1>5. ASSUME NEW c \in Calls, ControlOfferFails(c) \/ ControlDelete(c)
      PROVE observed'[l] = observed[l]
  <2>1. observed' = Without(observed, {c})
    BY <1>5 DEF ControlOfferFails, ControlDelete, Delete
  <2> QED BY <1>1, <2>1
<1>6. CASE Expire \/ Close
  <2>1. \E S : observed' = Without(observed, S)
    BY <1>6 DEF Expire, Close, Delete
  <2> QED BY <1>1, <2>1
<1>7. ASSUME \/ ControlNothing \/ Tick \/ UNCHANGED vars
             \/ \E ready \in SUBSET (open \cup {Control}) : Select(ready)
             \/ \E x \in batch : MediaDropped(x)
      PROVE observed'[l] = observed[l]
  BY <1>7 DEF ControlNothing, Tick, vars, Select, MediaDropped, Unchanged
<1> QED BY <1>2, <1>3, <1>4, <1>5, <1>6, <1>7 DEF Next, Loop

\* The source a leg has latched is never replaced while the leg lives.
THEOREM LatchKeptHolds == Spec => LatchKept
<1>1. TypeOK /\ [Next]_vars => [\A l \in Legs : observed[l] # None /\ observed'[l] # None
                                                  => observed'[l] = observed[l]]_vars
  BY LatchStep
<1> QED BY <1>1, TypeCorrect, PTL DEF Spec, LatchKept

AnswerStays(c) ==
    LET l == <<c, "answer">> IN
    port[l] # None => \/ port'[l] = port[l] /\ advertised'[l] = advertised[l]
                      \/ port'[l] = None

LEMMA AnswerStep == TypeOK /\ [Next]_vars => \A c \in Calls : AnswerStays(c)
<1> SUFFICES ASSUME TypeOK, [Next]_vars, NEW d \in Calls PROVE AnswerStays(d)
  OBVIOUS
<1> DEFINE l == <<d, "answer">>
<1>0. l \in Legs /\ l[1] = d
  BY LegsPairs
<1>1. ASSUME NEW S, port' = Without(port, S), advertised' = Without(advertised, S)
      PROVE AnswerStays(d)
  BY <1>0, <1>1 DEF Without, AnswerStays
<1>2. ASSUME NEW c \in Calls, NEW t \in Tags, NEW adv \in Endpoints, ControlOffer(c, t, adv)
      PROVE AnswerStays(d)
  <2>1. PICK p \in Ports : /\ port' = With(port, <<c, "offer">>, {c}, p)
                           /\ advertised' = With(advertised, <<c, "offer">>, {c}, adv)
    BY <1>2, FreePort DEF ControlOffer, Offer
  <2>2. l # <<c, "offer">>
    OBVIOUS
  <2> HIDE DEF l
  <2>3. port'[l] = Without(port, {c})[l] /\ advertised'[l] = Without(advertised, {c})[l]
    BY <1>0, <2>1, <2>2 DEF With, Without
  <2>4. \/ port'[l] = port[l] /\ advertised'[l] = advertised[l]
        \/ port'[l] = None
    BY <1>0, <2>3 DEF Without
  <2> QED BY <2>4 DEF AnswerStays, l
<1>3. ASSUME NEW c \in Calls, NEW t \in Tags, NEW adv \in Endpoints, ControlAnswer(c, t, adv)
      PROVE AnswerStays(d)
  <2>1. Answerable(c, t) /\ \E p : /\ port' = [port EXCEPT ![<<c, "answer">>] = p]
                                   /\ advertised' = [advertised EXCEPT ![<<c, "answer">>] = adv]
    BY <1>3 DEF ControlAnswer, Answer, AddAnswer
  <2>2. CASE d = c
    BY <2>1, <2>2 DEF Answerable, AnswerStays
  <2>3. CASE d # c
    <3>1. l # <<c, "answer">>
      BY <2>3
    <3> HIDE DEF l
    <3>2. port'[l] = port[l] /\ advertised'[l] = advertised[l]
      BY <1>0, <2>1, <3>1 DEF TypeOK
    <3> QED BY <3>2 DEF AnswerStays, l
  <2> QED BY <2>2, <2>3
<1>4. ASSUME NEW m \in Legs, NEW src \in Endpoints, Media(m, src)
      PROVE AnswerStays(d)
  BY <1>4 DEF Media, AnswerStays
<1>5. ASSUME NEW c \in Calls, ControlOfferFails(c) \/ ControlDelete(c)
      PROVE AnswerStays(d)
  <2>1. port' = Without(port, {c}) /\ advertised' = Without(advertised, {c})
    BY <1>5 DEF ControlOfferFails, ControlDelete, Delete
  <2> QED BY <1>1, <2>1
<1>6. CASE Expire \/ Close
  <2>1. \E S : port' = Without(port, S) /\ advertised' = Without(advertised, S)
    BY <1>6 DEF Expire, Close, Delete
  <2> QED BY <1>1, <2>1
<1>7. ASSUME \/ ControlNothing \/ Tick \/ UNCHANGED vars
             \/ \E ready \in SUBSET (open \cup {Control}) : Select(ready)
             \/ \E x \in batch : MediaDropped(x)
      PROVE AnswerStays(d)
  BY <1>7 DEF ControlNothing, Tick, vars, Select, MediaDropped, Unchanged, AnswerStays
<1> QED BY <1>2, <1>3, <1>4, <1>5, <1>6, <1>7 DEF Next, Loop

\* A second answer of a dialog never moves the answered leg.
THEOREM AnswerOnceHolds == Spec => AnswerOnce
<1>1. TypeOK /\ [Next]_vars => [\A c \in Calls : LET l == <<c, "answer">> IN
          port[l] # None => \/ port'[l] = port[l] /\ advertised'[l] = advertised[l]
                            \/ port'[l] = None]_vars
  BY AnswerStep DEF AnswerStays
<1> QED BY <1>1, TypeCorrect, PTL DEF Spec, AnswerOnce

---------------------------------------------------------------------------
(* The sockets of a round *)

\* the command of a round takes the sockets it closed out of the rest of the
\* round before a port can be bound again
LEMMA HandledFresh ==
    ASSUME FreshNotServed, batch \subseteq open \cup {Control}, NEW closed, Handled(closed)
    PROVE FreshNotServed'
<1> SUFFICES ASSUME NEW x \in batch', x \in fresh' PROVE FALSE
  BY DEF FreshNotServed
<1>1. x \in batch /\ x \notin closed /\ x # Control
  BY DEF Handled
<1>2. x \in open \ closed /\ x \notin fresh
  BY <1>1 DEF FreshNotServed
<1> QED BY <1>2 DEF Handled

LEMMA FreshStep == TypeOK /\ RoundDone /\ FreshNotServed /\ [Next]_vars => FreshNotServed'
<1> SUFFICES ASSUME TypeOK, RoundDone, FreshNotServed, [Next]_vars PROVE FreshNotServed'
  OBVIOUS
<1>0. batch \subseteq open \cup {Control} /\ fresh \subseteq Ports
  BY DEF TypeOK
<1>1. CASE \/ \E c \in Calls, t \in Tags, adv \in Endpoints :
                 ControlOffer(c, t, adv) \/ ControlAnswer(c, t, adv)
           \/ \E c \in Calls : ControlOfferFails(c) \/ ControlDelete(c)
           \/ ControlNothing
  <2>1. \E closed : Handled(closed)
    BY <1>1 DEF ControlOffer, ControlAnswer, ControlOfferFails, ControlDelete, ControlNothing
  <2> QED BY <1>0, <2>1, HandledFresh
<1>2. CASE \E ready \in SUBSET (open \cup {Control}) : Select(ready)
  BY <1>2 DEF Select, RoundDone, FreshNotServed
<1>3. CASE \/ \E l \in Legs, src \in Endpoints : Media(l, src)
           \/ \E x \in batch : MediaDropped(x)
           \/ Expire \/ Tick \/ Close \/ UNCHANGED vars
  BY <1>3 DEF Media, MediaDropped, Expire, Tick, Close, vars, FreshNotServed
<1> QED BY <1>1, <1>2, <1>3 DEF Next, Loop

\* Whatever a round's command closes and opens, no event of that round reaches
\* a socket that was opened in it, though the port numbers are used again.
THEOREM FreshNotServedHolds == Spec => []FreshNotServed
<1>1. Init => FreshNotServed
  BY DEF Init, FreshNotServed
<1>2. Inv => TypeOK
  BY DEF Inv
<1> QED BY <1>1, <1>2, FreshStep, InvHolds, PTL DEF Spec

---------------------------------------------------------------------------
(* Datagrams *)

\* What a served datagram does to the sessions is what one command does; the
\* decoder and the SDP only choose which.
LEMMA PayloadStep ==
  ASSUME NEW d \in Datagrams, HandlePayload(d, Decoding[d])
  PROVE  Next
<1> DEFINE cmd == Decoding[d]
           description == parse_sdp(SdpOf(cmd))
<1>1. /\ Operation(cmd) \in {"delete", "offer", "answer"} => CallId(cmd) \in Calls
      /\ Operation(cmd) \in {"offer", "answer"} => FromTag(cmd) \in Tags
      /\ Operation(cmd) \in {"offer", "answer"} /\ description # Error
            => description.address \in Endpoints
  BY DatagramsAssumption
<1>2. CASE Ping(d, cmd) \/ Refused(d, cmd)
  BY <1>2 DEF Ping, Refused, Next
<1>3. CASE DeleteCommand(d, cmd)
  <2>1. Operation(cmd) = "delete" /\ ControlDelete(CallId(cmd))
    BY <1>3 DEF DeleteCommand
  <2> QED BY <1>1, <2>1 DEF Next
<1>4. CASE OfferCommand(d, cmd)
  <2>1. /\ Operation(cmd) = "offer"
        /\ \/ description # Error /\ ControlOffer(CallId(cmd), FromTag(cmd), description.address)
           \/ ControlOfferFails(CallId(cmd))
    BY <1>4 DEF OfferCommand
  <2> QED BY <1>1, <2>1 DEF Next
<1>5. CASE AnswerCommand(d, cmd)
  <2>1. /\ Operation(cmd) = "answer"
        /\ \/ description # Error /\ ControlAnswer(CallId(cmd), FromTag(cmd), description.address)
           \/ ControlNothing
    BY <1>5 DEF AnswerCommand
  <2> QED BY <1>1, <2>1 DEF Next
<1> QED BY <1>2, <1>3, <1>4, <1>5 DEF HandlePayload

LEMMA ControlStep == [ControlNext]_controlVars => [Next]_vars
<1>1. ASSUME NEW d \in Datagrams, ControlDatagram(d) PROVE Next
  <2>1. CASE Ignored(d)
    BY <2>1 DEF Ignored, Next
  <2>2. CASE HandlePayload(d, Decoding[d])
    BY <2>2, PayloadStep
  <2> QED BY <1>1, <2>1, <2>2 DEF ControlDatagram
<1>2. ASSUME Loop \/ Tick \/ Close PROVE Next
  BY <1>2 DEF Next
<1>3. UNCHANGED controlVars => UNCHANGED vars
  BY DEF controlVars
<1> QED BY <1>1, <1>2, <1>3 DEF ControlNext

\* Whatever arrives on the control socket, well formed, damaged or of a stranger,
\* the open sockets are those of the legs, no two legs share a port, sessions are
\* whole and within the limit, no event reaches a socket of its own round, and a
\* latched source and an answered leg stay.
THEOREM ControlKeepsSessions ==
    ControlSpec => /\ [](SocketsOwned /\ PortsDistinct /\ SessionsWhole /\ FreshNotServed)
                   /\ LatchKept /\ AnswerOnce
<1>1. ControlSpec => Spec
  BY ControlStep, PTL DEF ControlSpec, ControlInit, Spec
<1> QED BY <1>1, SocketsOwnedHolds, PortsDistinctHolds, SessionsWholeHolds, LatchKeptHolds,
           FreshNotServedHolds, AnswerOnceHolds, PTL

---------------------------------------------------------------------------
(* Induction and the least element, for sets of numbers *)

\* a set of numbers has a least one
LEMMA LeastOf ==
    ASSUME NEW S \in SUBSET Nat, S # {}
    PROVE \E i \in S : \A j \in S : i <= j
<1> DEFINE R == {ss \in Nat \X Nat : ss[1] < ss[2]}
<1>1. IsWellFoundedOn(R, Nat)
  BY NatLessThanWellFounded, Zenon DEF OpToRel
<1>2. \E i \in S : \A j \in S : ~(<<j, i>> \in R)
  <2> HIDE DEF R
  <2> QED BY <1>1, WFMin
<1>3. \A i, j \in Nat : j < i => <<j, i>> \in R
  OBVIOUS
<1>4. \A i, j \in Nat : i <= j \/ j < i
  OBVIOUS
<1> HIDE DEF R
<1> QED BY <1>2, <1>3, <1>4

\* induction, for a set instead of a predicate
LEMMA EveryNumber ==
    ASSUME NEW T, 0 \in T, \A n \in Nat : n \in T => n + 1 \in T
    PROVE \A n \in Nat : n \in T
<1> SUFFICES ASSUME Nat \ T # {} PROVE FALSE
  OBVIOUS
<1>1. PICK i \in Nat \ T : \A j \in Nat \ T : i <= j
  BY LeastOf
<1>2. i # 0 /\ i - 1 \in Nat /\ i - 1 \in T
  BY <1>1
<1> QED BY <1>1, <1>2

---------------------------------------------------------------------------
(* The recursion of the decoder is well founded *)

\* f satisfies the equation that defines the function of _bdecode
DecodeFn(data, f) == f = [x \in Place(data) |-> DecodeAt(data, f, x[1], x[2], x[3])]

\* a call is made from a place only for one of a smaller rank: further on in the
\* data, or the value at the place itself
Rank(data, x) == 2 * (Len(data) + 1 - x[2]) + (IF x[1] = "value" THEN 0 ELSE 1)

\* what is decoded at a place ends after it and within the data
Progress(data, r, i) == r = Error \/ (r.next \in Nat /\ i < r.next /\ r.next <= Len(data) + 1)

LEMMA NotError ==
    \A v, n : Decoded(v, n) # Error /\ Decoded(v, n).val = v /\ Decoded(v, n).next = n
BY DEF Decoded, Error

LEMMA PlaceFields ==
    ASSUME NEW data, NEW x \in Place(data), Len(data) \in Nat, MaxDepth \in Nat
    PROVE /\ x[1] \in {"value", "items", "entries"}
          /\ x[2] \in 1 .. (Len(data) + 1) /\ x[3] \in 0 .. (MaxDepth + 1)
          /\ x = <<x[1], x[2], x[3]>>
          /\ Rank(data, x) \in Nat
BY DEF Place, Rank

LEMMA MarksDiffer ==
    /\ Mark("l") # Mark("d") /\ Mark("l") # Mark("e") /\ Mark("d") # Mark("e")
    /\ \A m : DOMAIN Mark(m) = {"mark"}
BY DEF Mark

LEMMA DecodeList ==
    ASSUME NEW data, Len(data) \in Nat, MaxDepth \in Nat, NEW i \in 1 .. Len(data),
           NEW depth \in 0 .. MaxDepth, NEW At, NEW what, what = "value", data[i] = Mark("l")
    PROVE DecodeAt(data, At, what, i, depth) = ListOf(At[<<"items", i + 1, depth>>])
BY MarksDiffer DEF DecodeAt

LEMMA DecodeDict ==
    ASSUME NEW data, Len(data) \in Nat, MaxDepth \in Nat, NEW i \in 1 .. Len(data),
           NEW depth \in 0 .. MaxDepth, NEW At, NEW what, what = "value", data[i] = Mark("d")
    PROVE DecodeAt(data, At, what, i, depth) = DictOf(At[<<"entries", i + 1, depth>>])
BY MarksDiffer DEF DecodeAt

LEMMA DecodeAtom ==
    ASSUME NEW data, Len(data) \in Nat, MaxDepth \in Nat, NEW i \in 1 .. Len(data),
           NEW depth \in 0 .. MaxDepth, NEW At, NEW what, what = "value",
           data[i] # Mark("l"), data[i] # Mark("d")
    PROVE DecodeAt(data, At, what, i, depth) =
            IF DOMAIN data[i] = {"mark"} THEN Error ELSE Decoded(data[i], i + 1)
BY DEF DecodeAt

LEMMA DecodeEnd ==
    ASSUME NEW data, Len(data) \in Nat, MaxDepth \in Nat, NEW i \in 1 .. Len(data),
           NEW depth \in 0 .. MaxDepth, NEW At, NEW what \in {"items", "entries"},
           data[i] = Mark("e")
    PROVE DecodeAt(data, At, what, i, depth) = Decoded(<<>>, i + 1)
BY MarksDiffer DEF DecodeAt

LEMMA DecodeItem ==
    ASSUME NEW data, Len(data) \in Nat, MaxDepth \in Nat, NEW i \in 1 .. Len(data),
           NEW depth \in 0 .. MaxDepth, NEW At, NEW what, what = "items", data[i] # Mark("e")
    PROVE DecodeAt(data, At, what, i, depth) =
            LET item == At[<<"value", i, depth + 1>>] IN
            ItemThen(item, At[<<"items", item.next, depth>>])
BY DEF DecodeAt

LEMMA DecodeEntry ==
    ASSUME NEW data, Len(data) \in Nat, MaxDepth \in Nat, NEW i \in 1 .. Len(data),
           NEW depth \in 0 .. MaxDepth, NEW At, NEW what, what = "entries", data[i] # Mark("e")
    PROVE DecodeAt(data, At, what, i, depth) =
            LET key == At[<<"value", i, depth + 1>>]
                item == At[<<"value", key.next, depth + 1>>]
            IN EntryThen(key, item, At[<<"entries", item.next, depth>>])
BY DEF DecodeAt

LEMMA PartsProgress ==
    ASSUME NEW data, Len(data) \in Nat, NEW i \in Nat, NEW j \in Nat, i < j, NEW r, Progress(data, r, j)
    PROVE /\ Progress(data, ListOf(r), i) /\ Progress(data, DictOf(r), i)
          /\ \A item : Progress(data, ItemThen(item, r), i)
          /\ \A key, item : Progress(data, EntryThen(key, item, r), i)
BY NotError DEF Progress, ListOf, DictOf, ItemThen, EntryThen

LEMMA ErrorParts ==
    /\ \A rest : ItemThen(Error, rest) = Error
    /\ \A item, rest : EntryThen(Error, item, rest) = Error
    /\ \A key, rest : EntryThen(key, Error, rest) = Error
BY DEF ItemThen, EntryThen

\* what is decoded at a place depends on places of smaller rank, and makes
\* progress if those do
LEMMA StepCongruent ==
    ASSUME NEW data, NEW f, NEW g, NEW x \in Place(data), Len(data) \in Nat, MaxDepth \in Nat,
           \A y \in Place(data) : Rank(data, y) < Rank(data, x) =>
                f[y] = g[y] /\ Progress(data, f[y], y[2])
    PROVE /\ DecodeAt(data, f, x[1], x[2], x[3]) = DecodeAt(data, g, x[1], x[2], x[3])
          /\ Progress(data, DecodeAt(data, f, x[1], x[2], x[3]), x[2])
<1>1. PICK w \in {"value", "items", "entries"}, i \in 1 .. (Len(data) + 1), d \in 0 .. (MaxDepth + 1) :
         x = <<w, i, d>>
  BY PlaceFields
<1> SUFFICES /\ DecodeAt(data, f, w, i, d) = DecodeAt(data, g, w, i, d)
             /\ Progress(data, DecodeAt(data, f, w, i, d), i)
  BY <1>1
<1>2. CASE i > Len(data) \/ d > MaxDepth
  BY <1>2 DEF DecodeAt, Progress
<1>3. CASE ~(i > Len(data) \/ d > MaxDepth)
  <2>1. i \in 1 .. Len(data) /\ d \in 0 .. MaxDepth /\ d + 1 \in 0 .. (MaxDepth + 1)
    BY <1>3
  <2>2. ASSUME NEW v \in {"value", "items", "entries"}, NEW j \in (i + 1) .. (Len(data) + 1),
               NEW e \in 0 .. (MaxDepth + 1)
        PROVE /\ f[<<v, j, e>>] = g[<<v, j, e>>] /\ Progress(data, f[<<v, j, e>>], j)
    <3>1. <<v, j, e>> \in Place(data)
      BY <2>1 DEF Place
    <3>2. Rank(data, <<v, j, e>>) < Rank(data, x)
      BY <1>1, <2>1 DEF Rank
    <3> QED BY <3>1, <3>2
  <2>3. ASSUME NEW e \in 0 .. (MaxDepth + 1), w # "value"
        PROVE /\ f[<<"value", i, e>>] = g[<<"value", i, e>>] /\ Progress(data, f[<<"value", i, e>>], i)
    <3>1. <<"value", i, e>> \in Place(data)
      BY <2>1 DEF Place
    <3>2. Rank(data, <<"value", i, e>>) < Rank(data, x)
      BY <1>1, <2>1, <2>3 DEF Rank
    <3> QED BY <3>1, <3>2
  <2>4. CASE w = "value"
    <3>1. i + 1 \in (i + 1) .. (Len(data) + 1) /\ i \in Nat /\ i + 1 \in Nat /\ i < i + 1
      BY <2>1
    <3>2. CASE data[i] = Mark("l")
      <4> DEFINE r == f[<<"items", i + 1, d>>]
      <4>1. r = g[<<"items", i + 1, d>>] /\ Progress(data, r, i + 1)
        BY <3>1, <2>2
      <4>2. DecodeAt(data, f, w, i, d) = ListOf(r) /\ DecodeAt(data, g, w, i, d) = ListOf(r)
        BY <2>1, <2>4, <3>2, <4>1, DecodeList
      <4> HIDE DEF r
      <4> QED BY <3>1, <4>1, <4>2, PartsProgress
    <3>3. CASE data[i] = Mark("d")
      <4> DEFINE r == f[<<"entries", i + 1, d>>]
      <4>1. r = g[<<"entries", i + 1, d>>] /\ Progress(data, r, i + 1)
        BY <3>1, <2>2
      <4>2. DecodeAt(data, f, w, i, d) = DictOf(r) /\ DecodeAt(data, g, w, i, d) = DictOf(r)
        BY <2>1, <2>4, <3>3, <4>1, DecodeDict
      <4> HIDE DEF r
      <4> QED BY <3>1, <4>1, <4>2, PartsProgress
    <3>4. CASE data[i] \notin {Mark("l"), Mark("d")}
      <4>1. \A h : DecodeAt(data, h, w, i, d) = IF DOMAIN data[i] = {"mark"} THEN Error ELSE Decoded(data[i], i + 1)
        BY <2>1, <2>4, <3>4, DecodeAtom
      <4> QED BY <2>1, <4>1, NotError DEF Progress
    <3> QED BY <3>2, <3>3, <3>4
  <2>5. CASE w # "value" /\ data[i] = Mark("e")
    <3>1. \A h : DecodeAt(data, h, w, i, d) = Decoded(<<>>, i + 1)
      BY <2>1, <2>5, DecodeEnd
    <3> QED BY <2>1, <3>1, NotError DEF Progress
  <2>6. CASE w = "items" /\ data[i] # Mark("e")
    <3> DEFINE item == f[<<"value", i, d + 1>>]
               rest(h) == h[<<"items", item.next, d>>]
    <3>1. item = g[<<"value", i, d + 1>>] /\ Progress(data, item, i)
      BY <2>1, <2>3, <2>6
    <3>2. /\ DecodeAt(data, f, w, i, d) = ItemThen(item, rest(f))
          /\ DecodeAt(data, g, w, i, d) = ItemThen(item, rest(g))
      BY <2>1, <2>6, <3>1, DecodeItem
    <3>3. CASE item = Error
      BY <3>2, <3>3, ErrorParts DEF Progress
    <3>4. CASE item # Error
      <4>1. item.next \in (i + 1) .. (Len(data) + 1)
        BY <2>1, <3>1, <3>4 DEF Progress
      <4>2. rest(f) = rest(g) /\ Progress(data, rest(f), item.next)
        BY <2>1, <2>2, <4>1
      <4> HIDE DEF item, rest
      <4> QED BY <2>1, <3>2, <4>1, <4>2, PartsProgress
    <3> QED BY <3>3, <3>4
  <2>7. CASE w = "entries" /\ data[i] # Mark("e")
    <3> DEFINE key == f[<<"value", i, d + 1>>]
               item(h) == h[<<"value", key.next, d + 1>>]
               rest(h) == h[<<"entries", item(h).next, d>>]
    <3>1. key = g[<<"value", i, d + 1>>] /\ Progress(data, key, i)
      BY <2>1, <2>3, <2>7
    <3>2. /\ DecodeAt(data, f, w, i, d) = EntryThen(key, item(f), rest(f))
          /\ DecodeAt(data, g, w, i, d) = EntryThen(key, item(g), rest(g))
      BY <2>1, <2>7, <3>1, DecodeEntry
    <3>3. CASE key = Error
      BY <3>2, <3>3, ErrorParts DEF Progress
    <3>4. CASE key # Error
      <4>1. key.next \in (i + 1) .. (Len(data) + 1)
        BY <2>1, <3>1, <3>4 DEF Progress
      <4>2. item(f) = item(g) /\ Progress(data, item(f), key.next)
        BY <2>1, <2>2, <4>1
      <4>3. CASE item(f) = Error
        BY <3>2, <4>2, <4>3, ErrorParts DEF Progress
      <4>4. CASE item(f) # Error
        <5>1. item(f).next \in (i + 1) .. (Len(data) + 1)
          BY <2>1, <4>1, <4>2, <4>4 DEF Progress
        <5>2. rest(f) = rest(g) /\ Progress(data, rest(f), item(f).next)
          BY <2>1, <2>2, <4>2, <5>1
        <5> HIDE DEF item, rest, key
        <5> QED BY <2>1, <3>2, <4>2, <5>1, <5>2, PartsProgress
      <4> QED BY <4>3, <4>4
    <3> QED BY <3>3, <3>4
  <2> QED BY <2>4, <2>5, <2>6, <2>7
<1> QED BY <1>2, <1>3

\* so there is a function that satisfies the equation, built up rank by rank
LEMMA DecodeExists ==
    ASSUME NEW data, Len(data) \in Nat, MaxDepth \in Nat
    PROVE \E f : DecodeFn(data, f) /\ \A x \in Place(data) : Progress(data, f[x], x[2])
<1> DEFINE Upto(n, f) ==
             \A x \in Place(data) : Rank(data, x) < n =>
                f[x] = DecodeAt(data, f, x[1], x[2], x[3]) /\ Progress(data, f[x], x[2])
           T == {n \in Nat : \E f : Upto(n, f)}
<1>1. 0 \in T
  BY PlaceFields
<1>2. ASSUME NEW n \in Nat, n \in T PROVE n + 1 \in T
  <2>1. PICK f : Upto(n, f)
    BY <1>2
  <2> DEFINE g == [x \in Place(data) |-> IF Rank(data, x) = n THEN DecodeAt(data, f, x[1], x[2], x[3]) ELSE f[x]]
  <2>2. \A x \in Place(data) : Rank(data, x) < n => g[x] = f[x] /\ Progress(data, g[x], x[2])
    BY <2>1, PlaceFields
  <2>3. \A x \in Place(data) : Rank(data, x) = n => g[x] = DecodeAt(data, f, x[1], x[2], x[3])
    OBVIOUS
  <2> HIDE DEF g
  <2>4. ASSUME NEW x \in Place(data), Rank(data, x) < n + 1
        PROVE g[x] = DecodeAt(data, g, x[1], x[2], x[3]) /\ Progress(data, g[x], x[2])
    <3>1. Rank(data, x) \in Nat
      BY PlaceFields
    <3>2. \A y \in Place(data) : Rank(data, y) < Rank(data, x) =>
             f[y] = g[y] /\ Progress(data, f[y], y[2])
      <4>1. \A y \in Place(data) : Rank(data, y) \in Nat
        BY PlaceFields
      <4> QED BY <2>2, <2>4, <3>1, <4>1
    <3>3. /\ DecodeAt(data, f, x[1], x[2], x[3]) = DecodeAt(data, g, x[1], x[2], x[3])
          /\ Progress(data, DecodeAt(data, f, x[1], x[2], x[3]), x[2])
      BY <3>2, StepCongruent
    <3>4. g[x] = DecodeAt(data, f, x[1], x[2], x[3])
      <4>1. CASE Rank(data, x) = n
        BY <4>1, <2>3
      <4>2. CASE Rank(data, x) < n
        BY <4>2, <2>1, <2>2
      <4> QED BY <4>1, <4>2, <3>1, <2>4
    <3> QED BY <3>3, <3>4
  <2>5. Upto(n + 1, g)
    BY <2>4
  <2> QED BY <2>5
<1> HIDE DEF T
<1>3. \A n \in Nat : n \in T
  BY <1>1, <1>2, EveryNumber
<1>4. PICK f : Upto(2 * Len(data) + 2, f)
  <2>1. 2 * Len(data) + 2 \in T
    BY <1>3
  <2> QED BY <2>1 DEF T
<1>5. \A x \in Place(data) : f[x] = DecodeAt(data, f, x[1], x[2], x[3]) /\ Progress(data, f[x], x[2])
  <2>1. \A x \in Place(data) : Rank(data, x) < 2 * Len(data) + 2
    BY PlaceFields DEF Rank
  <2> QED BY <2>1, <1>4
<1> DEFINE h == [x \in Place(data) |-> f[x]]
<1>6. \A x \in Place(data) : h[x] = f[x]
  OBVIOUS
<1> HIDE DEF h
<1>7. \A x \in Place(data) : h[x] = DecodeAt(data, h, x[1], x[2], x[3]) /\ Progress(data, h[x], x[2])
  BY <1>5, <1>6, StepCongruent
<1>8. DecodeFn(data, h)
  <2>1. h = [x \in Place(data) |-> h[x]]
    BY DEF h
  <2> QED BY <1>7, <2>1 DEF DecodeFn
<1> QED BY <1>7, <1>8
\* _bdecode is such a function, at the start of the data
LEMMA DecodeUnfolds ==
    ASSUME NEW data, Len(data) \in Nat, MaxDepth \in Nat
    PROVE \E f : /\ \A x \in Place(data) : f[x] = DecodeAt(data, f, x[1], x[2], x[3])
                 /\ \A x \in Place(data) : Progress(data, f[x], x[2])
                 /\ _bdecode(data) = f[<<"value", 1, 0>>]
<1> DEFINE f == CHOOSE g : DecodeFn(data, g)
<1>1. DecodeFn(data, f)
  BY DecodeExists
<1>2. _bdecode(data) = f[<<"value", 1, 0>>]
  BY DEF _bdecode, DecodeFn
<1> HIDE DEF f
<1>3. \A x \in Place(data) : f[x] = DecodeAt(data, f, x[1], x[2], x[3])
  BY <1>1 DEF DecodeFn
<1> DEFINE T == {n \in Nat : \A x \in Place(data) : Rank(data, x) < n => Progress(data, f[x], x[2])}
<1>4. 0 \in T
  BY PlaceFields
<1>5. ASSUME NEW n \in Nat, n \in T PROVE n + 1 \in T
  <2> SUFFICES ASSUME NEW x \in Place(data), Rank(data, x) < n + 1
               PROVE Progress(data, f[x], x[2])
    OBVIOUS
  <2>1. \A y \in Place(data) : Rank(data, y) \in Nat
    BY PlaceFields
  <2>2. \A y \in Place(data) : Rank(data, y) < Rank(data, x) => Rank(data, y) < n
    BY <2>1
  <2>3. \A y \in Place(data) : Rank(data, y) < Rank(data, x) => f[y] = f[y] /\ Progress(data, f[y], y[2])
    BY <2>2, <1>5
  <2>4. Progress(data, DecodeAt(data, f, x[1], x[2], x[3]), x[2])
    BY <2>3, StepCongruent
  <2> QED BY <2>4, <1>3
<1> HIDE DEF T
<1>6. \A n \in Nat : n \in T
  BY <1>4, <1>5, EveryNumber
<1>7. \A x \in Place(data) : Progress(data, f[x], x[2])
  <2> SUFFICES ASSUME NEW x \in Place(data) PROVE Progress(data, f[x], x[2])
    OBVIOUS
  <2>1. Rank(data, x) \in Nat
    BY PlaceFields
  <2>2. Rank(data, x) + 1 \in T
    BY <1>6, <2>1
  <2> QED BY <2>1, <2>2 DEF T
<1> QED BY <1>2, <1>3, <1>7

\* _bdecode ends on any data, damaged or not: each call it makes starts further
\* on or is the value at the same place, and a value that is decoded is at least
\* one token long and ends within the data.
THEOREM DecoderAdvances ==
    ASSUME NEW data, Len(data) \in Nat
    PROVE _bdecode(data) = Error \/ _bdecode(data).next \in 2 .. (Len(data) + 1)
<1>1. MaxDepth \in Nat
  BY CodecAssumption
<1>2. PICK f : /\ \A x \in Place(data) : Progress(data, f[x], x[2])
               /\ _bdecode(data) = f[<<"value", 1, 0>>]
  BY <1>1, DecodeUnfolds
<1>3. <<"value", 1, 0>> \in Place(data)
  BY <1>1 DEF Place
<1>4. Progress(data, _bdecode(data), 1)
  BY <1>2, <1>3
<1> QED BY <1>4 DEF Progress

---------------------------------------------------------------------------
(* Flattening *)

\* f satisfies the equation that defines the function of FlattenSeq
FlatFn(seqs, f) ==
    f = [i \in 1 .. Len(seqs) |-> IF i = 1 THEN seqs[i] ELSE f[i - 1] \o seqs[i]]

\* FlattenSeq is the last of the sequences joined so far
LEMMA Flattens ==
    ASSUME NEW seqs, Len(seqs) \in Nat \ {0}
    PROVE \E f : /\ f[1] = seqs[1]
                 /\ \A i \in 2 .. Len(seqs) : f[i] = f[i - 1] \o seqs[i]
                 /\ FlattenSeq(seqs) = f[Len(seqs)]
<1> DEFINE n == Len(seqs)
           Body(f, i) == IF i = 1 THEN seqs[i] ELSE f[i - 1] \o seqs[i]
           Upto(m, f) == \A i \in 1 .. n : i <= m => f[i] = Body(f, i)
           T == {m \in Nat : \E f : Upto(m, f)}
<1>1. 0 \in T
  OBVIOUS
<1>2. ASSUME NEW m \in Nat, m \in T PROVE m + 1 \in T
  <2>1. PICK f : Upto(m, f)
    BY <1>2
  <2> DEFINE g == [i \in 1 .. n |-> IF i = m + 1 THEN Body(f, i) ELSE f[i]]
  <2>2. \A i \in 1 .. n : g[i] = IF i = m + 1 THEN Body(f, i) ELSE f[i]
    OBVIOUS
  <2> HIDE DEF g
  <2>3. ASSUME NEW i \in 1 .. n, i <= m + 1 PROVE g[i] = Body(g, i)
    <3>1. i # 1 => i - 1 \in 1 .. n /\ i - 1 # m + 1
      BY <2>3
    <3>2. i # 1 => g[i - 1] = f[i - 1]
      BY <3>1, <2>2
    <3>3. Body(g, i) = Body(f, i)
      BY <3>2
    <3>4. i # m + 1 => i <= m
      BY <2>3
    <3> QED BY <3>3, <3>4, <2>1, <2>2
  <2> QED BY <2>3
<1> HIDE DEF T
<1>3. \A m \in Nat : m \in T
  BY <1>1, <1>2, EveryNumber
<1>4. PICK h : Upto(n, h)
  <2>1. n \in T
    BY <1>3
  <2> QED BY <2>1 DEF T
<1> DEFINE g == [i \in 1 .. n |-> h[i]]
<1>5. FlatFn(seqs, g)
  <2>1. \A i \in 1 .. n : g[i] = h[i] /\ (i # 1 => g[i - 1] = h[i - 1])
    OBVIOUS
  <2>2. \A i \in 1 .. n : g[i] = Body(g, i)
    BY <1>4, <2>1
  <2>3. g = [i \in 1 .. n |-> g[i]]
    OBVIOUS
  <2> HIDE DEF g
  <2> QED BY <2>2, <2>3 DEF FlatFn
<1> DEFINE f == CHOOSE k : FlatFn(seqs, k)
<1>6. FlatFn(seqs, f)
  BY <1>5
<1>7. FlattenSeq(seqs) = f[n]
  BY DEF FlattenSeq, FlatFn
<1> HIDE DEF f
<1>8. \A i \in 1 .. n : f[i] = Body(f, i)
  BY <1>6 DEF FlatFn
<1>9. f[1] = seqs[1] /\ \A i \in 2 .. n : f[i] = f[i - 1] \o seqs[i]
  <2>1. 1 \in 1 .. n /\ \A i \in 2 .. n : i \in 1 .. n /\ i # 1
    OBVIOUS
  <2>2. \A i \in 1 .. n : f[i] = IF i = 1 THEN seqs[i] ELSE f[i - 1] \o seqs[i]
    BY <1>8
  <2> HIDE DEF Body, n
  <2> QED BY <2>1, <2>2
<1> HIDE DEF n
<1> QED BY <1>7, <1>9 DEF n

LEMMA FlattenOne ==
    ASSUME NEW seqs, Len(seqs) = 1 PROVE FlattenSeq(seqs) = seqs[1]
<1>1. Len(seqs) \in Nat \ {0}
  OBVIOUS
<1>2. PICK f : f[1] = seqs[1] /\ FlattenSeq(seqs) = f[Len(seqs)]
  BY <1>1, Flattens
<1> QED BY <1>2

LEMMA FlattenSingles ==
    ASSUME NEW S, NEW s \in Seq(S), s # <<>>
    PROVE FlattenSeq([i \in DOMAIN s |-> <<s[i]>>]) = s
<1> DEFINE seqs == [i \in DOMAIN s |-> <<s[i]>>]
<1>0. DOMAIN s = 1 .. Len(s) /\ Len(s) \in Nat \ {0} /\ \A i \in 1 .. Len(s) : s[i] \in S
  BY EmptySeq, LenProperties, ElementOfSeq
<1>1. Len(seqs) = Len(s) /\ \A i \in 1 .. Len(s) : seqs[i] = <<s[i]>>
  BY <1>0
<1> HIDE DEF seqs
<1>2. PICK f : /\ f[1] = seqs[1]
               /\ \A i \in 2 .. Len(seqs) : f[i] = f[i - 1] \o seqs[i]
               /\ FlattenSeq(seqs) = f[Len(seqs)]
  BY <1>0, <1>1, Flattens
<1> DEFINE T == {i \in Nat : i + 1 <= Len(s) =>
                    /\ f[i + 1] \in Seq(S) /\ Len(f[i + 1]) = i + 1
                    /\ \A k \in 1 .. (i + 1) : f[i + 1][k] = s[k]}
<1>3. 0 \in T
  <2>1. f[1] = <<s[1]>> /\ s[1] \in S
    BY <1>0, <1>1, <1>2
  <2>2. f[1] \in Seq(S) /\ Len(f[1]) = 1 /\ f[1][1] = s[1]
    BY <2>1
  <2> QED BY <2>2
<1>4. ASSUME NEW i \in Nat, i \in T PROVE i + 1 \in T
  <2> SUFFICES ASSUME i + 2 <= Len(s)
               PROVE /\ f[i + 2] \in Seq(S) /\ Len(f[i + 2]) = i + 2
                     /\ \A k \in 1 .. (i + 2) : f[i + 2][k] = s[k]
    OBVIOUS
  <2>1. f[i + 2] = f[i + 1] \o <<s[i + 2]>>
    <3>1. i + 2 \in 2 .. Len(seqs) /\ i + 2 \in 1 .. Len(s) /\ (i + 2) - 1 = i + 1
      BY <1>0, <1>1
    <3> QED BY <3>1, <1>1, <1>2
  <2>2. f[i + 1] \in Seq(S) /\ Len(f[i + 1]) = i + 1 /\ \A k \in 1 .. (i + 1) : f[i + 1][k] = s[k]
    BY <1>4, <1>0
  <2>3. <<s[i + 2]>> \in Seq(S) /\ Len(<<s[i + 2]>>) = 1 /\ <<s[i + 2]>>[1] = s[i + 2]
    BY <1>0
  <2> DEFINE t == <<s[i + 2]>>
             u == f[i + 1]
  <2> HIDE DEF t, u
  <2>4. t \in Seq(S) /\ Len(t) = 1 /\ t[1] = s[i + 2] /\ u \in Seq(S) /\ Len(u) = i + 1
        /\ \A k \in 1 .. (i + 1) : u[k] = s[k]
    BY <2>2, <2>3 DEF t, u
  <2>5. u \o t \in Seq(S) /\ Len(u \o t) = Len(u) + Len(t)
        /\ \A k \in 1 .. Len(u) + Len(t) : (u \o t)[k] = IF k <= Len(u) THEN u[k] ELSE t[k - Len(u)]
    BY <2>4, ConcatProperties
  <2>6. \A k \in 1 .. (i + 2) : (u \o t)[k] = s[k]
    BY <2>4, <2>5
  <2>7. f[i + 2] = u \o t
    BY <2>1 DEF t, u
  <2> QED BY <2>4, <2>5, <2>6, <2>7
<1> HIDE DEF T
<1>5. \A i \in Nat : i \in T
  BY <1>3, <1>4, EveryNumber
<1>6. /\ f[Len(s)] \in Seq(S) /\ Len(f[Len(s)]) = Len(s)
      /\ \A k \in 1 .. Len(s) : f[Len(s)][k] = s[k]
  <2>1. Len(s) - 1 \in Nat /\ (Len(s) - 1) + 1 = Len(s)
    BY <1>0
  <2>2. Len(s) - 1 \in T
    BY <1>5, <2>1
  <2> QED BY <2>1, <2>2 DEF T
<1>7. f[Len(s)] = s
  BY <1>6, SeqEqual
<1> QED BY <1>1, <1>2, <1>7 DEF seqs

\* n pairs, and the sequence of what is in them
Pairs(seqs, n, a, b) == Len(seqs) = n /\ \A i \in 1 .. n : seqs[i] = <<a[i], b[i]>>
Alternate(s, n, a, b) ==
    Len(s) = 2 * n /\ \A k \in 1 .. n : s[2 * k - 1] = a[k] /\ s[2 * k] = b[k]

LEMMA FlattenPairs ==
    ASSUME NEW S, NEW n \in Nat \ {0}, NEW a \in [1 .. n -> S], NEW b \in [1 .. n -> S],
           NEW seqs, Pairs(seqs, n, a, b)
    PROVE FlattenSeq(seqs) \in Seq(S) /\ Alternate(FlattenSeq(seqs), n, a, b)
<1>0. Len(seqs) = n /\ \A i \in 1 .. n : seqs[i] = <<a[i], b[i]>>
  BY DEF Pairs
<1>2. PICK f : /\ f[1] = seqs[1]
               /\ \A i \in 2 .. Len(seqs) : f[i] = f[i - 1] \o seqs[i]
               /\ FlattenSeq(seqs) = f[Len(seqs)]
  BY <1>0, Flattens
<1> DEFINE P(i) == /\ f[i] \in Seq(S) /\ Len(f[i]) = 2 * i
                   /\ \A k \in 1 .. i : f[i][2 * k - 1] = a[k] /\ f[i][2 * k] = b[k]
           T == {i \in Nat : i + 1 <= n => P(i + 1)}
<1>1. ASSUME NEW i \in 1 .. n
      PROVE /\ seqs[i] \in Seq(S) /\ Len(seqs[i]) = 2 /\ seqs[i][1] = a[i] /\ seqs[i][2] = b[i]
  <2>1. a[i] \in S /\ b[i] \in S /\ seqs[i] = <<a[i], b[i]>>
    BY <1>0
  <2> QED BY <2>1
<1>3. 0 \in T
  <2>1. 1 \in 1 .. n /\ f[1] = seqs[1]
    BY <1>2
  <2>2. f[1] \in Seq(S) /\ Len(f[1]) = 2 /\ f[1][1] = a[1] /\ f[1][2] = b[1]
    BY <1>1, <2>1
  <2>3. \A k \in 1 .. 1 : k = 1 /\ 2 * k - 1 = 1 /\ 2 * k = 2
    OBVIOUS
  <2>4. P(1)
    BY <2>2, <2>3
  <2> QED BY <2>4
<1>4. ASSUME NEW i \in Nat, i \in T PROVE i + 1 \in T
  <2> SUFFICES ASSUME i + 2 <= n PROVE P(i + 2)
    OBVIOUS
  <2>1. f[i + 2] = f[i + 1] \o seqs[i + 2]
    <3>1. i + 2 \in 2 .. Len(seqs) /\ (i + 2) - 1 = i + 1
      BY <1>0
    <3> QED BY <3>1, <1>2
  <2>2. P(i + 1)
    BY <1>4
  <2> DEFINE t == seqs[i + 2]
             u == f[i + 1]
  <2>4. /\ t \in Seq(S) /\ Len(t) = 2 /\ t[1] = a[i + 2] /\ t[2] = b[i + 2]
        /\ u \in Seq(S) /\ Len(u) = 2 * (i + 1)
        /\ \A k \in 1 .. (i + 1) : u[2 * k - 1] = a[k] /\ u[2 * k] = b[k]
        /\ f[i + 2] = u \o t
    BY <1>1, <2>1, <2>2
  <2> HIDE DEF t, u
  <2>5. u \o t \in Seq(S) /\ Len(u \o t) = Len(u) + Len(t)
        /\ \A k \in 1 .. Len(u) + Len(t) : (u \o t)[k] = IF k <= Len(u) THEN u[k] ELSE t[k - Len(u)]
    <3>1. u \in Seq(S) /\ t \in Seq(S)
      BY <2>4
    <3> QED BY ONLY <3>1, ConcatProperties
  <2>6. ASSUME NEW k \in 1 .. (i + 2) PROVE (u \o t)[2 * k - 1] = a[k] /\ (u \o t)[2 * k] = b[k]
    <3>1. CASE k = i + 2
      <4>1. /\ 2 * k - 1 \in 1 .. Len(u) + Len(t) /\ ~(2 * k - 1 <= Len(u)) /\ 2 * k - 1 - Len(u) = 1
            /\ 2 * k \in 1 .. Len(u) + Len(t) /\ ~(2 * k <= Len(u)) /\ 2 * k - Len(u) = 2
        <5>1. Len(u) = 2 * (i + 1) /\ Len(t) = 2
          BY <2>4
        <5> QED BY <3>1, <5>1
      <4> QED BY <3>1, <4>1, <2>4, <2>5
    <3>2. CASE k # i + 2
      <4>1. /\ k \in 1 .. (i + 1)
            /\ 2 * k - 1 \in 1 .. Len(u) + Len(t) /\ 2 * k - 1 <= Len(u)
            /\ 2 * k \in 1 .. Len(u) + Len(t) /\ 2 * k <= Len(u)
        <5>1. Len(u) = 2 * (i + 1) /\ Len(t) = 2
          BY <2>4
        <5> QED BY <3>2, <5>1
      <4> QED BY <4>1, <2>4, <2>5
    <3> QED BY <3>1, <3>2
  <2> QED BY <2>4, <2>5, <2>6
<1> HIDE DEF T
<1>5. \A i \in Nat : i \in T
  BY <1>3, <1>4, EveryNumber
<1>6. P(n)
  <2>1. n - 1 \in Nat /\ (n - 1) + 1 = n
    OBVIOUS
  <2>2. n - 1 \in T
    BY <1>5, <2>1
  <2> QED BY <2>1, <2>2 DEF T
<1> QED BY <1>0, <1>2, <1>6 DEF Alternate

---------------------------------------------------------------------------
(* Sorting *)

\* p puts the ranks in order
Ordered(r, p, n) == \A i, j \in 1 .. n : i < j => r[p[i]] <= r[p[j]]

\* one more rank is inserted before the first larger one
LEMMA InsertSorted ==
    ASSUME NEW n \in Nat, NEW r \in [1 .. (n + 1) -> Nat],
           NEW p \in Bijection(1 .. n, 1 .. n), Ordered(r, p, n)
    PROVE \E q \in Bijection(1 .. (n + 1), 1 .. (n + 1)) : Ordered(r, q, n + 1)
<1>0. /\ \A j \in 1 .. n : p[j] \in 1 .. n
      /\ \A i, j \in 1 .. n : p[i] = p[j] => i = j
      /\ \A t \in 1 .. n : \E s \in 1 .. n : p[s] = t
  BY DEF Bijection, Injection, Surjection, IsInjective
<1>a. /\ \A j \in 1 .. n : r[p[j]] \in Nat
       /\ r[n + 1] \in Nat
  <2>1. n + 1 \in 1 .. (n + 1)
    OBVIOUS
  <2>2. ASSUME NEW j \in 1 .. n PROVE r[p[j]] \in Nat
    <3>1. p[j] \in 1 .. (n + 1)
      <4>1. p[j] \in 1 .. n
        BY <1>0
      <4> QED BY <4>1
    <3> QED BY <3>1
  <2> QED BY <2>1, <2>2
<1> DEFINE Later == {j \in 1 .. (n + 1) : j = n + 1 \/ r[p[j]] > r[n + 1]}
<1>1. PICK k \in Later : \A j \in Later : k <= j
  <2>1. n + 1 \in Later
    OBVIOUS
  <2>2. Later \in SUBSET Nat
    OBVIOUS
  <2> HIDE DEF Later
  <2> QED BY <2>1, <2>2, LeastOf
<1>2. k \in 1 .. (n + 1)
  OBVIOUS
<1>3. ASSUME NEW j \in 1 .. n, j < k PROVE r[p[j]] <= r[n + 1]
  <2>1. j \notin Later
    BY <1>1, <1>2, <1>3
  <2>2. ~(r[p[j]] > r[n + 1])
    BY <2>1
  <2> QED BY <1>a, <2>2
<1>4. ASSUME NEW j \in 1 .. n, k <= j PROVE r[n + 1] <= r[p[j]]
  <2>1. k \in 1 .. n /\ r[p[k]] > r[n + 1]
    BY <1>1, <1>2, <1>4
  <2>2. k = j \/ r[p[k]] <= r[p[j]]
    BY <2>1, <1>4 DEF Ordered
  <2> QED BY <1>a, <2>1, <2>2
<1> DEFINE q == [j \in 1 .. (n + 1) |-> IF j < k THEN p[j] ELSE IF j = k THEN n + 1 ELSE p[j - 1]]
<1> HIDE DEF Later
<1>5. /\ q[k] = n + 1
      /\ \A j \in 1 .. (n + 1) : j < k => j \in 1 .. n /\ q[j] = p[j]
      /\ \A j \in 1 .. (n + 1) : k < j => j - 1 \in 1 .. n /\ q[j] = p[j - 1]
  BY <1>2
<1>6. q \in [1 .. (n + 1) -> 1 .. (n + 1)]
  <2>1. \A j \in 1 .. (n + 1) : q[j] \in 1 .. (n + 1)
    <3>1. \A j \in 1 .. n : p[j] \in 1 .. (n + 1)
      <4> SUFFICES ASSUME NEW j \in 1 .. n PROVE p[j] \in 1 .. (n + 1)
        OBVIOUS
      <4>1. p[j] \in 1 .. n
        BY <1>0
      <4> QED BY <4>1
    <3> SUFFICES ASSUME NEW j \in 1 .. (n + 1) PROVE q[j] \in 1 .. (n + 1)
      OBVIOUS
    <3>2. n + 1 \in 1 .. (n + 1)
      OBVIOUS
    <3> HIDE DEF q
    <3>3. CASE j < k
      BY <1>5, <3>1, <3>3
    <3>4. CASE j = k
      BY <1>5, <3>2, <3>4
    <3>5. CASE k < j
      BY <1>5, <3>1, <3>5
    <3> QED BY <3>3, <3>4, <3>5, <1>2
  <2> QED BY <2>1
<1> HIDE DEF q
<1>7. IsInjective(q)
  <2> SUFFICES ASSUME NEW a \in 1 .. (n + 1), NEW b \in 1 .. (n + 1), q[a] = q[b], a < b PROVE FALSE
    BY <1>6 DEF IsInjective
  <2>1. \A i, j \in 1 .. n : p[i] = p[j] => i = j
    BY <1>0
  <2>2. ASSUME NEW j \in 1 .. n, p[j] = n + 1 PROVE FALSE
    <3>1. p[j] \in 1 .. n
      BY <1>0
    <3> QED BY <2>2, <3>1
  <2>3. CASE a < k /\ b < k
    BY <2>1, <2>3, <1>5
  <2>4. CASE a < k /\ b = k
    BY <2>2, <2>4, <1>5
  <2>5. CASE a < k /\ k < b
    <3>1. p[a] = p[b - 1] /\ a \in 1 .. n /\ b - 1 \in 1 .. n
      BY <2>5, <1>5
    <3> QED BY <2>1, <2>5, <3>1, <1>2
  <2>6. CASE a = k /\ k < b
    BY <2>2, <2>6, <1>5
  <2>7. CASE k < a /\ k < b
    <3>1. p[a - 1] = p[b - 1] /\ a - 1 \in 1 .. n /\ b - 1 \in 1 .. n
      BY <2>7, <1>5
    <3>2. a - 1 = b - 1
      BY <2>1, <3>1
    <3> QED BY <3>2
  <2>8. (a < k \/ a = k \/ k < a) /\ (b < k \/ b = k \/ k < b)
    BY <1>2
  <2>9. ~(a = k /\ b = k) /\ ~(a = k /\ b < k) /\ ~(k < a /\ b = k) /\ ~(k < a /\ b < k)
    BY <1>2
  <2> QED BY <2>3, <2>4, <2>5, <2>6, <2>7, <2>8, <2>9
<1>8. \A t \in 1 .. (n + 1) : \E s \in 1 .. (n + 1) : q[s] = t
  <2> SUFFICES ASSUME NEW t \in 1 .. (n + 1) PROVE \E s \in 1 .. (n + 1) : q[s] = t
    OBVIOUS
  <2>1. CASE t = n + 1
    BY <2>1, <1>2, <1>5
  <2>2. CASE t # n + 1
    <3>1. PICK s \in 1 .. n : p[s] = t
      <4>1. t \in 1 .. n
        BY <2>2
      <4> QED BY <4>1, <1>0
    <3>2. CASE s < k
      BY <3>1, <3>2, <1>5
    <3>3. CASE k <= s
      <4>1. s + 1 \in 1 .. (n + 1) /\ k < s + 1 /\ (s + 1) - 1 = s
        BY <3>3, <1>2
      <4> QED BY <4>1, <3>1, <1>5
    <3> QED BY <3>2, <3>3, <1>2
  <2> QED BY <2>1, <2>2
<1>9. ASSUME NEW i \in 1 .. (n + 1), NEW j \in 1 .. (n + 1), i < j PROVE r[q[i]] <= r[q[j]]
  <2>1. CASE j < k
    <3>1. i \in 1 .. n /\ j \in 1 .. n /\ q[i] = p[i] /\ q[j] = p[j]
      BY <2>1, <1>2, <1>5, <1>9
    <3> QED BY <3>1, <1>9 DEF Ordered
  <2>2. CASE j = k
    <3>1. i \in 1 .. n /\ i < k /\ q[i] = p[i] /\ q[j] = n + 1
      BY <2>2, <1>2, <1>5, <1>9
    <3> QED BY <3>1, <1>3
  <2>3. CASE i < k /\ k < j
    <3>1. i \in 1 .. n /\ j - 1 \in 1 .. n /\ i < j - 1 /\ q[i] = p[i] /\ q[j] = p[j - 1]
      BY <2>3, <1>2, <1>5
    <3> QED BY <3>1 DEF Ordered
  <2>4. CASE i = k
    <3>1. j - 1 \in 1 .. n /\ k <= j - 1 /\ q[i] = n + 1 /\ q[j] = p[j - 1]
      BY <2>4, <1>2, <1>5, <1>9
    <3> QED BY <3>1, <1>4
  <2>5. CASE k < i
    <3>1. i - 1 \in 1 .. n /\ j - 1 \in 1 .. n /\ i - 1 < j - 1 /\ q[i] = p[i - 1] /\ q[j] = p[j - 1]
      BY <2>5, <1>2, <1>5, <1>9
    <3> QED BY <3>1 DEF Ordered
  <2>6. j < k \/ j = k \/ (i < k /\ k < j) \/ i = k \/ k < i
    BY <1>2
  <2> QED BY <2>1, <2>2, <2>3, <2>4, <2>5, <2>6
<1>10. q \in Bijection(1 .. (n + 1), 1 .. (n + 1))
  BY <1>6, <1>7, <1>8 DEF Bijection, Injection, Surjection
<1> QED BY <1>9, <1>10 DEF Ordered

\* so any ranks can be put in order
LEMMA Sortable ==
    ASSUME NEW n \in Nat, NEW r \in [1 .. n -> Nat]
    PROVE \E p \in Bijection(1 .. n, 1 .. n) : Ordered(r, p, n)
<1> DEFINE Sorts(m, f) == \E p \in Bijection(1 .. m, 1 .. m) : Ordered(f, p, m)
           T == {m \in Nat : \A f \in [1 .. m -> Nat] : Sorts(m, f)}
<1>1. 0 \in T
  <2> SUFFICES ASSUME NEW f PROVE Sorts(0, f)
    OBVIOUS
  <2> DEFINE p == [i \in 1 .. 0 |-> i]
  <2>1. p \in Bijection(1 .. 0, 1 .. 0)
    BY DEF Bijection, Injection, Surjection, IsInjective
  <2>2. Ordered(f, p, 0)
    BY DEF Ordered
  <2> QED BY <2>1, <2>2
<1>2. ASSUME NEW m \in Nat, m \in T PROVE m + 1 \in T
  <2> SUFFICES ASSUME NEW f \in [1 .. (m + 1) -> Nat] PROVE Sorts(m + 1, f)
    OBVIOUS
  <2> DEFINE g == [i \in 1 .. m |-> f[i]]
  <2>1. g \in [1 .. m -> Nat]
    OBVIOUS
  <2>2. PICK p \in Bijection(1 .. m, 1 .. m) : Ordered(g, p, m)
    BY <1>2, <2>1
  <2>3. \A i \in 1 .. m : p[i] \in 1 .. m /\ g[p[i]] = f[p[i]]
    BY DEF Bijection, Injection
  <2>4. Ordered(f, p, m)
    BY <2>2, <2>3 DEF Ordered
  <2> QED BY <2>4, InsertSorted
<1> HIDE DEF T
<1>3. n \in T
  BY <1>1, <1>2, EveryNumber
<1> QED BY <1>3 DEF T

---------------------------------------------------------------------------
(* The round trip of a flat dictionary *)

\* neither a mark nor a value with marks of its own
Plain(v) == DOMAIN v \notin {{"mark"}, {"list"}, {"dict"}}

\* entries of the relay's messages: known keys, none twice, plain values
FlatEntries(es) ==
    /\ Len(es) \in 1 .. MaxDict /\ DOMAIN es = 1 .. Len(es)
    /\ \A i \in DOMAIN es : /\ es[i] = Entry(es[i].key, es[i].val)
                            /\ es[i].key \in {KeyOrder[j] : j \in DOMAIN KeyOrder}
                            /\ Plain(es[i].val)
    /\ \A i, j \in DOMAIN es : es[i].key = es[j].key => i = j

LEMMA KeyOrderDomain == DOMAIN KeyOrder = 1 .. 7
BY DEF KeyOrder

LEMMA KeyRanks ==
    ASSUME NEW k \in {KeyOrder[j] : j \in DOMAIN KeyOrder} PROVE KeyRank(k) \in Nat
<1>1. PICK j \in 1 .. 7 : KeyOrder[j] = k
  BY KeyOrderDomain
<1>2. KeyRank(k) \in 1 .. 7
  BY <1>1, KeyOrderDomain DEF KeyRank
<1> QED BY <1>2

LEMMA EntryFields == \A k, v : Entry(k, v).key = k /\ Entry(k, v).val = v
BY DEF Entry

\* the sorted entries are the entries in another order
LEMMA KeyOrderKept ==
    ASSUME NEW es, FlatEntries(es)
    PROVE \E p \in Bijection(DOMAIN es, DOMAIN es) : InKeyOrder(es) = Arranged(es, p)
<1> DEFINE n == Len(es)
           r == [i \in 1 .. n |-> KeyRank(es[i].key)]
<1>1. n \in Nat /\ DOMAIN es = 1 .. n
  BY DEF FlatEntries
<1>2. r \in [1 .. n -> Nat]
  BY <1>1, KeyRanks DEF FlatEntries
<1>3. PICK p \in Bijection(1 .. n, 1 .. n) : Ordered(r, p, n)
  BY <1>1, <1>2, Sortable
<1>4. \A i \in 1 .. n : p[i] \in 1 .. n
  BY DEF Bijection, Injection
<1>5. /\ DOMAIN Arranged(es, p) = 1 .. n
      /\ \A i \in 1 .. n : KeyRank(Arranged(es, p)[i].key) = r[p[i]]
  BY <1>1, <1>4 DEF Arranged
<1> HIDE DEF r
<1> DEFINE Sorted(s) == \A i, j \in DOMAIN s : i < j => KeyRank(s[i].key) <= KeyRank(s[j].key)
           All == {Arranged(es, q) : q \in Bijection(DOMAIN es, DOMAIN es)}
<1>6. Sorted(Arranged(es, p))
  BY <1>3, <1>5 DEF Ordered
<1>7. Arranged(es, p) \in All
  BY <1>1
<1>8. InKeyOrder(es) = CHOOSE s \in All : Sorted(s)
  BY DEF InKeyOrder
<1> HIDE DEF Sorted, All
<1>9. InKeyOrder(es) \in All
  BY <1>6, <1>7, <1>8
<1> QED BY <1>9 DEF All

LEMMA ArrangedEntries ==
    ASSUME NEW es, FlatEntries(es), NEW p \in Bijection(DOMAIN es, DOMAIN es)
    PROVE FlatEntries(Arranged(es, p)) /\ Len(Arranged(es, p)) = Len(es)
<1> DEFINE ks == Arranged(es, p) n == Len(es)
<1>1. n \in Nat /\ DOMAIN es = 1 .. n
  BY DEF FlatEntries
<1>2. \A i \in 1 .. n : p[i] \in 1 .. n /\ ks[i] = es[p[i]]
  BY <1>1 DEF Bijection, Injection, Arranged
<1>3. \A i, j \in 1 .. n : p[i] = p[j] => i = j
  BY <1>1 DEF Bijection, Injection, IsInjective
<1>4. DOMAIN ks = 1 .. n /\ Len(ks) = n
  <2>1. ks = [i \in 1 .. n |-> es[p[i]]]
    BY <1>1 DEF Arranged
  <2> HIDE DEF ks, n
  <2> QED BY <1>1, <2>1
<1> HIDE DEF ks, n
<1>5. /\ n \in 1 .. MaxDict
      /\ \A i \in 1 .. n : /\ es[i] = Entry(es[i].key, es[i].val)
                           /\ es[i].key \in {KeyOrder[j] : j \in DOMAIN KeyOrder}
                           /\ Plain(es[i].val)
      /\ \A i, j \in 1 .. n : es[i].key = es[j].key => i = j
  BY <1>1 DEF FlatEntries, n
<1>6. FlatEntries(ks)
  <2>1. ASSUME NEW i \in DOMAIN ks
        PROVE /\ ks[i] = Entry(ks[i].key, ks[i].val)
              /\ ks[i].key \in {KeyOrder[j] : j \in DOMAIN KeyOrder}
              /\ Plain(ks[i].val)
    <3>1. p[i] \in 1 .. n /\ ks[i] = es[p[i]]
      BY <1>2, <1>4
    <3> QED BY <1>5, <3>1
  <2>2. ASSUME NEW i \in DOMAIN ks, NEW j \in DOMAIN ks, ks[i].key = ks[j].key PROVE i = j
    <3>1. /\ p[i] \in 1 .. n /\ ks[i] = es[p[i]] /\ i \in 1 .. n
          /\ p[j] \in 1 .. n /\ ks[j] = es[p[j]] /\ j \in 1 .. n
      BY <1>2, <1>4
    <3>2. p[i] = p[j]
      BY <1>5, <2>2, <3>1
    <3> QED BY <1>3, <3>1, <3>2
  <2> QED BY <1>4, <1>5, <2>1, <2>2 DEF FlatEntries
<1> QED BY <1>4, <1>6 DEF ks, n

LEMMA OpenPlain == \A v : IsList(v) \/ IsDict(v) \/ Opened(v) = <<v>>
BY DEF Opened

\* the levels of the encoding
LEMMA Levels ==
    ASSUME NEW v, MaxDepth \in Nat
    PROVE \E f : /\ f[0] = <<v>> /\ \A n \in 1 .. Nesting : f[n] = OpenAll(f[n - 1])
                 /\ _bencode(v) = f[Nesting]
<1> DEFINE N == Nesting
           Body(f, i) == IF i = 0 THEN <<v>> ELSE OpenAll(f[i - 1])
           Fn(f) == f = [i \in 0 .. N |-> IF i = 0 THEN <<v>> ELSE OpenAll(f[i - 1])]
           Upto(m, f) == \A i \in 0 .. N : i <= m => f[i] = Body(f, i)
           T == {m \in Nat : \E f : Upto(m, f)}
<1>0. N \in Nat
  BY DEF Nesting
<1> HIDE DEF N
<1>1. 0 \in T
  <2> DEFINE g == [i \in 0 .. N |-> <<v>>]
  <2>1. Upto(0, g)
    BY <1>0
  <2> QED BY <2>1
<1>2. ASSUME NEW m \in Nat, m \in T PROVE m + 1 \in T
  <2>1. PICK f : Upto(m, f)
    BY <1>2
  <2> DEFINE g == [i \in 0 .. N |-> IF i = m + 1 THEN Body(f, i) ELSE f[i]]
  <2>2. \A i \in 0 .. N : g[i] = IF i = m + 1 THEN Body(f, i) ELSE f[i]
    OBVIOUS
  <2> HIDE DEF g
  <2>3. ASSUME NEW i \in 0 .. N, i <= m + 1 PROVE g[i] = Body(g, i)
    <3>1. i # 0 => i - 1 \in 0 .. N /\ i - 1 # m + 1
      BY <2>3, <1>0
    <3>2. i # 0 => g[i - 1] = f[i - 1]
      BY <3>1, <2>2
    <3>3. Body(g, i) = Body(f, i)
      BY <3>2
    <3>4. i # m + 1 => i <= m
      BY <2>3, <1>0
    <3> QED BY <3>3, <3>4, <2>1, <2>2
  <2> QED BY <2>3
<1> HIDE DEF T
<1>3. \A m \in Nat : m \in T
  BY <1>1, <1>2, EveryNumber
<1>4. PICK h : Upto(N, h)
  <2>1. N \in T
    BY <1>0, <1>3
  <2> QED BY <2>1 DEF T
<1> DEFINE g == [i \in 0 .. N |-> h[i]]
<1>5. Fn(g)
  <2>1. \A i \in 0 .. N : g[i] = h[i] /\ (i # 0 => g[i - 1] = h[i - 1])
    BY <1>0
  <2>2. \A i \in 0 .. N : g[i] = Body(g, i)
    BY <1>4, <1>0, <2>1
  <2>3. g = [i \in 0 .. N |-> g[i]]
    OBVIOUS
  <2> HIDE DEF g
  <2> QED BY <2>2, <2>3
<1> DEFINE f == CHOOSE k : Fn(k)
<1>6. Fn(f)
  BY <1>5
<1>7. _bencode(v) = f[N]
  BY DEF _bencode, N
<1> HIDE DEF f
<1>8. \A i \in 0 .. N : f[i] = IF i = 0 THEN <<v>> ELSE OpenAll(f[i - 1])
  BY <1>6
<1>9. f[0] = <<v>> /\ \A i \in 1 .. N : f[i] = OpenAll(f[i - 1])
  <2>1. 0 \in 0 .. N /\ \A i \in 1 .. N : i \in 0 .. N /\ i # 0
    BY <1>0
  <2> HIDE DEF Body, Fn, Upto
  <2> QED BY <2>1, <1>8
<1> QED BY <1>7, <1>9 DEF N

\* a dictionary of plain values is encoded at the first level already: its marks
\* and between them a key and a value in turn
FlatTokens(data, ks, n) ==
    /\ Len(data) = 2 * n + 2
    /\ data[1] = Mark("d") /\ data[2 * n + 2] = Mark("e")
    /\ \A k \in 1 .. n : data[2 * k] = Text(ks[k].key) /\ data[2 * k + 1] = ks[k].val

LEMMA EncodeFlat ==
    ASSUME NEW es, FlatEntries(es), FlatEntries(InKeyOrder(es)), MaxDepth \in Nat
    PROVE FlatTokens(_bencode(Dict(es)), InKeyOrder(es), Len(InKeyOrder(es)))
<1> DEFINE ks == InKeyOrder(es)
           n == Len(ks)
           data == _bencode(Dict(es))
<1>1. n \in Nat \ {0} /\ DOMAIN ks = 1 .. n
  BY DEF FlatEntries
<1>b. FlatEntries(ks)
  OBVIOUS
<1> HIDE DEF ks, n, data
<1> DEFINE a == [i \in 1 .. n |-> Text(ks[i].key)]
           b == [i \in 1 .. n |-> ks[i].val]
           U == {a[i] : i \in 1 .. n} \cup {b[i] : i \in 1 .. n} \cup {Mark("d"), Mark("e")}
           pairs == [i \in DOMAIN ks |-> <<Text(ks[i].key), ks[i].val>>]
           flat == FlattenSeq(pairs)
           toks == <<Mark("d")>> \o flat \o <<Mark("e")>>
<1>2. /\ flat \in Seq(U) /\ Len(flat) = 2 * n
      /\ \A k \in 1 .. n : flat[2 * k - 1] = a[k] /\ flat[2 * k] = b[k]
  <2>1. a \in [1 .. n -> U] /\ b \in [1 .. n -> U]
    OBVIOUS
  <2>2. \A i \in 1 .. n : pairs[i] = <<a[i], b[i]>>
    BY <1>1
  <2>3. Len(pairs) = n
    BY <1>1
  <2>4. n \in Nat \ {0} /\ Pairs(pairs, n, a, b)
    BY <1>1, <2>2, <2>3 DEF Pairs
  <2> HIDE DEF a, b, U, pairs
  <2>5. FlattenSeq(pairs) \in Seq(U) /\ Alternate(FlattenSeq(pairs), n, a, b)
    BY ONLY <2>1, <2>4, FlattenPairs
  <2> QED BY <2>5 DEF Alternate
<1>3. /\ \A k \in 1 .. n : a[k] = Text(ks[k].key) /\ b[k] = ks[k].val
      /\ Mark("d") \in U /\ Mark("e") \in U
  OBVIOUS
<1>4. \A u \in U : ~ IsList(u) /\ ~ IsDict(u)
  <2>1. \A i \in 1 .. n : ~ IsList(b[i]) /\ ~ IsDict(b[i])
    BY <1>1, <1>b DEF FlatEntries, Plain, IsList, IsDict
  <2>2. \A k : ~ IsList(Text(k)) /\ ~ IsDict(Text(k)) /\ ~ IsList(Mark(k)) /\ ~ IsDict(Mark(k))
    BY DEF Text, Mark, IsList, IsDict
  <2>3. \A u \in U : (\E i \in 1 .. n : u = b[i]) \/ (\E k : u = Text(k) \/ u = Mark(k))
    OBVIOUS
  <2> HIDE DEF a, b, U
  <2> QED BY <2>1, <2>2, <2>3
<1> HIDE DEF U, a, b, flat
<1>5. /\ toks \in Seq(U) /\ Len(toks) = 2 * n + 2
      /\ toks[1] = Mark("d") /\ toks[2 * n + 2] = Mark("e")
      /\ \A j \in 1 .. (2 * n) : toks[j + 1] = flat[j]
  <2> DEFINE d == <<Mark("d")>> e == <<Mark("e")>> df == d \o flat
  <2>1. d \in Seq(U) /\ Len(d) = 1 /\ d[1] = Mark("d") /\ e \in Seq(U) /\ Len(e) = 1 /\ e[1] = Mark("e")
    BY <1>3
  <2> HIDE DEF d, e
  <2>2. /\ df \in Seq(U) /\ Len(df) = Len(d) + Len(flat)
        /\ \A j \in 1 .. Len(d) + Len(flat) : df[j] = IF j <= Len(d) THEN d[j] ELSE flat[j - Len(d)]
    <3>1. d \in Seq(U) /\ flat \in Seq(U)
      BY <1>2, <2>1
    <3> QED BY ONLY <3>1, ConcatProperties DEF df
  <2> HIDE DEF df
  <2>3. /\ df \o e \in Seq(U) /\ Len(df \o e) = Len(df) + Len(e)
        /\ \A j \in 1 .. Len(df) + Len(e) : (df \o e)[j] = IF j <= Len(df) THEN df[j] ELSE e[j - Len(df)]
    <3>1. df \in Seq(U) /\ e \in Seq(U)
      BY <2>1, <2>2
    <3> QED BY ONLY <3>1, ConcatProperties
  <2>4. toks = df \o e
    BY DEF df, d, e
  <2>5. Len(df) = 2 * n + 1 /\ df[1] = Mark("d") /\ \A j \in 1 .. (2 * n) : df[j + 1] = flat[j]
    <3>1. Len(df) = 2 * n + 1
      BY <1>1, <1>2, <2>1, <2>2
    <3>2. df[1] = Mark("d")
      BY <1>1, <1>2, <2>1, <2>2
    <3>3. ASSUME NEW j \in 1 .. (2 * n) PROVE df[j + 1] = flat[j]
      <4>1. j + 1 \in 1 .. Len(d) + Len(flat) /\ ~(j + 1 <= Len(d)) /\ (j + 1) - Len(d) = j
        BY <1>1, <1>2, <2>1
      <4> QED BY <4>1, <2>2
    <3> QED BY <3>1, <3>2, <3>3
  <2>6. /\ 1 \in 1 .. Len(df) + Len(e) /\ 1 <= Len(df)
        /\ 2 * n + 2 \in 1 .. Len(df) + Len(e) /\ ~(2 * n + 2 <= Len(df)) /\ (2 * n + 2) - Len(df) = 1
        /\ \A j \in 1 .. (2 * n) : j + 1 \in 1 .. Len(df) + Len(e) /\ j + 1 <= Len(df)
        /\ Len(df) + Len(e) = 2 * n + 2
    BY <1>1, <2>1, <2>5
  <2> HIDE DEF toks
  <2> QED BY <2>1, <2>3, <2>4, <2>5, <2>6
<1>6. Opened(Dict(es)) = toks
  <2>1. IsDict(Dict(es)) /\ ~ IsList(Dict(es)) /\ Dict(es).dict = es
    BY DEF IsDict, IsList, Dict
  <2> HIDE DEF toks
  <2>2. Opened(Dict(es)) = <<Mark("d")>>
            \o FlattenSeq([i \in DOMAIN ks |-> <<Text(ks[i].key), ks[i].val>>]) \o <<Mark("e")>>
    BY <2>1 DEF Opened, ks
  <2> QED BY <2>2 DEF toks, flat
<1> HIDE DEF toks
<1>7. OpenAll(<<Dict(es)>>) = toks
  <2> DEFINE one == [i \in DOMAIN <<Dict(es)>> |-> Opened(<<Dict(es)>>[i])]
  <2>1. one = <<toks>>
    BY <1>6
  <2>2. Len(one) = 1 /\ one[1] = toks
    BY <2>1
  <2> HIDE DEF one
  <2>3. FlattenSeq(one) = toks
    BY <2>2, FlattenOne
  <2> QED BY <2>3 DEF OpenAll, one
<1>8. OpenAll(toks) = toks
  <2>1. \A i \in DOMAIN toks : Opened(toks[i]) = <<toks[i]>>
    <3>1. \A i \in DOMAIN toks : toks[i] \in U
      BY <1>5
    <3> QED BY <3>1, <1>4, OpenPlain
  <2>2. [i \in DOMAIN toks |-> Opened(toks[i])] = [i \in DOMAIN toks |-> <<toks[i]>>]
    BY <2>1
  <2>3. toks # <<>>
    BY <1>1, <1>5
  <2> QED BY <1>5, <2>2, <2>3, FlattenSingles DEF OpenAll
<1>9. data = toks
  <2>1. PICK f : /\ f[0] = <<Dict(es)>> /\ \A m \in 1 .. Nesting : f[m] = OpenAll(f[m - 1])
                 /\ _bencode(Dict(es)) = f[Nesting]
    BY Levels
  <2> DEFINE T == {m \in Nat : m + 1 <= Nesting => f[m + 1] = toks}
  <2>2. Nesting \in Nat /\ 1 <= Nesting
    BY DEF Nesting
  <2>3. 0 \in T
    <3>1. 1 \in 1 .. Nesting /\ 1 - 1 = 0
      BY <2>2
    <3>2. f[1] = toks
      BY <1>7, <2>1, <3>1
    <3> QED BY <3>2
  <2>4. ASSUME NEW m \in Nat, m \in T PROVE m + 1 \in T
    <3> SUFFICES ASSUME m + 2 <= Nesting PROVE f[m + 2] = toks
      OBVIOUS
    <3>1. m + 2 \in 1 .. Nesting /\ (m + 2) - 1 = m + 1 /\ m + 1 <= Nesting
      BY <2>2
    <3>2. f[m + 1] = toks
      BY <2>4, <3>1
    <3> QED BY <1>8, <2>1, <3>1, <3>2
  <2> HIDE DEF T
  <2>5. \A m \in Nat : m \in T
    BY <2>3, <2>4, EveryNumber
  <2>6. f[Nesting] = toks
    <3>1. Nesting - 1 \in Nat /\ (Nesting - 1) + 1 = Nesting /\ Nesting <= Nesting
      BY <2>2
    <3>2. Nesting - 1 \in T
      BY <2>5, <3>1
    <3> QED BY <3>1, <3>2 DEF T
  <2> QED BY <2>1, <2>6 DEF data
<1>10. ASSUME NEW k \in 1 .. n PROVE data[2 * k] = Text(ks[k].key) /\ data[2 * k + 1] = ks[k].val
  <2>1. /\ 2 * k - 1 \in 1 .. (2 * n) /\ 2 * k \in 1 .. (2 * n) /\ (2 * k - 1) + 1 = 2 * k
    BY <1>1
  <2>2. toks[2 * k] = flat[2 * k - 1] /\ toks[2 * k + 1] = flat[2 * k]
    BY <1>5, <2>1
  <2> QED BY <1>2, <1>3, <1>9, <2>2
<1>11. FlatTokens(data, ks, n)
  BY <1>5, <1>9, <1>10 DEF FlatTokens
<1> QED BY <1>11 DEF data, ks, n

\* decoding the encoding of a dictionary of plain values gives the dictionary
\* back, its entries in key order
LEMMA RoundTrip ==
    ASSUME NEW es, FlatEntries(es), MaxDepth \in Nat \ {0}
    PROVE /\ bdecode_dict(_bencode(Dict(es))) = Dict(InKeyOrder(es))
          /\ \E p \in Bijection(DOMAIN es, DOMAIN es) : InKeyOrder(es) = Arranged(es, p)
<1> DEFINE ks == InKeyOrder(es) n == Len(ks) data == _bencode(Dict(es))
<1>1. PICK p \in Bijection(DOMAIN es, DOMAIN es) : ks = Arranged(es, p)
  BY KeyOrderKept
<1>2. FlatEntries(ks)
  BY <1>1, ArrangedEntries
<1>3. /\ Len(data) = 2 * n + 2
      /\ data[1] = Mark("d") /\ data[2 * n + 2] = Mark("e")
      /\ \A k \in 1 .. n : data[2 * k] = Text(ks[k].key) /\ data[2 * k + 1] = ks[k].val
  <2>1. FlatTokens(data, ks, n)
    BY <1>2, EncodeFlat
  <2> HIDE DEF ks, n, data
  <2> QED BY <2>1 DEF FlatTokens
<1> HIDE DEF ks, n, data
<1>4. /\ n \in 1 .. MaxDict /\ n \in Nat /\ DOMAIN ks = 1 .. n
      /\ \A i \in 1 .. n : ks[i] = Entry(ks[i].key, ks[i].val) /\ Plain(ks[i].val)
      /\ \A i, j \in 1 .. n : ks[i].key = ks[j].key => i = j
  BY <1>2 DEF FlatEntries, n
<1>5. Len(data) \in Nat
  BY <1>3, <1>4
<1>6. PICK f : /\ \A x \in Place(data) : f[x] = DecodeAt(data, f, x[1], x[2], x[3])
               /\ _bdecode(data) = f[<<"value", 1, 0>>]
  BY <1>5, DecodeUnfolds
<1>7. ASSUME NEW w \in {"value", "items", "entries"}, NEW i \in 1 .. Len(data), NEW d \in 0 .. MaxDepth
      PROVE f[<<w, i, d>>] = DecodeAt(data, f, w, i, d)
  <2>1. <<w, i, d>> \in Place(data)
    BY <1>5 DEF Place
  <2> QED BY <1>6, <2>1
<1>8. ASSUME NEW k \in 1 .. n
      PROVE /\ f[<<"value", 2 * k, 1>>] = Decoded(Text(ks[k].key), 2 * k + 1)
            /\ f[<<"value", 2 * k + 1, 1>>] = Decoded(ks[k].val, 2 * k + 2)
  <2>1. /\ 2 * k \in 1 .. Len(data) /\ 2 * k + 1 \in 1 .. Len(data) /\ 1 \in 0 .. MaxDepth
        /\ (2 * k + 1) + 1 = 2 * k + 2
    BY <1>3, <1>4
  <2>2. DOMAIN data[2 * k] # {"mark"} /\ DOMAIN data[2 * k + 1] # {"mark"}
    <3>1. DOMAIN Text(ks[k].key) # {"mark"}
      BY DEF Text
    <3>2. DOMAIN ks[k].val # {"mark"}
      BY <1>4 DEF Plain
    <3> QED BY <1>3, <3>1, <3>2
  <2>4. ASSUME NEW i \in 1 .. Len(data), DOMAIN data[i] # {"mark"}
        PROVE f[<<"value", i, 1>>] = Decoded(data[i], i + 1)
    <3>1. data[i] # Mark("l") /\ data[i] # Mark("d")
      BY <2>4, MarksDiffer
    <3>2. DecodeAt(data, f, "value", i, 1) = Decoded(data[i], i + 1)
      BY <1>5, <2>1, <2>4, <3>1, DecodeAtom
    <3> QED BY <1>7, <2>1, <3>2
  <2> QED BY <1>3, <2>1, <2>2, <2>4
<1> DEFINE Left(m) == [j \in 1 .. m |-> ks[n - m + j]]
           T == {m \in Nat : m <= n => f[<<"entries", 2 * (n - m) + 2, 0>>] = Decoded(Left(m), 2 * n + 3)}
<1>9. 0 \in T
  <2>1. 2 * n + 2 \in 1 .. Len(data) /\ 0 \in 0 .. MaxDepth /\ (2 * n + 2) + 1 = 2 * n + 3
        /\ 2 * (n - 0) + 2 = 2 * n + 2
    BY <1>3, <1>4
  <2>2. DecodeAt(data, f, "entries", 2 * n + 2, 0) = Decoded(<<>>, (2 * n + 2) + 1)
    BY <1>3, <1>5, <2>1, DecodeEnd
  <2>3. Left(0) = <<>>
    OBVIOUS
  <2>4. f[<<"entries", 2 * n + 2, 0>>] = Decoded(<<>>, 2 * n + 3)
    BY <1>7, <2>1, <2>2
  <2> QED BY <2>1, <2>3, <2>4
<1>10. ASSUME NEW m \in Nat, m \in T PROVE m + 1 \in T
  <2> SUFFICES ASSUME m + 1 <= n
               PROVE f[<<"entries", 2 * (n - (m + 1)) + 2, 0>>] = Decoded(Left(m + 1), 2 * n + 3)
    OBVIOUS
  <2> DEFINE k == n - m
  <2>1. /\ k \in 1 .. n /\ 2 * (n - (m + 1)) + 2 = 2 * k /\ 2 * (n - m) + 2 = 2 * k + 2
        /\ 2 * k \in 1 .. Len(data) /\ 0 \in 0 .. MaxDepth
    <3>1. k \in 1 .. n /\ 2 * (n - (m + 1)) + 2 = 2 * k /\ 2 * (n - m) + 2 = 2 * k + 2
      BY <1>4
    <3> HIDE DEF k
    <3>2. 2 * k \in 1 .. Len(data) /\ 0 \in 0 .. MaxDepth
      BY <1>3, <1>4, <3>1
    <3> QED BY <3>1, <3>2
  <2>2. f[<<"entries", 2 * k + 2, 0>>] = Decoded(Left(m), 2 * n + 3)
    <3>1. m <= n
      BY <1>4
    <3> QED BY <1>10, <2>1, <3>1
  <2>3. <<ks[k]>> \o Left(m) = Left(m + 1)
    <3> DEFINE V == {ks[i] : i \in 1 .. n}
    <3>1. Left(m) \in Seq(V) /\ Len(Left(m)) = m
      BY <1>4, <2>1
    <3>2. Left(m + 1) \in Seq(V) /\ Len(Left(m + 1)) = m + 1
      BY <1>4, <2>1
    <3>3. <<ks[k]>> \in Seq(V) /\ Len(<<ks[k]>>) = 1 /\ <<ks[k]>>[1] = ks[k]
      BY <2>1
    <3>4. \A j \in 1 .. m : Left(m)[j] = ks[n - m + j]
      OBVIOUS
    <3>5. \A j \in 1 .. (m + 1) : Left(m + 1)[j] = ks[n - (m + 1) + j]
      OBVIOUS
    <3> DEFINE s == <<ks[k]>> t == Left(m) u == Left(m + 1)
    <3>6. /\ s \in Seq(V) /\ Len(s) = 1 /\ s[1] = ks[k] /\ t \in Seq(V) /\ Len(t) = m
          /\ u \in Seq(V) /\ Len(u) = m + 1
          /\ \A j \in 1 .. m : t[j] = ks[n - m + j]
          /\ \A j \in 1 .. (m + 1) : u[j] = ks[n - (m + 1) + j]
      BY <3>1, <3>2, <3>3, <3>4, <3>5
    <3> HIDE DEF V, s, t, u
    <3>7. /\ s \o t \in Seq(V) /\ Len(s \o t) = Len(s) + Len(t)
          /\ \A j \in 1 .. Len(s) + Len(t) : (s \o t)[j] = IF j <= Len(s) THEN s[j] ELSE t[j - Len(s)]
      <4>1. s \in Seq(V) /\ t \in Seq(V)
        BY <3>6
      <4> QED BY ONLY <4>1, ConcatProperties
    <3>8. ASSUME NEW j \in 1 .. (m + 1) PROVE (s \o t)[j] = u[j]
      <4>1. j \in 1 .. Len(s) + Len(t)
        BY <3>6
      <4>2. CASE j = 1
        <5>1. n - (m + 1) + j = k /\ j <= Len(s)
          BY <4>2, <3>6, <1>4
        <5> QED BY <4>1, <4>2, <5>1, <3>6, <3>7
      <4>3. CASE j # 1
        <5>1. /\ ~(j <= Len(s)) /\ j - Len(s) \in 1 .. m /\ n - m + (j - Len(s)) = n - (m + 1) + j
          BY <4>3, <3>6, <1>4
        <5>2. (s \o t)[j] = t[j - Len(s)]
          BY <4>1, <5>1, <3>7
        <5>3. t[j - Len(s)] = ks[n - m + (j - Len(s))]
          BY <5>1, <3>6
        <5> QED BY <5>1, <5>2, <5>3, <3>6
      <4> QED BY <4>2, <4>3
    <3>9. Len(s \o t) = Len(u)
      BY <3>6, <3>7
    <3>10. s \o t = u
      <4>1. s \o t \in Seq(V) /\ u \in Seq(V) /\ \A j \in 1 .. Len(s \o t) : (s \o t)[j] = u[j]
        BY <3>6, <3>7, <3>8, <3>9
      <4> QED BY ONLY <4>1, <3>9, SeqEqual
    <3> QED BY <3>10 DEF s, t, u
  <2> HIDE DEF Left, k
  <2>4. data[2 * k] # Mark("e")
    <3>1. \A t : Text(t) # Mark("e")
      BY DEF Text, Mark
    <3> QED BY <1>3, <2>1, <3>1
  <2>5. DecodeAt(data, f, "entries", 2 * k, 0) =
          EntryThen(f[<<"value", 2 * k, 1>>], f[<<"value", f[<<"value", 2 * k, 1>>].next, 1>>],
                    f[<<"entries", f[<<"value", f[<<"value", 2 * k, 1>>].next, 1>>].next, 0>>])
    <3>1. 0 + 1 = 1
      OBVIOUS
    <3> QED BY <1>5, <2>1, <2>4, <3>1, DecodeEntry
  <2>6. DecodeAt(data, f, "entries", 2 * k, 0) =
          EntryThen(Decoded(Text(ks[k].key), 2 * k + 1), Decoded(ks[k].val, 2 * k + 2),
                    Decoded(Left(m), 2 * n + 3))
    <3>1. f[<<"value", 2 * k, 1>>] = Decoded(Text(ks[k].key), 2 * k + 1)
      BY <1>8, <2>1
    <3>2. f[<<"value", 2 * k + 1, 1>>] = Decoded(ks[k].val, 2 * k + 2)
      BY <1>8, <2>1
    <3>3. f[<<"value", 2 * k, 1>>].next = 2 * k + 1 /\ f[<<"value", 2 * k + 1, 1>>].next = 2 * k + 2
      BY <3>1, <3>2, NotError
    <3> QED BY <2>2, <2>5, <3>1, <3>2, <3>3
  <2>7. IsText(Text(ks[k].key)) /\ Text(ks[k].key).text = ks[k].key
    BY DEF IsText, Text
  <2>8. DecodeAt(data, f, "entries", 2 * k, 0) =
          Decoded(<<Entry(ks[k].key, ks[k].val)>> \o Left(m), 2 * n + 3)
    BY <2>6, <2>7, NotError DEF EntryThen
  <2>9. f[<<"entries", 2 * k, 0>>] = DecodeAt(data, f, "entries", 2 * k, 0)
    BY <1>7, <2>1
  <2> QED BY <1>4, <2>1, <2>3, <2>8, <2>9
<1> HIDE DEF T
<1>11. n \in T
  BY <1>4, <1>9, <1>10, EveryNumber
<1>12. f[<<"entries", 2, 0>>] = Decoded(ks, 2 * n + 3)
  <2>1. 2 * (n - n) + 2 = 2 /\ n <= n
    BY <1>4
  <2>2. Left(n) = ks
    <3>1. ks = [j \in 1 .. n |-> ks[j]]
      <4>1. PICK q : ks = Arranged(es, q)
        BY <1>1
      <4>2. ks = [j \in DOMAIN es |-> es[q[j]]]
        BY <4>1 DEF Arranged
      <4> QED BY <1>4, <4>2
    <3>2. \A j \in 1 .. n : n - n + j = j
      BY <1>4
    <3>3. \A j \in 1 .. n : Left(n)[j] = ks[j]
      BY <3>2
    <3> QED BY <3>1, <3>3
  <2> HIDE DEF Left
  <2> QED BY <1>11, <2>1, <2>2 DEF T
<1>13. f[<<"value", 1, 0>>] = Decoded(Dict(ks), 2 * n + 3)
  <2>1. 1 \in 1 .. Len(data) /\ 0 \in 0 .. MaxDepth /\ 1 + 1 = 2
    BY <1>3, <1>4
  <2>2. DecodeAt(data, f, "value", 1, 0) = DictOf(f[<<"entries", 2, 0>>])
    BY <1>3, <1>5, <2>1, DecodeDict
  <2>3. DictAccepted(ks)
    <3>1. Len(ks) <= MaxDict
      BY <1>2 DEF FlatEntries
    <3>2. IsInjective([i \in DOMAIN ks |-> ks[i].key])
      BY <1>4 DEF IsInjective
    <3> QED BY <3>1, <3>2 DEF DictAccepted
  <2>4. DictOf(Decoded(ks, 2 * n + 3)) = Decoded(Dict(ks), 2 * n + 3)
    BY <2>3, NotError DEF DictOf
  <2> QED BY <1>7, <1>12, <2>1, <2>2, <2>4
<1>14. bdecode_dict(data) = Dict(ks)
  <2>1. IsDict(Dict(ks))
    BY DEF IsDict, Dict
  <2>2. Len(data) + 1 = 2 * n + 3
    BY <1>3, <1>4
  <2>3. _bdecode(data) = Decoded(Dict(ks), 2 * n + 3)
    BY <1>6, <1>13
  <2> QED BY <2>1, <2>2, <2>3, NotError DEF bdecode_dict
<1> QED BY <1>1, <1>14 DEF ks, data

\* What bencode_dict writes bdecode_dict reads: of any dictionary of the relay's
\* keys with text, numbers or SDP, in any order and of any size that is accepted, each
\* field is decoded with its value, and no other field is.
THEOREM FieldsDecoded ==
    ASSUME NEW es, FlatEntries(es), NEW d, d = bdecode_dict(_bencode(Dict(es)))
    PROVE /\ \A k : Has(d, k) => \E i \in DOMAIN es : es[i].key = k
          /\ \A i \in DOMAIN es : Has(d, es[i].key) /\ Get(d, es[i].key) = es[i].val
<1>1. PICK p \in Bijection(DOMAIN es, DOMAIN es) : d = Dict(Arranged(es, p))
  BY RoundTrip, CodecAssumption
<1> DEFINE ks == Arranged(es, p)
<1>2. /\ d.dict = ks /\ DOMAIN ks = DOMAIN es
      /\ \A j \in DOMAIN es : p[j] \in DOMAIN es /\ ks[j] = es[p[j]]
  BY <1>1 DEF Dict, Arranged, Bijection, Injection
<1>3. \A i \in DOMAIN es : \E j \in DOMAIN es : p[j] = i
  BY DEF Bijection, Surjection
<1>4. \A i, j \in DOMAIN es : es[i].key = es[j].key => i = j
  BY DEF FlatEntries
<1> HIDE DEF ks
<1>5. ASSUME NEW k, Has(d, k) PROVE \E i \in DOMAIN es : es[i].key = k
  BY <1>2, <1>5 DEF Has
<1>6. ASSUME NEW i \in DOMAIN es PROVE Has(d, es[i].key) /\ Get(d, es[i].key) = es[i].val
  <2>1. PICK j \in DOMAIN es : p[j] = i
    BY <1>3
  <2>2. Has(d, es[i].key)
    BY <1>2, <2>1 DEF Has
  <2> DEFINE m == CHOOSE l \in DOMAIN d.dict : d.dict[l].key = es[i].key
  <2>3. m \in DOMAIN d.dict /\ d.dict[m].key = es[i].key
    BY <2>2 DEF Has
  <2> HIDE DEF m
  <2>4. p[m] = i
    BY <1>2, <1>4, <2>3
  <2>5. Get(d, es[i].key) = d.dict[m].val
    BY DEF Get, m
  <2> QED BY <1>2, <2>2, <2>3, <2>4, <2>5
<1> QED BY <1>5, <1>6

---------------------------------------------------------------------------
(* Replies *)

LEMMA PlainValues == \A s : Plain(Text(s)) /\ Plain(Sdp(s))
BY DEF Plain, Text, Sdp

LEMMA KnownKeys ==
    {"result", "sdp", "error-reason"} \subseteq {KeyOrder[j] : j \in DOMAIN KeyOrder}
<1>1. KeyOrder[5] = "result" /\ KeyOrder[6] = "sdp" /\ KeyOrder[3] = "error-reason"
  BY DEF KeyOrder
<1>2. 5 \in DOMAIN KeyOrder /\ 6 \in DOMAIN KeyOrder /\ 3 \in DOMAIN KeyOrder
  BY KeyOrderDomain
<1> QED BY <1>1, <1>2

LEMMA OneEntry ==
    ASSUME NEW v, Plain(v) PROVE FlatEntries(<<Entry("result", v)>>)
<1> DEFINE es == <<Entry("result", v)>>
<1>1. Len(es) = 1 /\ DOMAIN es = 1 .. 1 /\ es[1] = Entry("result", v)
  OBVIOUS
<1>2. \A i \in 1 .. 1 : es[i] = Entry("result", v)
  BY <1>1
<1>3. 1 \in 1 .. MaxDict
  BY CodecAssumption
<1> HIDE DEF es
<1>4. FlatEntries(es)
  BY <1>1, <1>2, <1>3, EntryFields, KnownKeys DEF FlatEntries
<1> QED BY <1>4 DEF es

LEMMA TwoEntries ==
    ASSUME NEW v, Plain(v), NEW w, Plain(w), NEW k \in {"sdp", "error-reason"}
    PROVE FlatEntries(<<Entry("result", v), Entry(k, w)>>)
<1> DEFINE es == <<Entry("result", v), Entry(k, w)>>
<1>1. Len(es) = 2 /\ DOMAIN es = 1 .. 2 /\ es[1] = Entry("result", v) /\ es[2] = Entry(k, w)
  OBVIOUS
<1>2. \A i \in 1 .. 2 : i = 1 \/ i = 2
  OBVIOUS
<1>3. 2 \in 1 .. MaxDict
  BY CodecAssumption
<1>4. k # "result" /\ k \in {KeyOrder[j] : j \in DOMAIN KeyOrder} /\ "result" \in {KeyOrder[j] : j \in DOMAIN KeyOrder}
  BY KnownKeys
<1> HIDE DEF es
<1>5. /\ es[1].key = "result" /\ es[1].val = v /\ es[2].key = k /\ es[2].val = w
  BY <1>1, EntryFields
<1>6. \A i \in DOMAIN es : /\ es[i] = Entry(es[i].key, es[i].val)
                           /\ es[i].key \in {KeyOrder[j] : j \in DOMAIN KeyOrder}
                           /\ Plain(es[i].val)
  BY <1>1, <1>2, <1>4, <1>5
<1>7. \A i, j \in DOMAIN es : es[i].key = es[j].key => i = j
  BY <1>1, <1>2, <1>4, <1>5
<1>8. FlatEntries(es)
  BY <1>1, <1>3, <1>6, <1>7 DEF FlatEntries
<1> QED BY <1>8 DEF es

\* a reply without SDP has none when it is decoded
LEMMA NoSdp ==
    ASSUME NEW v, Plain(v), NEW w, Plain(w)
    PROVE /\ ~ HasSdp(bdecode_dict(_bencode(Dict(<<Entry("result", v)>>))))
          /\ ~ HasSdp(bdecode_dict(_bencode(Dict(<<Entry("result", v), Entry("error-reason", w)>>))))
<1>1. ~ Has(bdecode_dict(_bencode(Dict(<<Entry("result", v)>>))), "sdp")
  <2> DEFINE es == <<Entry("result", v)>>
  <2>1. FlatEntries(es)
    BY OneEntry
  <2>2. \A i \in DOMAIN es : es[i].key # "sdp"
    <3>1. \A i \in DOMAIN es : es[i] = Entry("result", v)
      OBVIOUS
    <3> HIDE DEF es
    <3> QED BY <3>1, EntryFields
  <2> HIDE DEF es
  <2>3. ~ Has(bdecode_dict(_bencode(Dict(es))), "sdp")
    BY <2>1, <2>2, FieldsDecoded
  <2> QED BY <2>3 DEF es
<1>2. ~ Has(bdecode_dict(_bencode(Dict(<<Entry("result", v), Entry("error-reason", w)>>))), "sdp")
  <2> DEFINE es == <<Entry("result", v), Entry("error-reason", w)>>
  <2>1. FlatEntries(es)
    BY TwoEntries
  <2>2. \A i \in DOMAIN es : es[i].key # "sdp"
    <3>1. \A i \in DOMAIN es : es[i] = Entry("result", v) \/ es[i] = Entry("error-reason", w)
      OBVIOUS
    <3> HIDE DEF es
    <3> QED BY <3>1, EntryFields
  <2> HIDE DEF es
  <2>3. ~ Has(bdecode_dict(_bencode(Dict(es))), "sdp")
    BY <2>1, <2>2, FieldsDecoded
  <2> QED BY <2>3 DEF es
<1> QED BY <1>1, <1>2 DEF HasSdp, HasText

\* a reply with SDP has that SDP when it is decoded
LEMMA SdpDecoded ==
    ASSUME NEW v, Plain(v), NEW sdp
    PROVE SdpOf(bdecode_dict(_bencode(Dict(<<Entry("result", v), Entry("sdp", Sdp(sdp))>>)))) = sdp
<1> DEFINE es == <<Entry("result", v), Entry("sdp", Sdp(sdp))>>
           d == bdecode_dict(_bencode(Dict(es)))
<1>1. FlatEntries(es)
  BY TwoEntries, PlainValues
<1>2. 2 \in DOMAIN es /\ es[2].key = "sdp" /\ es[2].val = Sdp(sdp)
  <2>1. 2 \in DOMAIN es /\ es[2] = Entry("sdp", Sdp(sdp))
    OBVIOUS
  <2> HIDE DEF es
  <2> QED BY <2>1, EntryFields
<1> HIDE DEF es, d
<1>3. Get(d, "sdp") = Sdp(sdp)
  BY <1>1, <1>2, FieldsDecoded DEF d
<1>4. IsSdp(Sdp(sdp)) /\ Sdp(sdp).sdp = sdp
  BY DEF IsSdp, Sdp
<1>5. SdpOf(d) = sdp
  BY <1>3, <1>4 DEF SdpOf
<1> QED BY <1>5 DEF d, es

LEMMA LinesFinite ==
    ASSUME NEW sdp, IsSequence(sdp)
    PROVE \A S : S \subseteq DOMAIN sdp => IsFiniteSet(S) /\ S \subseteq Nat
<1>1. DOMAIN sdp = 1 .. Len(sdp) /\ Len(sdp) \in Nat
  BY DEF IsSequence
<1>2. IsFiniteSet(DOMAIN sdp)
  BY <1>1, FS_Interval
<1>3. DOMAIN sdp \subseteq Nat
  BY <1>1
<1> QED BY <1>2, <1>3, FS_Subset

LEMMA LinesIn == \A sdp, kind : Lines(sdp, kind) \subseteq DOMAIN sdp
BY DEF Lines

LEMMA OnlyOne == \A x : x \in Int => Min({x}) = x /\ Max({x}) = x
BY DEF Min, Max

LEMMA LineFields == \A k, x : Line(k, x).kind = k /\ Line(k, x).at = x
BY DEF Line

\* a set of numbers has its least element
LEMMA MinIn == ASSUME NEW S \in SUBSET Nat, S # {} PROVE Min(S) \in S
<1>1. \E i \in S : \A j \in S : i <= j
  BY LeastOf
<1> QED BY <1>1 DEF Min

\* rewrite_sdp replaces lines, it adds none
LEMMA LinesKept ==
    ASSUME NEW sdp, IsSequence(sdp), Lines(sdp, "c") # {}, Lines(sdp, "m") # {}, NEW ip, NEW p
    PROVE /\ DOMAIN rewrite_sdp(sdp, ip, p) = DOMAIN sdp
          /\ \A i \in DOMAIN sdp : rewrite_sdp(sdp, ip, p)[i].kind = sdp[i].kind
          /\ rewrite_sdp(sdp, ip, p)[Min(Lines(sdp, "c"))].at = ip
          /\ rewrite_sdp(sdp, ip, p)[Min(Lines(sdp, "m"))].at = p
<1> DEFINE b == Min(Lines(sdp, "c"))
           m == Min(Lines(sdp, "m"))
           new == rewrite_sdp(sdp, ip, p)
<1>1. b \in Lines(sdp, "c") /\ m \in Lines(sdp, "m")
  BY MinIn, LinesFinite, LinesIn
<1>2. new = [i \in DOMAIN sdp |-> CASE i = b -> Line("c", ip) [] i = m -> Line("m", p) [] OTHER -> sdp[i]]
  BY DEF rewrite_sdp
<1> HIDE DEF b, m, new
<1>3. b \in DOMAIN sdp /\ sdp[b].kind = "c" /\ m \in DOMAIN sdp /\ sdp[m].kind = "m" /\ b # m
  BY <1>1 DEF Lines
<1>4. /\ DOMAIN new = DOMAIN sdp /\ new[b] = Line("c", ip) /\ new[m] = Line("m", p)
      /\ \A i \in DOMAIN sdp : i # b /\ i # m => new[i] = sdp[i]
  BY <1>2, <1>3
<1>5. \A i \in DOMAIN sdp : new[i].kind = sdp[i].kind
  <2> SUFFICES ASSUME NEW i \in DOMAIN sdp PROVE new[i].kind = sdp[i].kind
    OBVIOUS
  <2>1. CASE i = b
    BY <1>3, <1>4, <2>1, LineFields
  <2>2. CASE i = m
    BY <1>3, <1>4, <2>2, LineFields
  <2>3. CASE i # b /\ i # m
    BY <1>4, <2>3
  <2> QED BY <2>1, <2>2, <2>3
<1>6. new[b].at = ip /\ new[m].at = p
  BY <1>4, LineFields
<1> QED BY <1>4, <1>5, <1>6 DEF b, m, new

\* parsing an SDP with one connection line and one audio line
LEMMA ParseOne ==
    ASSUME NEW sdp, IsSequence(sdp), NEW c, NEW m, Lines(sdp, "c") = {c}, Lines(sdp, "m") = {m},
           sdp[1].kind = "v", sdp[c].at # 0, sdp[m].at \in 1 .. MaxPort
    PROVE parse_sdp(sdp) = [address |-> <<sdp[c].at, sdp[m].at>>]
<1>1. c \in Nat /\ m \in Nat
  BY LinesFinite, LinesIn
<1>2. {i \in Lines(sdp, "c") : sdp[i].at # 0} = {c}
  OBVIOUS
<1>3. Cardinality({c}) = 1 /\ Cardinality({m}) = 1 /\ Max({c}) = c /\ Max({m}) = m
  BY <1>1, FS_Singleton, OnlyOne
<1> QED BY <1>2, <1>3 DEF parse_sdp

\* what a parsed SDP is made of
LEMMA ParsedParts ==
    ASSUME NEW sdp, IsSequence(sdp), parse_sdp(sdp) # Error
    PROVE /\ sdp[1].kind = "v" /\ Lines(sdp, "c") # {} /\ \E m : Lines(sdp, "m") = {m}
<1> DEFINE conns == {i \in Lines(sdp, "c") : sdp[i].at # 0}
<1>1. sdp[1].kind = "v" /\ Cardinality(conns) = 1 /\ Cardinality(Lines(sdp, "m")) = 1
  BY DEF parse_sdp
<1>2. conns \subseteq Lines(sdp, "c")
  OBVIOUS
<1> HIDE DEF conns
<1>3. IsFiniteSet(conns) /\ IsFiniteSet(Lines(sdp, "m"))
  <2>1. conns \subseteq DOMAIN sdp /\ Lines(sdp, "m") \subseteq DOMAIN sdp
    BY <1>2, LinesIn
  <2> QED BY <2>1, LinesFinite
<1>4. (\E c : conns = {c}) /\ \E m : Lines(sdp, "m") = {m}
  BY <1>1, <1>3, FS_Singleton
<1> QED BY <1>1, <1>2, <1>4

\* rewrite_sdp moves the media: of any SDP that parse_sdp accepts and that has one
\* connection line, the rewritten one is accepted too and gives the relay's host
\* and the new port, whatever else is in it.
THEOREM RewriteParsed ==
    ASSUME NEW sdp, IsSequence(sdp), parse_sdp(sdp) # Error,
           NEW ip, ip # 0, NEW p \in 1 .. MaxPort,
           Cardinality(Lines(rewrite_sdp(sdp, ip, p), "c")) = 1
    PROVE parse_sdp(rewrite_sdp(sdp, ip, p)) = [address |-> <<ip, p>>]
<1> DEFINE new == rewrite_sdp(sdp, ip, p)
<1>1. sdp[1].kind = "v" /\ Lines(sdp, "c") # {}
  BY ParsedParts
<1>2. PICK m : Lines(sdp, "m") = {m}
  BY ParsedParts
<1>3. Lines(sdp, "m") # {}
  BY <1>2
<1>4. /\ DOMAIN new = DOMAIN sdp /\ \A i \in DOMAIN sdp : new[i].kind = sdp[i].kind
      /\ new[Min(Lines(sdp, "c"))].at = ip /\ new[Min(Lines(sdp, "m"))].at = p
  BY <1>1, <1>3, LinesKept
<1>5. new = [i \in DOMAIN new |-> new[i]]
  BY DEF rewrite_sdp
<1>6. Cardinality(Lines(new, "c")) = 1
  OBVIOUS
<1> HIDE DEF new
<1>7. \A kind : Lines(new, kind) = Lines(sdp, kind)
  BY <1>4 DEF Lines
<1>8. PICK c : Lines(sdp, "c") = {c}
  <2>1. Cardinality(Lines(sdp, "c")) = 1
    BY <1>6, <1>7
  <2>2. IsFiniteSet(Lines(sdp, "c"))
    BY LinesFinite, LinesIn
  <2> QED BY <2>1, <2>2, FS_Singleton
<1>9. c \in Nat /\ m \in Nat /\ c \in DOMAIN sdp
  BY <1>2, <1>8, LinesFinite, LinesIn
<1>10. Min(Lines(sdp, "c")) = c /\ Min(Lines(sdp, "m")) = m
  BY <1>2, <1>8, <1>9, OnlyOne
<1>11. new[c].at = ip /\ new[m].at = p
  BY <1>4, <1>10
<1>12. IsSequence(new) /\ 1 \in DOMAIN sdp
  <2>1. Len(sdp) \in Nat /\ DOMAIN sdp = 1 .. Len(sdp)
    BY DEF IsSequence
  <2>2. new = [i \in 1 .. Len(sdp) |-> new[i]]
    BY <1>4, <1>5, <2>1
  <2>3. Len(new) = Len(sdp)
    BY <2>1, <2>2
  <2> QED BY <1>4, <1>9, <2>1, <2>3 DEF IsSequence
<1>13. new[1].kind = "v"
  BY <1>1, <1>4, <1>12
<1>14. Lines(new, "c") = {c} /\ Lines(new, "m") = {m}
  BY <1>2, <1>7, <1>8
<1>15. parse_sdp(new) = [address |-> <<new[c].at, new[m].at>>]
  BY <1>11, <1>12, <1>13, <1>14, ParseOne
<1> QED BY <1>11, <1>15 DEF new

---------------------------------------------------------------------------
(* The SDP of the replies *)

LEMMA PortsInRange == Ports \subseteq 1 .. MaxPort
<1>1. MaxPort \in Nat
  BY SMT DEF MaxPort
<1> QED BY <1>1, RangeAssumption, MediaAssumption DEF Ports

\* what ReplySdp says of a payload, whatever the ports are
Directs(payload, ports) ==
    \A r \in {bdecode_dict(payload)} :
       HasSdp(r) /\ Cardinality(Lines(SdpOf(r), "c")) = 1
          => \E l \in Legs : parse_sdp(SdpOf(r)) = [address |-> <<MediaIp, ports[l]>>]

LEMMA PlainReply ==
    ASSUME NEW d, Ok(d) \/ \E reason : _error(d, reason)
    PROVE reply' # None => Directs(reply'.payload, port')
<1>1. CASE Ok(d)
  <2>1. reply'.payload = _bencode(Dict(<<Entry("result", Text("ok"))>>))
    BY <1>1 DEF Ok, Reply
  <2> QED BY <2>1, NoSdp, PlainValues DEF Directs
<1>2. ASSUME NEW reason, _error(d, reason) PROVE Directs(reply'.payload, port')
  <2>1. reply'.payload = _bencode(Dict(<<Entry("result", Text("error")), Entry("error-reason", Text(reason))>>))
    BY <1>2 DEF _error, Reply
  <2> QED BY <2>1, NoSdp, PlainValues DEF Directs
<1> QED BY <1>1, <1>2

LEMMA SdpReply ==
    ASSUME NEW d, NEW cmd, IsSequence(SdpOf(cmd)), parse_sdp(SdpOf(cmd)) # Error,
           NEW l \in Legs, port'[l] \in Ports, Rewritten(d, cmd, l)
    PROVE Directs(reply'.payload, port')
<1> DEFINE sdp == SdpOf(cmd)
           new == rewrite_sdp(sdp, MediaIp, port'[l])
           r == bdecode_dict(reply'.payload)
<1>1. reply'.payload = _bencode(Dict(<<Entry("result", Text("ok")), Entry("sdp", Sdp(new))>>))
  BY DEF Rewritten, OkSdp, Reply
<1> HIDE DEF new
<1>2. SdpOf(r) = new
  BY <1>1, SdpDecoded, PlainValues
<1> HIDE DEF r
<1>3. ASSUME Cardinality(Lines(new, "c")) = 1
      PROVE parse_sdp(new) = [address |-> <<MediaIp, port'[l]>>]
  <2>1. port'[l] \in 1 .. MaxPort
    BY PortsInRange
  <2> QED BY <1>3, <2>1, RewriteParsed, MediaAssumption DEF new
<1> QED BY <1>2, <1>3 DEF Directs, r

\* what a served datagram is answered with
LEMMA PayloadReply ==
    ASSUME NEW d \in Datagrams, HandlePayload(d, Decoding[d]), TypeOK
    PROVE reply' # None => Directs(reply'.payload, port')
<1> DEFINE cmd == Decoding[d]
           c == CallId(cmd)
           sdp == SdpOf(cmd)
<1>1. /\ Operation(cmd) \in {"offer", "answer"} => c \in Calls
      /\ Operation(cmd) \in {"offer", "answer"} => IsSequence(sdp)
  BY DatagramsAssumption
<1> HIDE DEF cmd, c
<1>2. CASE Ping(d, cmd) \/ DeleteCommand(d, cmd)
  <2>1. Ok(d)
    BY <1>2 DEF Ping, DeleteCommand
  <2> QED BY <2>1, PlainReply
<1>3. CASE Refused(d, cmd)
  <2>1. \E reason : _error(d, reason)
    BY <1>3 DEF Refused
  <2> QED BY <2>1, PlainReply
<1>4. CASE OfferCommand(d, cmd)
  <2> DEFINE l == <<c, "offer">>
  <2>1. \/ (\E reason : _error(d, reason))
        \/ /\ Operation(cmd) = "offer" /\ parse_sdp(sdp) # Error
           /\ ControlOffer(c, FromTag(cmd), parse_sdp(sdp).address) /\ Rewritten(d, cmd, l)
    BY <1>4 DEF OfferCommand, c
  <2>2. ASSUME Operation(cmd) = "offer", ControlOffer(c, FromTag(cmd), parse_sdp(sdp).address)
        PROVE l \in Legs /\ port'[l] \in Ports
    <3>1. l \in Legs
      BY <1>1, <2>2, LegsPairs
    <3>2. PICK q \in Free(open \ BoundTo({c})) : port' = With(port, l, {c}, q)
      BY <2>2 DEF ControlOffer, Offer
    <3>3. q \in Ports
      BY FreePort
    <3> QED BY <3>1, <3>2, <3>3 DEF With, Without
  <2> HIDE DEF l
  <2>3. ASSUME Operation(cmd) = "offer", parse_sdp(sdp) # Error,
               ControlOffer(c, FromTag(cmd), parse_sdp(sdp).address), Rewritten(d, cmd, l)
        PROVE Directs(reply'.payload, port')
    BY <1>1, <2>2, <2>3, SdpReply
  <2> QED BY <2>1, <2>3, PlainReply
<1>5. CASE AnswerCommand(d, cmd)
  <2> DEFINE l == <<c, "answer">>
  <2>1. \/ (\E reason : _error(d, reason))
        \/ /\ Operation(cmd) = "answer" /\ parse_sdp(sdp) # Error
           /\ ControlAnswer(c, FromTag(cmd), parse_sdp(sdp).address) /\ Rewritten(d, cmd, l)
    BY <1>5 DEF AnswerCommand, c
  <2>2. ASSUME Operation(cmd) = "answer", ControlAnswer(c, FromTag(cmd), parse_sdp(sdp).address)
        PROVE l \in Legs /\ port'[l] \in Ports
    <3>1. l \in Legs
      BY <1>1, <2>2, LegsPairs
    <3>2. PICK q \in Free(open) : port' = [port EXCEPT ![l] = q]
      BY <2>2 DEF ControlAnswer, Answer, AddAnswer
    <3>3. q \in Ports
      BY FreePort
    <3>4. port \in [Legs -> Ports \cup {None}]
      BY DEF TypeOK
    <3> QED BY <3>1, <3>2, <3>3, <3>4
  <2> HIDE DEF l
  <2>3. ASSUME Operation(cmd) = "answer", parse_sdp(sdp) # Error,
               ControlAnswer(c, FromTag(cmd), parse_sdp(sdp).address), Rewritten(d, cmd, l)
        PROVE Directs(reply'.payload, port')
    BY <1>1, <2>2, <2>3, SdpReply
  <2> QED BY <2>1, <2>3, PlainReply
<1>6. HandlePayload(d, cmd)
  BY DEF cmd
<1> QED BY <1>2, <1>3, <1>4, <1>5, <1>6 DEF HandlePayload

LEMMA ReplyStep == TypeOK /\ ReplySdp /\ [ControlNext]_controlVars => ReplySdp'
<1> SUFFICES ASSUME TypeOK, ReplySdp, [ControlNext]_controlVars PROVE ReplySdp'
  OBVIOUS
<1>1. (reply' # None => Directs(reply'.payload, port')) => ReplySdp'
  BY DEF ReplySdp, Directs
<1>2. ASSUME NEW d \in Datagrams, ControlDatagram(d) PROVE ReplySdp'
  <2>1. CASE Ignored(d)
    BY <1>1, <2>1 DEF Ignored
  <2>2. CASE HandlePayload(d, Decoding[d])
    BY <1>1, <2>2, PayloadReply
  <2> QED BY <1>2, <2>1, <2>2 DEF ControlDatagram
<1>3. CASE reply' = None
  BY <1>1, <1>3
<1>4. CASE UNCHANGED controlVars
  <2>1. reply' = reply /\ port' = port
    BY <1>4 DEF controlVars, vars
  <2> QED BY <1>1, <2>1 DEF ReplySdp, Directs
<1> QED BY <1>2, <1>3, <1>4 DEF ControlNext

\* A party that is sent to the relay is sent to an open port of it: what the
\* sidecar answers to an offer or an answer decodes, for any decoder with the
\* code's limits, to an SDP whose address is the relay's host with the port of
\* a leg.  The reply passes bencode_dict, bdecode_dict, rewrite_sdp and parse_sdp.
THEOREM ReplySdpHolds == ControlSpec => []ReplySdp
<1>1. ControlSpec => Spec
  BY ControlStep, PTL DEF ControlSpec, ControlInit, Spec
<1>2. ControlInit => ReplySdp
  BY DEF ControlInit, ReplySdp
<1> QED BY <1>1, <1>2, ReplyStep, TypeCorrect, PTL DEF ControlSpec
=============================================================================
