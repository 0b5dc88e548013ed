----------------------------- MODULE MediaRelay -----------------------------
(***************************************************************************)
(* The sessions of the media relay (media/rtp_module.py): one UDP port per *)
(* leg of a call, opened by the offer and the answer of the proxy, closed  *)
(* by its delete, by a new offer of the call, by idleness or by the end of *)
(* the process.  One thread serves everything: select() returns a batch of *)
(* readable sockets, each is given one datagram's worth of work, then the  *)
(* idle sessions are removed.  Control datagrams may be lost, repeated and *)
(* late, so any command may come at any time; so may any media packet.     *)
(*                                                                         *)
(* A leg is a call and a side; a socket is named by its port.  The to_tag  *)
(* of a session is stored by the code and never read: it is left out.      *)
(***************************************************************************)
EXTENDS Integers, FiniteSets

CONSTANTS
    Calls,        \* call-id values
    Tags,         \* from-tag values
    MediaMin,     \* the port range
    MediaMax,
    MaxSessions,  \* --max-sessions
    Endpoints,    \* addresses of the parties, host and port
    Timeout,      \* --session-timeout, in ticks of the clock
    None

Ports == MediaMin .. MediaMax
Sides == {"offer", "answer"}
Legs == Calls \X Sides

\* the control socket, among the sockets of a batch
Control == 0

\* the checks of MediaRelay.__init__
ASSUME RangeAssumption ==
    /\ MediaMin \in Nat \ {0} /\ MediaMax \in Nat /\ MediaMin <= MediaMax
    /\ MaxSessions \in Nat \ {0}
    /\ Timeout \in Nat \ {0}
ASSUME SetsAssumption ==
    /\ IsFiniteSet(Calls)
    /\ None \notin Tags /\ None \notin Endpoints /\ None \notin Ports

VARIABLES
    from,        \* from_tag of the session of a call, None without a session
    port,        \* the bound port of a leg, None without a leg
    advertised,  \* the address a leg's SDP gave
    observed,    \* the source a leg's packets come from, None before the first
    idle,        \* ticks since last_activity
    open,        \* ports with an open socket in the selector
    batch,       \* readable sockets of the loop's round not handled yet
    pc,          \* the loop: before select, in a round, after close
    fresh        \* history: ports opened in this round

vars == <<from, port, advertised, observed, idle, open, batch, pc, fresh>>

Init ==
    /\ from = [c \in Calls |-> None]
    /\ port = [l \in Legs |-> None]
    /\ advertised = [l \in Legs |-> None]
    /\ observed = [l \in Legs |-> None]
    /\ idle = [c \in Calls |-> 0]
    /\ open = {}
    /\ batch = {}
    /\ pc = "select"
    /\ fresh = {}

Live == {c \in Calls : from[c] # None}
LegsOf(S) == S \X Sides

---------------------------------------------------------------------------
(* Sessions *)

\* Mutation: the answer leg of a removed session stays open
BoundToOffer(S) == {port[<<c, "offer">>] : c \in S} \ {None}

\* the ports _delete_session closes, for the sessions of the calls S
BoundTo(S) == {port[l] : l \in LegsOf(S)} \ {None}

\* _allocate_socket: the lowest port that is free, no port when there is none
Free(o) == {p \in Ports \ o : \A q \in Ports \ o : p <= q}

Without(f, S) == [l \in Legs |-> IF l[1] \in S THEN None ELSE f[l]]

\* _delete_session of the calls S, which need not have a session
Delete(S) ==
    /\ from' = [c \in Calls |-> IF c \in S THEN None ELSE from[c]]
    /\ port' = Without(port, S)
    /\ advertised' = Without(advertised, S)
    /\ observed' = Without(observed, S)
    /\ idle' = [c \in Calls |-> IF c \in S THEN 0 ELSE idle[c]]
    /\ open' = open \ BoundTo(S)

With(f, l, S, x) == [Without(f, S) EXCEPT ![l] = x]

\* Mutation: the rest of the round is told apart by port, not by socket
HandledByPort(closed) ==
    /\ batch' = batch \ {Control}
    /\ fresh' = fresh \cup (open' \ (open \ closed))

\* the control socket is done with; an event of a socket just closed, which is
\* still in the batch, fails in recvfrom even when its port is open again
Handled(closed) ==
    /\ batch' = batch \ (closed \cup {Control})
    /\ fresh' = fresh \cup (open' \ (open \ closed))

\* Mutation: one session too many is taken
RoomOneMore(c) == Cardinality(Live \ {c}) <= MaxSessions

\* the limit is tested after the session of the same call is removed
Room(c) == Cardinality(Live \ {c}) < MaxSessions

\* _offer: the call's session, if any, is removed first, whatever follows
Offer(c, t, adv) ==
    LET l == <<c, "offer">> IN
    /\ Room(c)
    /\ \E p \in Free(open \ BoundTo({c})) :
          /\ from' = [from EXCEPT ![c] = t]
          /\ port' = With(port, l, {c}, p)
          /\ advertised' = With(advertised, l, {c}, adv)
          /\ observed' = Without(observed, {c})
          /\ idle' = [idle EXCEPT ![c] = 0]
          /\ open' = (open \ BoundTo({c})) \cup {p}

\* Mutation: an answer may come again
AnswerableAgain(c, t) == from[c] = t

\* _answer: for the session of this offer, which has no answer yet
Answerable(c, t) == from[c] = t /\ port[<<c, "answer">>] = None

AddAnswer(c, adv) ==
    LET l == <<c, "answer">> IN
    /\ \E p \in Free(open) :
          /\ port' = [port EXCEPT ![l] = p]
          /\ advertised' = [advertised EXCEPT ![l] = adv]
          /\ observed' = [observed EXCEPT ![l] = None]
          /\ open' = open \cup {p}
    /\ idle' = [idle EXCEPT ![c] = 0]
    /\ UNCHANGED from

Answer(c, t, adv) == Answerable(c, t) /\ AddAnswer(c, adv)

Unchanged == UNCHANGED <<from, port, advertised, observed, idle, open>>

---------------------------------------------------------------------------
(* The loop *)

\* the loop is in a round and socket x is next
Serving(x) == pc = "handle" /\ x \in batch /\ UNCHANGED pc

\* selector.select(timeout=1.0): any of the registered sockets
Select(ready) ==
    /\ pc = "select"
    /\ ready \subseteq open \cup {Control}
    /\ batch' = ready /\ pc' = "handle"
    /\ Unchanged /\ UNCHANGED fresh

\* the commands of handle_payload; an offer that fails (no room, no port, an
\* SDP that is refused) still removes the call's session, an answer that
\* fails changes nothing
ControlOffer(c, t, adv) ==
    Serving(Control) /\ Offer(c, t, adv) /\ Handled(BoundTo({c}))
ControlOfferFails(c) ==
    Serving(Control) /\ Delete({c}) /\ Handled(BoundTo({c}))
ControlAnswer(c, t, adv) ==
    Serving(Control) /\ Answer(c, t, adv) /\ Handled({})
ControlDelete(c) ==
    Serving(Control) /\ Delete({c}) /\ Handled(BoundTo({c}))
ControlNothing ==
    Serving(Control) /\ Unchanged /\ Handled({})

\* Mutation: the last source heard is latched
LatchedLast(l, src) == src \in Endpoints

\* a leg takes packets of one source, the first one heard
Latched(l, src) == observed[l] \in {None, src}

\* _handle_media_socket and _relay_packet, for a packet of RTP's shape, which is
\* then forwarded, as well as it goes, if the session has another leg
Media(l, src) ==
    /\ Serving(port[l])
    /\ Latched(l, src)
    /\ observed' = [observed EXCEPT ![l] = src]
    /\ idle' = [idle EXCEPT ![l[1]] = 0]
    /\ batch' = batch \ {port[l]}
    /\ UNCHANGED <<from, port, advertised, open, fresh>>

\* a packet of another source or another shape, or none after all
MediaDropped(x) ==
    Serving(x) /\ x # Control /\ Unchanged /\ batch' = batch \ {x} /\ UNCHANGED fresh

\* Mutation: a session is removed only when idle for longer than the timeout
ExpiredLater(c) == from[c] # None /\ idle[c] > Timeout

\* last_activity <= deadline
Expired(c) == from[c] # None /\ idle[c] >= Timeout

\* _expire_sessions, at the end of every round
Expire ==
    /\ pc = "handle" /\ batch = {}
    /\ Delete({c \in Calls : Expired(c)})
    /\ pc' = "select" /\ fresh' = {}
    /\ UNCHANGED batch

\* time passes; ages above the timeout are not told apart
Tick ==
    /\ idle' = [c \in Calls |->
                  IF from[c] # None /\ idle[c] < Timeout THEN idle[c] + 1 ELSE idle[c]]
    /\ UNCHANGED <<from, port, advertised, observed, open, batch, pc, fresh>>

\* close, when select fails or the process is stopped
Close ==
    /\ pc = "select"
    /\ Delete(Calls)
    /\ pc' = "stopped"
    /\ UNCHANGED <<batch, fresh>>

\* what the loop does by itself
Loop ==
    \/ \E ready \in SUBSET (open \cup {Control}) : Select(ready)
    \/ \E l \in Legs, src \in Endpoints : Media(l, src)
    \/ \E x \in batch : MediaDropped(x)
    \/ Expire

Next ==
    \/ \E c \in Calls, t \in Tags, adv \in Endpoints :
          ControlOffer(c, t, adv) \/ ControlAnswer(c, t, adv)
    \/ \E c \in Calls : ControlOfferFails(c) \/ ControlDelete(c)
    \/ ControlNothing
    \/ Loop \/ Tick \/ Close

Spec == Init /\ [][Next]_vars

---------------------------------------------------------------------------
(* Properties *)

\* Sessions, legs, ports and the loop are well formed.
TypeOK ==
    /\ from \in [Calls -> Tags \cup {None}]
    /\ port \in [Legs -> Ports \cup {None}]
    /\ advertised \in [Legs -> Endpoints \cup {None}]
    /\ observed \in [Legs -> Endpoints \cup {None}]
    /\ idle \in [Calls -> 0 .. Timeout]
    /\ open \subseteq Ports
    /\ batch \subseteq open \cup {Control}
    /\ pc \in {"select", "handle", "stopped"}
    /\ fresh \subseteq Ports

\* The open sockets are exactly the sockets of the legs, however sessions are
\* replaced, refused, deleted and expired: no port leaks, and no leg is left
\* whose socket is closed.
SocketsOwned == open = BoundTo(Calls)

\* Two legs never share a port: the media of two calls cannot be mixed up.
PortsDistinct ==
    \A l, m \in Legs : port[l] # None /\ port[l] = port[m] => l = m

\* A round serves no socket that it opened itself: the event select() reported
\* for a port is not taken for one of the next call that has the port.
FreshNotServed == batch \cap fresh = {}

\* There is no leg without a session, no answer without an offer, no leg
\* without its party's address, and never more sessions than the limit, also
\* when an offer is repeated.
SessionsWhole ==
    /\ \A c \in Calls : (from[c] # None) <=> (port[<<c, "offer">>] # None)
    /\ \A c \in Calls : port[<<c, "answer">>] # None => from[c] # None
    /\ \A l \in Legs : port[l] # None => advertised[l] # None
    /\ Cardinality(Live) <= MaxSessions

\* A leg's latched source never moves to another one; only a new socket forgets
\* it.  Packets of anyone else, late ones included, do not redirect the media.
LatchKept ==
    [][\A l \in Legs : observed[l] # None /\ observed'[l] # None
                          => observed'[l] = observed[l]]_vars

\* A repeated or late answer does not replace the leg of the first one: the
\* answered leg keeps its socket and address until its session goes.
AnswerOnce ==
    [][\A c \in Calls : LET l == <<c, "answer">> IN
          port[l] # None => \/ port'[l] = port[l] /\ advertised'[l] = advertised[l]
                            \/ port'[l] = None]_vars

\* A session without activity for the timeout is removed, or is active again:
\* an unanswered or abandoned call does not keep its ports.
Reclaimed ==
    \A c \in Calls : from[c] # None /\ idle[c] = Timeout
                        ~> from[c] = None \/ idle[c] # Timeout
=============================================================================
