---------------------------- MODULE MediaControl ----------------------------
(***************************************************************************)
(* The control side of the media relay (media/rtp_module.py): a datagram   *)
(* of the control socket is decoded, turned into at most one command on    *)
(* the sessions of MediaRelay, and answered.  Each action is an action of  *)
(* MediaRelay with the datagrams that lead to it and its reply.            *)
(***************************************************************************)
EXTENDS MediaRelay, NgCodec

CONSTANTS
    Datagrams,      \* what may arrive: source, cookie length and payload
    control_allow,  \* sources that are served
    MediaIp         \* the host of the rewritten SDP

VARIABLE reply  \* what the last step sent on the control socket

controlVars == <<vars, reply>>

\* _handle_control_socket: an allowed source, a cookie and a payload
Served(d) ==
    /\ d.source \in control_allow
    /\ d.cookie \in 1 .. 64 /\ d.payload # <<>>

\* bencode_dict of a reply
Reply(d, entries) ==
    \E answer \in {Dict(entries)} : reply' = [to |-> d.source, payload |-> _bencode(answer)]
Ok(d) == Reply(d, <<Entry("result", Text("ok"))>>)
OkSdp(d, sdp) == Reply(d, <<Entry("result", Text("ok")), Entry("sdp", Sdp(sdp))>>)
_error(d, reason) == Reply(d, <<Entry("result", Text("error")), Entry("error-reason", Text(reason))>>)

\* handle_payload: the command a payload is, "refused" when a field it needs
\* is missing or has another type, or when the operation is not known
Operation(cmd) ==
    LET op == Get(cmd, "command").text IN
    IF cmd = Error \/ ~ HasText(cmd, "command") THEN "refused"
    ELSE CASE op = "ping" -> "ping"
           [] op = "delete" /\ HasText(cmd, "call-id") -> "delete"
           [] op = "offer" /\ HasText(cmd, "call-id") /\ HasText(cmd, "from-tag")
                /\ HasSdp(cmd) -> "offer"
           [] op = "answer" /\ HasText(cmd, "call-id") /\ HasText(cmd, "from-tag")
                /\ HasSdp(cmd) /\ HasText(cmd, "to-tag") -> "answer"
           [] OTHER -> "refused"

\* what each datagram decodes to
Decoding == [d \in Datagrams |-> bdecode_dict(d.payload)]

CallId(cmd) == Get(cmd, "call-id").text
FromTag(cmd) == Get(cmd, "from-tag").text

\* the calls, tags and endpoints of the relay are those the datagrams name
ASSUME DatagramsAssumption ==
    \A d \in Datagrams : \A cmd \in {Decoding[d]} :
       /\ Operation(cmd) \in {"delete", "offer", "answer"} => CallId(cmd) \in Calls
       /\ Operation(cmd) \in {"offer", "answer"} =>
             /\ FromTag(cmd) \in Tags /\ IsSequence(SdpOf(cmd))
             /\ \A description \in {parse_sdp(SdpOf(cmd))} :
                   description # Error => description.address \in Endpoints

\* the checks of MediaRelay.__init__ on what goes into an SDP: the ports are
\* ports, and media_ip must be a routable address
ASSUME MediaAssumption == MediaMax <= MaxPort /\ MediaIp # 0

Ignored(d) == ~ Served(d) /\ ControlNothing /\ reply' = None

Ping(d, cmd) == Operation(cmd) = "ping" /\ ControlNothing /\ Ok(d)

Refused(d, cmd) == Operation(cmd) = "refused" /\ ControlNothing /\ _error(d, "refused")

DeleteCommand(d, cmd) ==
    Operation(cmd) = "delete" /\ ControlDelete(CallId(cmd)) /\ Ok(d)

\* the new socket of a leg: the one of these ports the step bound
Rewritten(d, cmd, l) == OkSdp(d, rewrite_sdp(SdpOf(cmd), MediaIp, port'[l]))

OfferCommand(d, cmd) ==
    LET c == CallId(cmd)
        description == parse_sdp(SdpOf(cmd))
    IN /\ Operation(cmd) = "offer"
       /\ \/ /\ description # Error
             /\ ControlOffer(c, FromTag(cmd), description.address)
             /\ Rewritten(d, cmd, <<c, "offer">>)
          \/ /\ ~ Room(c) \/ description = Error \/ Free(open \ BoundTo({c})) = {}
             /\ ControlOfferFails(c)
             /\ _error(d, "offer")

AnswerCommand(d, cmd) ==
    LET c == CallId(cmd)
        t == FromTag(cmd)
        description == parse_sdp(SdpOf(cmd))
    IN /\ Operation(cmd) = "answer"
       /\ \/ /\ description # Error
             /\ ControlAnswer(c, t, description.address)
             /\ Rewritten(d, cmd, <<c, "answer">>)
          \/ /\ ~ Answerable(c, t) \/ description = Error \/ Free(open) = {}
             /\ ControlNothing
             /\ _error(d, "answer")

\* handle_payload
HandlePayload(d, cmd) ==
    \/ Ping(d, cmd)
    \/ Refused(d, cmd)
    \/ DeleteCommand(d, cmd)
    \/ OfferCommand(d, cmd)
    \/ AnswerCommand(d, cmd)

\* _handle_control_socket
ControlDatagram(d) ==
    /\ Serving(Control)
    /\ \/ Ignored(d)
       \/ Served(d) /\ HandlePayload(d, Decoding[d])

ControlInit == Init /\ reply = None

ControlNext ==
    \/ \E d \in Datagrams : ControlDatagram(d)
    \/ (Loop \/ Tick \/ Close) /\ reply' = None

\* the loop goes on: select returns within a second, an event is handled, or
\* the round ends
LoopGoesOn ==
    \/ pc = "select" /\ pc' = "handle" /\ batch' \in SUBSET (open \cup {Control})
    \/ pc = "handle" /\ batch = {} /\ pc' = "select" /\ batch' = {}
    \/ pc = "handle" /\ pc' = pc /\ batch' \in SUBSET batch \ {batch}

ControlSpec == ControlInit /\ [][ControlNext]_controlVars /\ WF_<<pc, batch>>(LoopGoesOn)

---------------------------------------------------------------------------
(* Properties *)

\* The SDP of an ok reply sends the party's media to the relay: it decodes, and
\* its address is the relay's with the open port of a leg.  This holds of SDP
\* with one connection line; with a hold line before the routable one, the code
\* reads the second and rewrites the first.
ReplySdp ==
    reply # None => \A r \in {bdecode_dict(reply.payload)} :
       HasSdp(r) /\ Cardinality(Lines(SdpOf(r), "c")) = 1
          => \E l \in Legs : parse_sdp(SdpOf(r)) = [address |-> <<MediaIp, port[l]>>]
=============================================================================
