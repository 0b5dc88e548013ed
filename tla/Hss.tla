-------------------------------- MODULE Hss --------------------------------
(***************************************************************************)
(* The lab HSS (lab/ims_hss.py) at work: one thread per Diameter           *)
(* connection (DiameterServer._client), taking requests of the Cx and Sh   *)
(* applications one at a time (HssApplication.handle); threads of the HTTP *)
(* server, which authorize registrations and administer the subscribers;   *)
(* pushes of RTR and PPR to every connection.  A request is handled in     *)
(* several steps, between which the other threads run: the subscriber is   *)
(* looked up, tested, its server compared, the answer built from it, sent. *)
(*                                                                         *)
(* Framing and AVPs are abstracted: a frame is good, malformed (no answer) *)
(* or unreadable (the connection ends).                                    *)
(***************************************************************************)
EXTENDS HssStore

CONSTANTS
    Conns,         \* Diameter connections
    Https,         \* HTTP threads that authorize
    MaxConns,      \* slots
    Rands,         \* RAND values
    Requests,      \* Diameter requests about a subscriber
    Authorizes,    \* authorization requests
    Documents,     \* subscribers to provision
    Updates,       \* bodies of PUT
    Seeds,         \* the subscribers of the seed file, in order
    http_token, provision_token,  \* None without one
    Supplied,      \* what HTTP requests bring
    MaxRequests,   \* bounds of the instance: requests about subscribers,
    MaxEdits       \* changes by HTTP

Threads == Conns \cup Https

\* "authorize" is the request of HTTP, the others are commands of Cx and Sh
Cx == {"UAR", "SAR", "LIR", "MAR", "authorize"}
Sh == {"UDR", "PUR", "SNR"}
RequestType ==
    [cmd : Cx \cup Sh, public : Publics, private : Privates \cup {None},
     server : Servers \cup {None}, auts : Rands \cup {None, Bad},
     keys : {None, Bad} \cup SUBSET ProfileKeys]
DocumentType ==
    [public : Publics, private : Privates, server : Servers, enabled : BOOLEAN,
     profile : SUBSET ProfileKeys]

ASSUME HssAssumption ==
    /\ IsFiniteSet(Conns) /\ MaxConns \in Nat \ {0}
    /\ Conns \cap Https = {}
    /\ MaxRequests \in Nat /\ MaxEdits \in Nat

ASSUME InputsAssumption ==
    /\ Requests \subseteq RequestType /\ Authorizes \subseteq RequestType
    /\ None \notin Requests /\ None \notin Authorizes
    /\ Documents \subseteq DocumentType
    /\ \A u \in Updates : /\ u.server \in Servers \cup {None, Bad}
                          /\ u.profile \in {None, Bad} \cup SUBSET ProfileKeys
                          /\ u.enabled \in BOOLEAN \cup {None, Bad}

\* the seed file has subscribers, all different, within the limits
ASSUME SeedsAssumption ==
    /\ Seeds \in Seq(DocumentType) /\ Len(Seeds) \in 1 .. MaxObjs /\ Len(Seeds) <= MaxSubscribers
    /\ \A i, j \in 1 .. Len(Seeds) :
          Seeds[i].public = Seeds[j].public /\ Seeds[i].private = Seeds[j].private => i = j

VARIABLES
    pc,        \* where a thread is
    req,       \* the request it handles
    ref,       \* the Subscriber object it found
    ans,       \* the answer it sends
    iter,      \* the profile keys when its iteration began
    slots,     \* free slots
    peers,     \* connections that pushes go to
    stop,
    lastRand,  \* _last_rand
    issued,    \* history: the RANDs issued to a private identity
    sh,        \* _sh_subscriptions
    push,      \* the peers a push has still to send to, None without a push
    seen,      \* history: what the table said of the request since it came
    requests, edits

threadVars == <<pc, req, ref, ans, iter>>
serverVars == <<slots, peers, stop>>
appVars == <<lastRand, issued, sh>>
bounds == <<requests, edits>>
vars == <<storeVars, threadVars, serverVars, appVars, push, seen, bounds>>

\* places of a thread with a slot, on a socket that is open, at work on a request
Handling == {"lookup", "check", "match", "answer", "iterate", "resync", "issue"}
InService == {"handshake", "read", "send", "leaving"} \cup Handling

Init ==
    /\ order = [i \in DOMAIN Seeds |-> <<Seeds[i].public, Seeds[i].private>>]
    /\ items = [k \in Keys |-> IF \E i \in DOMAIN order : order[i] = k
                               THEN CHOOSE i \in DOMAIN order : order[i] = k ELSE None]
    /\ server = [o \in Objs |-> IF o \in DOMAIN Seeds THEN Seeds[o].server ELSE Seeds[1].server]
    /\ enabled = [o \in Objs |-> IF o \in DOMAIN Seeds THEN Seeds[o].enabled ELSE TRUE]
    /\ profile = [o \in Objs |-> IF o \in DOMAIN Seeds THEN Seeds[o].profile ELSE {}]
    /\ pc = [t \in Threads |-> "closed"]
    /\ req = [t \in Threads |-> None] /\ ref = [t \in Threads |-> None]
    /\ ans = [t \in Threads |-> None] /\ iter = [t \in Threads |-> None]
    /\ slots = MaxConns /\ peers = {} /\ stop = FALSE
    /\ lastRand = [i \in Privates |-> None] /\ issued = [i \in Privates |-> {}]
    /\ sh = {} /\ push = None
    /\ seen = [t \in Threads |-> {}]
    /\ requests = 0 /\ edits = 0

Goto(t, place) == pc' = [pc EXCEPT ![t] = place]

---------------------------------------------------------------------------
(* Connections *)

\* the slot is taken without waiting
HasSlot == slots > 0

\* serve_forever and the start of _client; a connection that finds no slot is
\* closed at once and never known by a name
Accept(t) ==
    /\ ~ stop /\ pc[t] = "closed" /\ HasSlot
    /\ Goto(t, "handshake") /\ slots' = slots - 1
    /\ UNCHANGED <<storeVars, req, ref, ans, iter, peers, stop, appVars, push, seen, bounds>>

\* the head of _client's loop
LoopOrLeave == IF stop THEN "leaving" ELSE "read"

\* the TLS handshake is over, or failed; then the peer is listed
Join(t) ==
    /\ pc[t] = "handshake"
    /\ \/ Goto(t, LoopOrLeave) /\ peers' = peers \cup {t}
       \/ Goto(t, "leaving") /\ UNCHANGED peers
    /\ UNCHANGED <<storeVars, req, ref, ans, iter, slots, stop, appVars, push, seen, bounds>>

\* Mutation: the slot is given back only by a connection that was listed
Leave_Listed(t) ==
    /\ pc[t] = "leaving"
    /\ Goto(t, "closed")
    /\ peers' = peers \ {t}
    /\ slots' = IF t \in peers THEN slots + 1 ELSE slots
    /\ UNCHANGED <<storeVars, req, ref, ans, iter, stop, appVars, push, seen, bounds>>

\* _client's finally: off the list, closed, the slot given back
Leave(t) ==
    /\ pc[t] = "leaving"
    /\ Goto(t, "closed")
    /\ peers' = peers \ {t}
    /\ slots' = slots + 1
    /\ UNCHANGED <<storeVars, req, ref, ans, iter, stop, appVars, push, seen, bounds>>

\* _frame_read fails: closed by the peer, a timeout, a bad length
ReadFails(t) ==
    /\ pc[t] = "read"
    /\ Goto(t, "leaving")
    /\ UNCHANGED <<storeVars, req, ref, ans, iter, serverVars, appVars, push, seen, bounds>>

\* a message that does not parse is dropped without an answer
Malformed(t) ==
    /\ pc[t] = "read"
    /\ Goto(t, LoopOrLeave)
    /\ UNCHANGED <<storeVars, req, ref, ans, iter, serverVars, appVars, push, seen, bounds>>

Result(r) == [result |-> r, server |-> None, auts |-> None]
WithServer(s) == [result |-> "success", server |-> s, auts |-> None]

\* CER, DWR and PNA; an answer or another application, which are not supported;
\* another command of Cx, refused after its subscriber was looked up
NoSubscriber(t, result) ==
    /\ pc[t] = "read"
    /\ Goto(t, "send")
    /\ ans' = [ans EXCEPT ![t] = Result(result)]
    /\ UNCHANGED <<storeVars, req, ref, iter, serverVars, appVars, push, seen, bounds>>

\* the Sh commands find by the public identity alone
Private(r) == IF r.cmd \in Cx THEN r.private ELSE None
Look(r) == Visible(r.public, Private(r))

Receive(t, r) ==
    /\ t \in Conns /\ pc[t] = "read" /\ requests < MaxRequests
    /\ Goto(t, "lookup")
    /\ req' = [req EXCEPT ![t] = r]
    /\ seen' = [seen EXCEPT ![t] = Look(r)]
    /\ requests' = requests + 1
    /\ UNCHANGED <<storeVars, ref, ans, iter, serverVars, appVars, push, edits>>

\* the answer is sent, or the socket fails; the request is over
Send(t) ==
    /\ pc[t] = "send"
    /\ \E place \in {LoopOrLeave, "leaving"} : Goto(t, place)
    /\ ans' = [ans EXCEPT ![t] = None] /\ req' = [req EXCEPT ![t] = None]
    /\ ref' = [ref EXCEPT ![t] = None] /\ seen' = [seen EXCEPT ![t] = {}]
    /\ UNCHANGED <<storeVars, iter, serverVars, appVars, push, bounds>>

---------------------------------------------------------------------------
(* HssApplication.handle *)

\* an answer is ready
Finish(t, a) == Goto(t, "send") /\ ans' = [ans EXCEPT ![t] = a]

\* store.authorize or store.find
Lookup(t) ==
    /\ pc[t] = "lookup"
    /\ \E o \in find(req[t].public, Private(req[t])) : ref' = [ref EXCEPT ![t] = o]
    /\ Goto(t, "check")
    /\ UNCHANGED <<storeVars, req, ans, iter, serverVars, appVars, push, seen, bounds>>

\* Mutation: a disabled subscriber is served
Served_Disabled(t) == ref[t] # None

\* the Cx commands serve enabled subscribers only
Served(t) == ref[t] # None /\ (req[t].cmd \in Cx => enabled[ref[t]])

Check(t) ==
    /\ pc[t] = "check"
    /\ IF Served(t) THEN Goto(t, "match") /\ UNCHANGED ans
                    ELSE Finish(t, Result("unknown"))
    /\ UNCHANGED <<storeVars, req, ref, iter, serverVars, appVars, push, seen, bounds>>

\* the server a UAR, an SAR or an authorization names has to be the assigned one
Mismatch(t) ==
    /\ req[t].cmd \in {"UAR", "SAR", "authorize"}
    /\ req[t].server \notin {None, server[ref[t]]}

Match(t) ==
    /\ pc[t] = "match"
    /\ IF Mismatch(t) THEN Finish(t, Result("unknown")) ELSE Goto(t, "answer") /\ UNCHANGED ans
    /\ UNCHANGED <<storeVars, req, ref, iter, serverVars, appVars, push, seen, bounds>>

\* the commands that answer with the assigned server
AnswerServer(t) ==
    /\ pc[t] = "answer" /\ req[t].cmd \in {"UAR", "SAR", "LIR", "authorize"}
    /\ Finish(t, WithServer(server[ref[t]]))
    /\ UNCHANGED <<storeVars, req, ref, iter, serverVars, appVars, push, seen, bounds>>

\* _handle_mar: a resynchronisation names the RAND it is about
AnswerMar(t) ==
    /\ pc[t] = "answer" /\ req[t].cmd = "MAR"
    /\ IF req[t].auts = Bad THEN Finish(t, Result("unsupported"))
       ELSE UNCHANGED ans /\ Goto(t, IF req[t].auts = None THEN "issue" ELSE "resync")
    /\ UNCHANGED <<storeVars, req, ref, iter, serverVars, appVars, push, seen, bounds>>

\* Mutation: a resynchronisation before any vector is let through
Expected_None(t) == lastRand[req[t].private] \in {None, req[t].auts}

\* it has to be the RAND remembered for the private identity
Expected(t) == lastRand[req[t].private] = req[t].auts

Resync(t) ==
    /\ pc[t] = "resync"
    /\ IF req[t].private # None /\ Expected(t) THEN Goto(t, "issue") /\ UNCHANGED ans
       ELSE Finish(t, Result("unknown"))
    /\ UNCHANGED <<storeVars, req, ref, iter, serverVars, appVars, push, seen, bounds>>

\* _issue_vectors: of a batch of RANDs the first is remembered
Issue(t) ==
    /\ pc[t] = "issue"
    /\ \E first \in Rands, others \in SUBSET Rands :
          IF req[t].private = None THEN UNCHANGED <<lastRand, issued>>
          ELSE /\ lastRand' = [lastRand EXCEPT ![req[t].private] = first]
               /\ issued' = [issued EXCEPT ![req[t].private] = @ \cup others \cup {first}]
    /\ Finish(t, [Result("success") EXCEPT !.auts = req[t].auts])
    /\ UNCHANGED <<storeVars, req, ref, iter, serverVars, sh, push, seen, bounds>>

\* UDR: the profile dictionary is iterated over
AnswerUdr(t) ==
    /\ pc[t] = "answer" /\ req[t].cmd = "UDR"
    /\ Goto(t, "iterate")
    /\ iter' = [iter EXCEPT ![t] = profile[ref[t]]]
    /\ UNCHANGED <<storeVars, req, ref, ans, serverVars, appVars, push, seen, bounds>>

\* _profile_to_xml: a dictionary that has grown meanwhile ends the iteration
\* with an error that nothing catches, and the connection with it
Grown(t) == iter[t] # None /\ Cardinality(profile[ref[t]]) # Cardinality(iter[t])

Iterate(t) ==
    /\ pc[t] = "iterate"
    /\ iter' = [iter EXCEPT ![t] = None]
    /\ IF Grown(t)
       THEN /\ Goto(t, "leaving") /\ UNCHANGED ans
            /\ req' = [req EXCEPT ![t] = None] /\ ref' = [ref EXCEPT ![t] = None]
            /\ seen' = [seen EXCEPT ![t] = {}]
       ELSE Finish(t, Result("success")) /\ UNCHANGED <<req, ref, seen>>
    /\ UNCHANGED <<storeVars, serverVars, appVars, push, bounds>>

\* PUR: a valid profile is merged into the object found; one that is not JSON
\* is accepted and ignored
AnswerPur(t) ==
    /\ pc[t] = "answer" /\ req[t].cmd = "PUR"
    /\ IF req[t].keys \in {None, Bad} THEN Finish(t, Result("unsupported")) /\ UNCHANGED profile
       ELSE Finish(t, Result("success")) /\ MergeProfile(ref[t], req[t].keys)
    /\ UNCHANGED <<items, order, server, enabled, req, ref, iter, serverVars, appVars, push,
                   seen, bounds>>

\* SNR: the subscription is kept for good
AnswerSnr(t) ==
    /\ pc[t] = "answer" /\ req[t].cmd = "SNR"
    /\ sh' = sh \cup {req[t].public}
    /\ Finish(t, Result("success"))
    /\ UNCHANGED <<storeVars, req, ref, iter, serverVars, lastRand, issued, push, seen, bounds>>

---------------------------------------------------------------------------
(* HTTP *)

\* _authorized: without a token everything but provisioning is open
Authorized(provisioning, supplied) ==
    LET expected == IF provisioning THEN provision_token ELSE http_token IN
    IF expected = None THEN ~ provisioning ELSE supplied = expected

\* /ims/authorize, of a request with all its fields
Authorize(t, r, supplied) ==
    /\ t \in Https /\ pc[t] = "closed" /\ requests < MaxRequests
    /\ Authorized(FALSE, supplied)
    /\ Goto(t, "lookup")
    /\ req' = [req EXCEPT ![t] = r]
    /\ seen' = [seen EXCEPT ![t] = Look(r)]
    /\ requests' = requests + 1
    /\ UNCHANGED <<storeVars, ref, ans, iter, serverVars, appVars, push, edits>>

\* _send_json of the decision
Respond(t) ==
    /\ t \in Https /\ pc[t] = "send"
    /\ Goto(t, "closed")
    /\ ans' = [ans EXCEPT ![t] = None] /\ req' = [req EXCEPT ![t] = None]
    /\ ref' = [ref EXCEPT ![t] = None] /\ seen' = [seen EXCEPT ![t] = {}]
    /\ UNCHANGED <<storeVars, iter, serverVars, appVars, push, bounds>>

\* history: every request at work has seen what the table says now
Watch ==
    seen' = [t \in Threads |-> IF req[t] = None THEN seen[t] ELSE seen[t] \cup Look(req[t])']

\* a change of the table by an administrator
Edit ==
    /\ edits < MaxEdits /\ edits' = edits + 1
    /\ UNCHANGED <<pc, req, ref, ans, serverVars, appVars, push, requests>>

\* /ims/provision and /admin/subscribers; a refused document changes nothing
PostSubscriber(d, provisioning, supplied) ==
    /\ Authorized(provisioning, supplied)
    /\ Edit
    /\ provision(d, {ref[t] : t \in Threads}) /\ Watch
    /\ UNCHANGED iter

PostEnable(public, value, supplied) ==
    /\ Authorized(FALSE, supplied)
    /\ Edit
    /\ set_enabled(public, value) /\ Watch
    /\ UNCHANGED iter

\* who iterates over the profile that is replaced goes on over the old one
PutSubscriber(public, u, supplied) ==
    /\ Authorized(FALSE, supplied)
    /\ Edit
    /\ update(public, u) /\ Watch
    /\ iter' = [t \in Threads |->
                   IF ref[t] \in find(public, None) /\ u.server # Bad /\ Given(u.profile)
                   THEN None ELSE iter[t]]

DeleteSubscriber(public, supplied) ==
    /\ Authorized(FALSE, supplied)
    /\ Edit
    /\ remove(public) /\ Watch
    /\ UNCHANGED iter

\* push_rtr and push_ppr: the peers of one moment, then one send after another
PushStart(supplied) ==
    /\ Authorized(TRUE, supplied)
    /\ push = None /\ edits < MaxEdits
    /\ push' = peers
    /\ edits' = edits + 1
    /\ UNCHANGED <<storeVars, threadVars, serverVars, appVars, seen, requests>>

\* one more peer is sent to; an OSError, as of one that has left, is passed over
PushSend(t) ==
    /\ push # None /\ t \in push
    /\ push' = push \ {t}
    /\ UNCHANGED <<storeVars, threadVars, serverVars, appVars, seen, bounds>>

\* no peer is left; or the request cannot be built for the next one (an identity
\* that is not ASCII, a profile that is too long, or that changes meanwhile),
\* and the error ends the loop with the rest unserved
PushEnds ==
    /\ push # None
    /\ push' = None
    /\ UNCHANGED <<storeVars, threadVars, serverVars, appVars, seen, bounds>>

\* DiameterServer.close
Close ==
    /\ ~ stop /\ stop' = TRUE
    /\ UNCHANGED <<storeVars, threadVars, slots, peers, appVars, push, seen, bounds>>

---------------------------------------------------------------------------

\* the steps of handle
Handle(t) ==
    \/ Lookup(t) \/ Check(t) \/ Match(t)
    \/ AnswerServer(t) \/ AnswerMar(t) \/ Resync(t) \/ Issue(t)
    \/ AnswerUdr(t) \/ Iterate(t) \/ AnswerPur(t) \/ AnswerSnr(t)

\* the steps of _client
ConnStep(t) ==
    \/ Join(t) \/ Leave(t)
    \/ ReadFails(t) \/ Malformed(t)
    \/ \E result \in {"success", "unsupported", "unknown"} : NoSubscriber(t, result)
    \/ \E r \in Requests : Receive(t, r)
    \/ Handle(t) \/ Send(t)

HttpStep(t) ==
    \/ \E r \in Authorizes, supplied \in Supplied : Authorize(t, r, supplied)
    \/ Handle(t) \/ Respond(t)

Admin(supplied) ==
    \/ \E d \in Documents, provisioning \in BOOLEAN : PostSubscriber(d, provisioning, supplied)
    \/ \E public \in Publics, value \in BOOLEAN : PostEnable(public, value, supplied)
    \/ \E public \in Publics, u \in Updates : PutSubscriber(public, u, supplied)
    \/ \E public \in Publics : DeleteSubscriber(public, supplied)
    \/ PushStart(supplied)

Next ==
    \/ \E t \in Conns : Accept(t) \/ ConnStep(t)
    \/ \E t \in Https : HttpStep(t)
    \/ \E supplied \in Supplied : Admin(supplied)
    \/ \E t \in Conns : PushSend(t)
    \/ PushEnds \/ Close

Spec == Init /\ [][Next]_vars

---------------------------------------------------------------------------
(* Properties *)

Places == InService \cup {"closed"}
Answers ==
    [result : {"success", "unknown", "unsupported"}, server : Servers \cup {None},
     auts : Rands \cup {None, Bad}]
States == [server : Servers, enabled : BOOLEAN]

ThreadTypeOK ==
    /\ pc \in [Threads -> Places]
    /\ req \in [Threads -> {None} \cup RequestType]
    /\ ref \in [Threads -> Objs \cup {None}]
    /\ ans \in [Threads -> {None} \cup Answers]
    /\ iter \in [Threads -> {None} \cup SUBSET ProfileKeys]
    /\ seen \in [Threads -> SUBSET States]

AppTypeOK ==
    /\ slots \in Nat /\ peers \subseteq Conns /\ stop \in BOOLEAN
    /\ lastRand \in [Privates -> Rands \cup {None}]
    /\ issued \in [Privates -> SUBSET Rands]
    /\ sh \subseteq Publics /\ push \in {None} \cup SUBSET Conns
    /\ requests \in 0 .. MaxRequests /\ edits \in 0 .. MaxEdits

\* Table, threads and counters are well formed: among others the free slots
\* never get negative, however many connections come.
TypeOK == StoreTypeOK /\ ThreadTypeOK /\ AppTypeOK

Serving == {t \in Conns : pc[t] \in InService}

\* A thread at work has its request, past the check it has the object it found,
\* and only a thread about to send has an answer: nothing of one request is
\* left when the connection takes the next.
Stages ==
    \A t \in Threads :
       /\ pc[t] \in Handling => req[t] # None
       /\ pc[t] \in Handling \ {"lookup", "check"} => ref[t] # None
       /\ ref[t] # None => req[t] # None
       /\ ans[t] # None => pc[t] = "send"
       /\ req[t] # None => pc[t] \in Handling \cup {"send"}

\* Every slot is free or held by one connection, on every way out of a
\* connection: refused, failed handshake, errors in the middle of a request.
\* And only connections that hold a slot are listed for pushes.
SlotsCounted ==
    /\ slots + Cardinality(Serving) = MaxConns
    /\ peers \subseteq Serving

\* What a success says was true while the request was at work: the subscriber
\* of the identities asked for was enabled, and the server named was the one
\* assigned, whatever administrators changed in between.
Honest ==
    \A t \in Threads : ans[t] # None /\ ans[t].result = "success" /\ req[t] # None =>
       /\ req[t].cmd \in Cx => \E v \in seen[t] : v.enabled
       /\ ans[t].server # None => \E v \in seen[t] : v.server = ans[t].server

\* A resynchronisation is only accepted for a RAND that was issued to the same
\* private identity: before the first vector there is none.
AutsIssued ==
    \A t \in Threads : ans[t] # None /\ ans[t].auts # None
                           => ans[t].auts \in issued[req[t].private]
=============================================================================
