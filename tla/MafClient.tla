----------------------------- MODULE MafClient -----------------------------
(***************************************************************************)
(* An application that has a Python SDK (madis_maf.py, madis_carrier.py)   *)
(* perform an operation, over a network that may fail at any point, and    *)
(* does it again when it does not know the outcome; among them the example *)
(* click_to_call.                                                          *)
(*                                                                         *)
(* The operations differ in what they send: commands about calls carry an  *)
(* idempotency key, the others do not.  The server (maf_api.mko) takes a   *)
(* command once for a key, an operation without one whenever it arrives.   *)
(* What its workers make of a command it has taken is in MafCommands.      *)
(***************************************************************************)
EXTENDS Integers, FiniteSets, TLC

CONSTANTS
    Ops,           \* the operations the application performs
    MaxTries,      \* bound of the instance: how often it tries
    MAX_RETRIES    \* of click_to_call

---------------------------------------------------------------------------
(* The operations: what _request or _command is called with *)

CallCommands ==
    {"create_call", "answer_call", "reject_call", "hangup_call", "bridge_call", "media",
     "set_headers", "transfer_call", "hold_call", "unhold_call", "send_dtmf", "identity",
     "rtp_control", "route_call"}

FlowCommands == {"set_call_flow"}

EventAndSecurity ==
    ("publish_event" :> "POST" @@ "registrations" :> "GET" @@ "cdr" :> "GET" @@ "bans" :> "GET"
     @@ "ban_ip" :> "POST" @@ "unban_ip" :> "DELETE" @@ "sip_inspect" :> "GET"
     @@ "presence" :> "GET" @@ "presence_user" :> "GET")

Routing ==
    ("routing_rules" :> "GET" @@ "create_routing_rule" :> "POST" @@ "delete_routing_rule" :> "DELETE"
     @@ "gateways" :> "GET" @@ "create_gateway" :> "POST" @@ "dids" :> "GET" @@ "create_did" :> "POST"
     @@ "dispatch_sets" :> "GET" @@ "create_dispatch_set" :> "POST" @@ "cluster" :> "GET"
     @@ "config" :> "GET" @@ "set_config" :> "POST" @@ "charge_authorize" :> "POST"
     @@ "charge_deny" :> "POST" @@ "delete_did" :> "DELETE" @@ "delete_gateway" :> "DELETE")

Policies ==
    ("dialplans" :> "GET" @@ "create_dialplan" :> "POST" @@ "delete_dialplan" :> "DELETE"
     @@ "ip_auth" :> "GET" @@ "create_ip_auth" :> "POST" @@ "delete_ip_auth" :> "DELETE"
     @@ "access_control" :> "GET" @@ "create_access_control" :> "POST" @@ "header_rules" :> "GET"
     @@ "create_header_rule" :> "POST" @@ "billing_events" :> "GET" @@ "billing_ack" :> "POST"
     @@ "security_events" :> "GET" @@ "ani_groups" :> "GET" @@ "create_ani_group" :> "POST"
     @@ "active_calls" :> "GET" @@ "capacity_policies" :> "GET"
     @@ "upsert_capacity_policy" :> "POST" @@ "create_dispatch_member" :> "POST")

Administration ==
    ("delete_access_control" :> "DELETE" @@ "delete_header_rule" :> "DELETE"
     @@ "delete_ani_group" :> "DELETE" @@ "delete_dispatch_member" :> "DELETE" @@ "users" :> "GET"
     @@ "create_user" :> "POST" @@ "delete_user" :> "DELETE" @@ "set_log_level" :> "POST"
     @@ "delete_dispatch_set" :> "DELETE" @@ "delete_config" :> "DELETE" @@ "health" :> "GET"
     @@ "reload" :> "POST" @@ "webhooks" :> "GET" @@ "create_webhook" :> "POST"
     @@ "delete_webhook" :> "DELETE" @@ "tag_call" :> "POST" @@ "number_lookup" :> "GET"
     @@ "upsert_number" :> "POST")

Services ==
    ("scheduled_calls" :> "GET" @@ "schedule_call" :> "POST" @@ "cancel_scheduled_call" :> "DELETE"
     @@ "queues" :> "GET" @@ "create_queue" :> "POST" @@ "add_queue_member" :> "POST"
     @@ "remove_queue_member" :> "DELETE" @@ "conferences" :> "GET" @@ "create_conference" :> "POST"
     @@ "routing_intelligence" :> "GET" @@ "record_routing_outcome" :> "POST")

\* the carrier SDK, where its operations are not those above; what it raises are
\* the errors of urllib themselves
CarrierOperations ==
    ("control_status" :> "GET" @@ "enable_routing_rule" :> "POST"
     @@ "disable_routing_rule" :> "POST" @@ "set_dialplan_enabled" :> "POST"
     @@ "update_dialplan" :> "PUT" @@ "control_resources" :> "GET"
     @@ "create_control_resource" :> "POST" @@ "update_control_resource" :> "PUT"
     @@ "delete_control_resource" :> "DELETE" @@ "set_control_resource_enabled" :> "POST"
     @@ "validate_routing_rule" :> "POST" @@ "validate_dialplan" :> "POST")

Commands == CallCommands \cup FlowCommands
Method ==
    [o \in Commands |-> "POST"] @@ ("get_call" :> "GET")
    @@ EventAndSecurity @@ Routing @@ Policies @@ Administration @@ Services
    @@ CarrierOperations

ASSUME ClientAssumption ==
    Ops \subseteq DOMAIN Method /\ MaxTries \in Nat /\ MAX_RETRIES \in Nat \ {0}

VARIABLES
    op,        \* the operation
    given,     \* whether the application gives a key, the same at every attempt
    attempts,
    wire,      \* requests that have not reached the server: attempt and key
    known,     \* the keys of maf_commands
    taken,     \* how often the server took it: stored the command, for workers who
               \* execute it at least once, or did the operation
    outcome,   \* what the attempt came to
    click      \* where click_to_call is

clientVars == <<op, given, attempts, wire, known, taken, outcome, click>>

ClientInit ==
    /\ op \in Ops /\ given \in BOOLEAN
    /\ attempts = 0 /\ wire = {} /\ known = {} /\ taken = 0
    /\ outcome = "none" /\ click = "create"

---------------------------------------------------------------------------
(* _request *)

\* Mutation: a key that is given is not used
Key_Fresh(n) == n

\* _key: the one that is given, or a new one
Key(n) == IF given THEN 0 ELSE n

Attempt ==
    /\ attempts' = attempts + 1
    /\ wire' = wire \cup {[n |-> attempts + 1, key |-> Key(attempts + 1)]}
    /\ outcome' = "waiting"
    /\ UNCHANGED <<op, given, known, taken>>

\* the server is not reached, or the connection breaks before it has the request
Unreachable(m) ==
    /\ outcome = "waiting" /\ m \in wire /\ m.n = attempts
    /\ wire' = wire \ {m} /\ outcome' = "MafError"
    /\ UNCHANGED <<op, given, attempts, known, taken, click>>

\* no answer: a timeout or a reset while it is awaited is no MafError, and the
\* request may still be on its way
NoAnswer ==
    /\ outcome = "waiting"
    /\ outcome' = "OSError"
    /\ UNCHANGED <<op, given, attempts, wire, known, taken, click>>

\* _request raises on a status outside 200..299
Raised(ok) == IF ok THEN "result" ELSE "MafError"

\* the answer to an attempt comes, unless nobody waits for it any more
AnswerTo(m, ok) ==
    outcome' = IF outcome = "waiting" /\ m.n = attempts THEN Raised(ok) ELSE outcome

---------------------------------------------------------------------------
(* The server *)

\* a command whose key is known is answered with its receipt; a repeated
\* deletion finds nothing
Repeated(m) ==
    \/ op \in Commands /\ m.key \in known
    \/ Method[op] = "DELETE" /\ taken > 0

Takes(m) == Method[op] # "GET" /\ ~ Repeated(m)

\* taken or repeated; the receipt may still fail to be read
Serve(m) ==
    /\ m \in wire
    /\ wire' = wire \ {m}
    /\ taken' = IF Takes(m) THEN taken + 1 ELSE taken
    /\ known' = IF op \in Commands THEN known \cup {m.key} ELSE known
    /\ \E ok \in BOOLEAN : AnswerTo(m, ok)
    /\ UNCHANGED <<op, given, attempts, click>>

\* refused: limits, the database, policies
RefuseRequest(m) ==
    /\ m \in wire
    /\ wire' = wire \ {m}
    /\ AnswerTo(m, FALSE)
    /\ UNCHANGED <<op, given, attempts, known, taken, click>>

---------------------------------------------------------------------------
(* Applications *)

\* one that goes on until it has a result
Perform ==
    /\ outcome \in {"none", "MafError", "OSError"} /\ attempts < MaxTries
    /\ Attempt /\ UNCHANGED click

\* the head of click_to_call's loop
MayRetry == attempts < MAX_RETRIES

\* create_call without a key, until it does not raise MafError
ClickCreate ==
    /\ click = "create" /\ outcome \in {"none", "MafError"} /\ MayRetry
    /\ Attempt /\ UNCHANGED click

ClickCreated ==
    /\ click = "create"
    /\ click' = CASE outcome = "result" -> "first poll"
                  [] outcome = "MafError" /\ ~ MayRetry -> "exit 1"
                  [] outcome = "OSError" -> "crashed"
                  [] OTHER -> click
    /\ click' # click
    /\ UNCHANGED <<op, given, attempts, wire, known, taken, outcome>>

\* The events of a page carry a call_id, which is never the command_id that is
\* looked for.  The cursor becomes a string, on which the second poll fails.
\* Polls that raise MafError are repeated until the deadline.
ClickPoll ==
    /\ \/ click = "first poll" /\ click' \in {"second poll", "exit 2"}
       \/ click = "second poll" /\ click' \in {"crashed", "exit 2"}
    /\ UNCHANGED <<op, given, attempts, wire, known, taken, outcome>>

---------------------------------------------------------------------------
(* Properties *)

\* A command with a key of the application is stored for the workers at most
\* once, though answers are lost, requests arrive after their timeout, and the
\* application repeats it after every error.  Without a key it is stored, or the
\* operation done, at most once for each attempt, and click_to_call, which makes
\* a new key each time, gives up after MAX_RETRIES.  It is not a bound on what
\* the workers execute: see ExecutionsBounded of MafExecutions.
TakenOnce ==
    /\ given /\ op \in Commands => taken <= 1
    /\ taken <= attempts
    /\ click # "create" => taken <= MAX_RETRIES
=============================================================================
