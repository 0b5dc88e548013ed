----------------------------- MODULE MafCommands -----------------------------
(***************************************************************************)
(* The command queue of the MAF call control API.  Applications post       *)
(* requests under an idempotency key to an API handler (maf_api.mko, or    *)
(* the proxy's own admin port, ops.mko); it stores a command and, for a    *)
(* create, the call.  The poll worker of every proxy node on the database  *)
(* (maf_worker.mko) claims accepted commands, executes them and records    *)
(* the result; any of them requeues, or gives up, the commands whose       *)
(* worker did not come back in time.  Every action is one statement of the *)
(* database or one step of a worker between two of them.                   *)
(***************************************************************************)
EXTENDS Integers, FiniteSets

CONSTANTS
    Keys,         \* idempotency keys; the command_id is the key by default
    Calls,        \* call_id values
    Requests,     \* what applications post: see RequestType
    Clients,      \* API handlers: one per admin process or proxy node
    Workers,      \* poll workers: one per proxy node
    Batch,        \* commands read by a poll (8)
    Limit,        \* SIP_MAF_MAX_ACTIVE_CALLS, 0 for none
    MaxAttempts,  \* SIP_MAF_COMMAND_MAX_ATTEMPTS
    MaxFaults,    \* bound: crashes and failed statements
    None

\* op is "create" or an operation on an existing call; a body stands for its
\* hash
RequestType == [key : Keys, op : {"create", "hangup"}, call : Calls, body : Nat]

ASSUME RequestsAssumption ==
    /\ Requests \subseteq RequestType
    \* the call_id of a create is a hash of its key
    /\ \A r, q \in Requests : r.op = "create" /\ q.op = "create" =>
          (r.key = q.key <=> r.call = q.call)
ASSUME SetsAssumption ==
    /\ IsFiniteSet(Calls) /\ IsFiniteSet(Clients) /\ Clients # {}
    /\ None \notin Workers /\ None \notin Requests /\ None \notin Keys
ASSUME BoundsAssumption ==
    /\ Batch \in Nat \ {0} /\ Limit \in Nat
    /\ MaxAttempts \in Nat \ {0} /\ MaxFaults \in Nat

VARIABLES
    cmd,     \* maf_commands by idempotency key, see RowType
    call,    \* maf_calls: none, open, or ended (ended_at is set)
    api,     \* the handlers of the API, see ClientType
    wk,      \* the poll workers, see WorkerType
    faults   \* crashes and failed statements so far

vars == <<cmd, call, api, wk, faults>>

\* old: claimed_at is past the timeout (SIP_MAF_COMMAND_TIMEOUT_SECS)
RowType == [status   : {"none", "accepted", "processing", "completed", "failed"},
            req      : Requests \cup {None},
            claim    : Workers \cup {None},
            attempts : 0 .. MaxAttempts,
            old      : BOOLEAN]

\* pc: the statement the handler executes next; ans: its last answer, none
\* after a refusal (404, 409, 503)
ClientType == [pc  : {"idle", "idem", "owner", "call", "command"},
               req : Requests \cup {None},
               ans : {"none", "200", "202"}]

\* todo: rows of the last poll not reached yet; key: the command in execution;
\* fail: recovery found commands to give up
WorkerType == [pc   : {"idle", "requeue", "failcalls", "failcommands",
                       "select", "loop", "exec", "failcall"},
               todo : SUBSET Keys,
               key  : Keys \cup {None},
               fail : BOOLEAN]

NoRow == [status |-> "none", req |-> None, claim |-> None, attempts |-> 0, old |-> FALSE]
NoRequest == [pc |-> "idle", req |-> None, ans |-> "none"]
Idle == [pc |-> "idle", todo |-> {}, key |-> None, fail |-> FALSE]

Init ==
    /\ cmd = [k \in Keys |-> NoRow]
    /\ call = [c \in Calls |-> "none"]
    /\ api = [a \in Clients |-> NoRequest]
    /\ wk = [w \in Workers |-> Idle]
    /\ faults = 0

Stored(k) == cmd[k].status # "none"
Open == {c \in Calls : call[c] = "open"}

---------------------------------------------------------------------------
(* maf_api.mko *)

\* maf_api_capacity_available
CapacityAvailable == Limit = 0 \/ Cardinality(Open) < Limit

\* a handler, or a worker, goes on with the statement pc
At(m, pc) == [m EXCEPT !.pc = pc]

Begun(r) == [pc |-> "idem", req |-> r, ans |-> "none"]
Answered(m, ans) == [m EXCEPT !.pc = "idle", !.ans = ans]

Goto(a, pc) == api' = [api EXCEPT ![a] = At(@, pc)]
Answer(a, ans) == api' = [api EXCEPT ![a] = Answered(@, ans)]
Refuse(a) == api' = [api EXCEPT ![a] = NoRequest]

\* the first query of maf_api_create_call: is there room for a call
SubmitCreate(a, r) ==
    /\ api[a].pc = "idle" /\ r.op = "create"
    /\ api' = [api EXCEPT ![a] = IF CapacityAvailable THEN Begun(r) ELSE NoRequest]
    /\ UNCHANGED <<cmd, call, wk, faults>>

\* Mutation: the call is not looked up
KnownAlways(r) == TRUE

\* the lookup of the call's version; calls are never deleted
Known(r) == call[r.call] # "none"

\* the first query of maf_api_command; a request refused for its version or
\* by validation is no step
SubmitCommand(a, r) ==
    /\ api[a].pc = "idle" /\ r.op # "create"
    /\ api' = [api EXCEPT ![a] = IF Known(r) THEN Begun(r) ELSE NoRequest]
    /\ UNCHANGED <<cmd, call, wk, faults>>

\* maf_api_idempotency_state finds the same request: it compares the bodies
Replay(a) == cmd[api[a].req.key].req.body = api[a].req.body

Idempotency(a) ==
    LET r == api[a].req IN
    /\ api[a].pc = "idem"
    /\ IF ~ Stored(r.key) THEN Goto(a, IF r.op = "create" THEN "owner" ELSE "command")
       ELSE IF Replay(a) THEN Answer(a, "200")
       ELSE Refuse(a)
    /\ UNCHANGED <<cmd, call, wk, faults>>

\* command_owner: the command_id is taken
Owner(a) ==
    /\ api[a].pc = "owner"
    /\ IF Stored(api[a].req.key) THEN Refuse(a) ELSE Goto(a, "call")
    /\ UNCHANGED <<cmd, call, wk, faults>>

\* INSERT INTO maf_calls ... ON CONFLICT DO NOTHING, and its channels
InsertCall(a) ==
    /\ api[a].pc = "call"
    /\ call' = [call EXCEPT ![api[a].req.call] = IF @ = "none" THEN "open" ELSE @]
    /\ Goto(a, "command")
    /\ UNCHANGED <<cmd, wk, faults>>

\* the INSERT of maf_api_insert_command: the key and the command_id are unique
NewRow(r) == [status |-> "accepted", req |-> r, claim |-> None, attempts |-> 0, old |-> FALSE]

\* Mutation: a conflicting row is replaced
StoreOverwrites(k, r) == [cmd EXCEPT ![k] = NewRow(r)]

Store(k, r) == [cmd EXCEPT ![k] = IF Stored(k) THEN @ ELSE NewRow(r)]

\* a refused INSERT reads the row that was faster, which stays as it is
InsertCommand(a) ==
    LET r == api[a].req IN
    /\ api[a].pc = "command"
    /\ cmd' = Store(r.key, r)
    /\ IF ~ Stored(r.key) THEN Answer(a, "202")
       ELSE IF Replay(a) THEN Answer(a, "200")
       ELSE Refuse(a)
    /\ UNCHANGED <<call, wk, faults>>

\* proxy_maf_command of ops.mko: ON CONFLICT DO NOTHING; the receipt says
\* accepted in any case
ProxyCommand(r) ==
    /\ r.op # "create" /\ Known(r)
    /\ cmd' = Store(r.key, r)
    /\ UNCHANGED <<call, api, wk, faults>>

---------------------------------------------------------------------------
(* maf_worker.mko *)

Accepted == {k \in Keys : cmd[k].status = "accepted"}

\* Mutation: recovery does not look at the status
StaleAnyStatus(k) == cmd[k].old

\* the claim is past the timeout
Stale(k) == cmd[k].status = "processing" /\ cmd[k].old

\* Mutation: recovery does not compare the attempts
RetryableForEver(k) == Stale(k)

Retryable(k) == Stale(k) /\ cmd[k].attempts < MaxAttempts

\* Mutation: commands out of attempts are left alone
ExhaustedNever(k) == FALSE

Exhausted(k) == Stale(k) /\ cmd[k].attempts >= MaxAttempts

\* The UPDATEs of a row: claim, result, requeue and give up; and its timeout
Claimed(row, w) ==
    [row EXCEPT !.status = "processing", !.claim = w, !.attempts = @ + 1, !.old = FALSE]
Result(row, status) == [row EXCEPT !.status = status]
Requeued(row) == [row EXCEPT !.status = "accepted", !.claim = None, !.old = FALSE]
GivenUp(row) == [row EXCEPT !.status = "failed", !.claim = None]
Aged(row) == [row EXCEPT !.old = TRUE]

Pc(w, pc) == wk' = [wk EXCEPT ![w] = At(@, pc)]

Recovering(retry, fail) ==
    [pc |-> IF retry THEN "requeue" ELSE "failcalls", todo |-> {}, key |-> None, fail |-> fail]

\* maf_worker_recover_stale_commands: the two counts, when the 5 s are over
BeginRecover(w) ==
    /\ wk[w].pc = "idle"
    /\ \E k \in Keys : Retryable(k) \/ Exhausted(k)
    /\ wk' = [wk EXCEPT ![w] = Recovering(\E k \in Keys : Retryable(k), \E k \in Keys : Exhausted(k))]
    /\ UNCHANGED <<cmd, call, api, faults>>

Requeue(w) ==
    /\ wk[w].pc = "requeue"
    /\ cmd' = [k \in Keys |-> IF Retryable(k) THEN Requeued(cmd[k]) ELSE cmd[k]]
    /\ Pc(w, IF wk[w].fail THEN "failcalls" ELSE "select")
    /\ UNCHANGED <<call, api, faults>>

\* the calls of the creates that are given up
FailCalls(w) ==
    /\ wk[w].pc = "failcalls"
    /\ call' = [c \in Calls |->
          IF \E k \in Keys : Exhausted(k) /\ cmd[k].req.op = "create" /\ cmd[k].req.call = c
          THEN "ended" ELSE call[c]]
    /\ Pc(w, "failcommands")
    /\ UNCHANGED <<cmd, api, faults>>

FailCommands(w) ==
    /\ wk[w].pc = "failcommands"
    /\ cmd' = [k \in Keys |-> IF Exhausted(k) THEN GivenUp(cmd[k]) ELSE cmd[k]]
    /\ Pc(w, "select")
    /\ UNCHANGED <<call, api, faults>>

\* what a worker does after a row: the next one, or the end of the poll
After(todo) ==
    [pc |-> IF todo = {} THEN "idle" ELSE "loop", todo |-> todo, key |-> None, fail |-> FALSE]

\* the SELECT of maf_worker_poll
Poll(w) ==
    /\ wk[w].pc \in {"idle", "select"}
    /\ \E S \in SUBSET Accepted :
          /\ Cardinality(S) = Batch \/ (Cardinality(S) < Batch /\ S = Accepted)
          /\ wk' = [wk EXCEPT ![w] = After(S)]
    /\ UNCHANGED <<cmd, call, api, faults>>

Executing(m, k) == [m EXCEPT !.pc = "exec", !.key = k, !.todo = @ \ {k}]

\* maf_worker_claim: the UPDATE takes the command if it is still accepted.
\* The result is only compared with -1: the worker executes it in any case
Claim(w, k) ==
    /\ wk[w].pc = "loop" /\ k \in wk[w].todo
    /\ cmd' = [cmd EXCEPT ![k] = IF @.status = "accepted" THEN Claimed(@, w) ELSE @]
    /\ wk' = [wk EXCEPT ![w] = Executing(@, k)]
    /\ UNCHANGED <<call, api, faults>>

\* Mutation: the UPDATE of maf_worker_command_state does not name the claim
OursAnyClaim(w, k) == cmd[k].status = "processing"

\* the condition of the UPDATE of maf_worker_command_state
Ours(w, k) == cmd[k].status = "processing" /\ cmd[k].claim = w

\* maf_worker_execute returns ok or an error; a failed create fails the call
Executed(w, ok) ==
    IF ~ ok /\ cmd[wk[w].key].req.op = "create"
    THEN Pc(w, "failcall") ELSE wk' = [wk EXCEPT ![w] = After(wk[w].todo)]

Finish(w, ok) ==
    LET k == wk[w].key IN
    /\ wk[w].pc = "exec"
    /\ cmd' = [cmd EXCEPT ![k] = IF Ours(w, k)
                                THEN Result(@, IF ok THEN "completed" ELSE "failed") ELSE @]
    /\ Executed(w, ok)
    /\ UNCHANGED <<call, api, faults>>

\* maf_worker_call_state(failed) after a failed create
FailCall(w) ==
    /\ wk[w].pc = "failcall"
    /\ call' = [call EXCEPT ![cmd[wk[w].key].req.call] = "ended"]
    /\ wk' = [wk EXCEPT ![w] = After(wk[w].todo)]
    /\ UNCHANGED <<cmd, api, faults>>

---------------------------------------------------------------------------
(* Time, SIP and faults *)

\* the timeout of a claim passes
Age(k) ==
    /\ cmd[k].status = "processing" /\ ~ cmd[k].old
    /\ cmd' = [cmd EXCEPT ![k] = Aged(@)]
    /\ UNCHANGED <<call, api, wk, faults>>

\* a call whose INVITE may be out ends by a message, a timer or a command
EndCall(k) ==
    /\ Stored(k) /\ cmd[k].req.op = "create" /\ cmd[k].attempts > 0
    /\ call[cmd[k].req.call] = "open"
    /\ call' = [call EXCEPT ![cmd[k].req.call] = "ended"]
    /\ UNCHANGED <<cmd, api, wk, faults>>

Fault == faults < MaxFaults /\ faults' = faults + 1

\* a node goes down and comes back with an empty worker
CrashWorker(w) ==
    /\ Fault /\ wk[w].pc # "idle"
    /\ wk' = [wk EXCEPT ![w] = Idle]
    /\ UNCHANGED <<cmd, call, api>>

\* the handler goes down, or the answer is lost
CrashClient(a) ==
    /\ Fault /\ api[a].pc # "idle"
    /\ Refuse(a)
    /\ UNCHANGED <<cmd, call, wk>>

\* the UPDATE of maf_worker_claim fails
ClaimError(w, k) ==
    /\ Fault /\ wk[w].pc = "loop" /\ k \in wk[w].todo
    /\ wk' = [wk EXCEPT ![w] = After(wk[w].todo \ {k})]
    /\ UNCHANGED <<cmd, call, api>>

\* the UPDATE of maf_worker_command_state fails
FinishError(w, ok) ==
    /\ Fault /\ wk[w].pc = "exec"
    /\ Executed(w, ok)
    /\ UNCHANGED <<cmd, call, api>>

---------------------------------------------------------------------------

ClientStep(a) ==
    \/ \E r \in Requests : SubmitCreate(a, r) \/ SubmitCommand(a, r)
    \/ Idempotency(a) \/ Owner(a) \/ InsertCall(a) \/ InsertCommand(a)

WorkerStep(w) ==
    \/ BeginRecover(w) \/ Requeue(w) \/ FailCalls(w) \/ FailCommands(w)
    \/ Poll(w) \/ FailCall(w)
    \/ \E k \in Keys : Claim(w, k)
    \/ \E ok \in BOOLEAN : Finish(w, ok)

FaultStep ==
    \/ \E w \in Workers : CrashWorker(w)
                          \/ (\E k \in Keys : ClaimError(w, k))
                          \/ (\E ok \in BOOLEAN : FinishError(w, ok))
    \/ \E a \in Clients : CrashClient(a)

Next ==
    \/ \E a \in Clients : ClientStep(a)
    \/ \E r \in Requests : ProxyCommand(r)
    \/ \E w \in Workers : WorkerStep(w)
    \/ \E k \in Keys : Age(k) \/ EndCall(k)
    \/ FaultStep

\* Workers poll every second for ever, time passes, and the gate of the
\* recovery (5 s) opens again and again.  Nothing is assumed of applications,
\* of the ends of calls or of faults.
Fairness ==
    /\ \A w \in Workers : WF_vars(WorkerStep(w)) /\ SF_vars(BeginRecover(w))
    /\ \A k \in Keys : WF_vars(Age(k))

Spec == Init /\ [][Next]_vars

---------------------------------------------------------------------------
(* Properties *)

\* The tables, handlers and workers are well formed, and no command is
\* attempted more than MaxAttempts times.
TypeOK ==
    /\ cmd \in [Keys -> RowType]
    /\ call \in [Calls -> {"none", "open", "ended"}]
    /\ api \in [Clients -> ClientType]
    /\ wk \in [Workers -> WorkerType]
    /\ faults \in 0 .. MaxFaults

\* An answer of the API is kept: 202 stands for a command that is stored with
\* exactly this request, 200 for one stored under its key with the same body,
\* whatever handlers, workers and crashes do later (maf_api_create_call,
\* maf_api_command).
AnsweredStored ==
    \A a \in Clients :
        LET r == api[a].req IN
        /\ api[a].ans = "202" => cmd[r.key].req = r
        /\ api[a].ans = "200" => Stored(r.key) /\ cmd[r.key].req.body = r.body

\* No command is stored for a call that is not: a worker that claims a
\* command finds its call (the INSERTs of maf_api_create_call are not one
\* transaction).
CallBeforeCommand == \A k \in Keys : Stored(k) => call[cmd[k].req.call] # "none"

\* The limit is read before the call is stored, so handlers race: the calls
\* open at a time exceed it by less than the number of handlers, never more
\* (maf_api_capacity_available).
OvershootBounded ==
    Limit > 0 => Cardinality(Open) < Limit + Cardinality(Clients)

\* w executes k and the row says so
Holds(w, k) ==
    /\ wk[w].pc = "exec" /\ wk[w].key = k
    /\ cmd[k].status = "processing" /\ cmd[k].claim = w

\* While a worker executes a command it claimed and its time is not over,
\* nobody else touches the row: not the workers that lost the claim and
\* execute it too, not a recovery (maf_worker_command_state,
\* maf_worker_recover_stale_commands).
HolderUndisturbed ==
    [][\A w \in Workers, k \in Keys : Holds(w, k) /\ ~ cmd[k].old /\ wk'[w] = wk[w] =>
          cmd'[k] \in {cmd[k], Aged(cmd[k])}]_vars

\* A command that completed or failed keeps its result: late workers and
\* recoveries do not change it.
SettledForGood ==
    [][\A k \in Keys : cmd[k].status \in {"completed", "failed"} => cmd'[k] = cmd[k]]_vars

\* Every stored command completes or fails, whichever workers crash while
\* they hold it (maf_worker_poll, maf_worker_recover_stale_commands).
Settles ==
    \A k \in Keys : cmd[k].status = "accepted" ~> cmd[k].status \in {"completed", "failed"}

\* maf_worker.mko:400: the worker that goes on to execute a command is the
\* one whose UPDATE took it.
ExactlyOneWins ==
    [][\A w \in Workers : wk[w].pc = "loop" /\ wk'[w].pc = "exec" =>
          cmd'[wk'[w].key].claim = w]_vars

=============================================================================
