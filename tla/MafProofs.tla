----------------------------- MODULE MafProofs -----------------------------
(***************************************************************************)
(* MAF, on the server and at its clients.                                  *)
(*                                                                         *)
(* The command queue, for any number of keys, calls, handlers, workers,    *)
(* attempts and faults.  The proof first says what any step can do to one  *)
(* row, one call, one handler and one worker (the ...Move predicates, with *)
(* one case per action); the invariant and the action properties then      *)
(* follow from the moves alone.                                            *)
(*                                                                         *)
(* The programs that use the SDKs, each with an invariant of its own:      *)
(* ClientInv for operations over a network that fails, FeedInv for the     *)
(* subscription, which also carries the refinement of the abstract feed.   *)
(***************************************************************************)
EXTENDS MafExecutions, MafSdk, FiniteSetTheorems, WellFoundedInduction, TLAPS

\* What a step can do to the row of k
RowMove(k) ==
    \/ cmd'[k] = cmd[k]
    \/ \E r \in Requests : /\ cmd[k].status = "none" /\ call[r.call] # "none"
                           /\ cmd'[k] = NewRow(r)
    \/ \E w \in Workers : cmd[k].status = "accepted" /\ cmd'[k] = Claimed(cmd[k], w)
    \/ \E w \in Workers, s \in {"completed", "failed"} :
          /\ Holds(w, k) /\ wk'[w] # wk[w]
          /\ cmd'[k] = Result(cmd[k], s)
    \/ Retryable(k) /\ cmd'[k] = Requeued(cmd[k])
    \/ Exhausted(k) /\ cmd'[k] = GivenUp(cmd[k])
    \/ cmd[k].status = "processing" /\ cmd'[k] = Aged(cmd[k])

\* What a step can do to the call c
CallMove(c) == call'[c] \in {call[c], "ended"} \/ (call[c] = "none" /\ call'[c] = "open")

\* What a step can do to the handler a
ClientMove(a) ==
    LET m == api[a]
        n == api'[a]
    IN \/ n = m
       \/ n = NoRequest
       \/ \E r \in Requests : n = Begun(r) /\ (r.op = "create" \/ call[r.call] # "none")
       \/ \E p \in {"owner", "call", "command"} :
             /\ m.pc # "idle" /\ n = At(m, p)
             /\ p = "command" => call'[m.req.call] # "none"
             /\ p # "command" => m.req.op = "create"
       \/ /\ m.pc # "idle" /\ n = Answered(m, "202")
          /\ cmd'[m.req.key].req = m.req
       \/ /\ m.pc # "idle" /\ n = Answered(m, "200")
          /\ Stored(m.req.key) /\ cmd[m.req.key].req.body = m.req.body

\* What a step can do to the worker w
WorkerMove(w) == wk'[w] \in WorkerType /\ (wk'[w].pc \in {"exec", "failcall"} => wk'[w].key \in Keys)

Functions ==
    /\ cmd' = [k \in Keys |-> cmd'[k]]
    /\ call' = [c \in Calls |-> call'[c]]
    /\ api' = [a \in Clients |-> api'[a]]
    /\ wk' = [w \in Workers |-> wk'[w]]
    /\ faults' \in 0 .. MaxFaults

Moves ==
    /\ Functions
    /\ \A k \in Keys : RowMove(k)
    /\ \A c \in Calls : CallMove(c)
    /\ \A a \in Clients : ClientMove(a)
    /\ \A w \in Workers : WorkerMove(w)

\* The rows hold requests, and an accepted command has an attempt left
RowsOK ==
    \A k \in Keys :
        /\ cmd[k].status # "none" => cmd[k].req \in Requests
        /\ cmd[k].status = "accepted" => cmd[k].attempts < MaxAttempts
        /\ cmd[k].status = "none" => cmd[k].attempts = 0 /\ cmd[k].req = None

\* Handlers under way have a request, whose call is stored where they need it
ClientsOK ==
    \A a \in Clients :
        LET m == api[a] IN
        /\ m.pc # "idle" \/ m.ans # "none" => m.req \in Requests
        /\ m.pc # "idle" => m.ans = "none"
        /\ m.pc \in {"owner", "call"} => m.req.op = "create"
        /\ m.pc = "command" => call[m.req.call] # "none"
        /\ m.pc = "idem" /\ m.req.op # "create" => call[m.req.call] # "none"

WorkersOK == \A w \in Workers : wk[w].pc \in {"exec", "failcall"} => wk[w].key \in Keys

IInv == TypeOK /\ RowsOK /\ ClientsOK /\ WorkersOK /\ AnsweredStored /\ CallBeforeCommand

\* The request of a key is one of Requests, so its key and call are known.
LEMMA RequestFacts ==
    ASSUME NEW r \in Requests
    PROVE  r.key \in Keys /\ r.call \in Calls /\ r # None
BY RequestsAssumption, SetsAssumption DEF RequestType

\* Workers and handlers change one field at a time.
LEMMA AtFacts ==
    ASSUME NEW m \in WorkerType, NEW p
    PROVE  /\ At(m, p).pc = p /\ At(m, p).key = m.key
           /\ p \in {"idle", "requeue", "failcalls", "failcommands", "select", "loop", "exec", "failcall"}
                => At(m, p) \in WorkerType
BY DEF At, WorkerType

LEMMA ClientFacts ==
    ASSUME NEW m \in ClientType, NEW p
    PROVE  /\ At(m, p).pc = p /\ At(m, p).req = m.req /\ At(m, p).ans = m.ans
           /\ p \in {"idle", "idem", "owner", "call", "command"} => At(m, p) \in ClientType
           /\ Answered(m, p).pc = "idle" /\ Answered(m, p).req = m.req /\ Answered(m, p).ans = p
           /\ p \in {"none", "200", "202"} => Answered(m, p) \in ClientType
BY DEF At, Answered, ClientType

\* The row a handler stores (maf_api_insert_command).
LEMMA StoreMove ==
    ASSUME IInv, NEW r \in Requests, call[r.call] # "none", cmd' = Store(r.key, r)
    PROVE  \A k \in Keys : RowMove(k)
<1>1. cmd \in [Keys -> RowType] /\ r.key \in Keys
  BY RequestFacts DEF IInv, TypeOK
<1>2. \A k \in Keys : k # r.key => cmd'[k] = cmd[k]
  BY <1>1 DEF Store
<1>3. Stored(r.key) => cmd'[r.key] = cmd[r.key]
  BY <1>1 DEF Store
<1>4. ~ Stored(r.key) => cmd'[r.key] = NewRow(r)
  BY <1>1 DEF Store
<1> QED BY <1>2, <1>3, <1>4 DEF RowMove, Stored

\* What each action does to the rows.
LEMMA RowMoves ==
    ASSUME IInv, Next
    PROVE  \A k \in Keys : RowMove(k)
<1> USE DEF IInv
<1>0. cmd \in [Keys -> RowType] /\ wk \in [Workers -> WorkerType]
  BY DEF TypeOK
<1>1. ASSUME UNCHANGED cmd PROVE \A k \in Keys : RowMove(k)
  BY <1>1 DEF RowMove
<1>2. ASSUME NEW a \in Clients, InsertCommand(a) PROVE \A k \in Keys : RowMove(k)
  <2>1. api[a].req \in Requests /\ call[api[a].req.call] # "none"
    BY <1>2 DEF InsertCommand, ClientsOK
  <2> QED BY <1>2, <2>1, StoreMove DEF InsertCommand
<1>3. ASSUME NEW r \in Requests, ProxyCommand(r) PROVE \A k \in Keys : RowMove(k)
  BY <1>3, StoreMove DEF ProxyCommand, Known
<1>4. ASSUME NEW w \in Workers, Requeue(w) PROVE \A k \in Keys : RowMove(k)
  BY <1>4 DEF Requeue, RowMove
<1>5. ASSUME NEW w \in Workers, FailCommands(w) PROVE \A k \in Keys : RowMove(k)
  BY <1>5 DEF FailCommands, RowMove
<1>6. ASSUME NEW w \in Workers, NEW k \in Keys, Claim(w, k) PROVE \A j \in Keys : RowMove(j)
  <2>1. CASE cmd[k].status = "accepted"
    <3>1. cmd'[k] = Claimed(cmd[k], w)
      BY <1>0, <1>6, <2>1 DEF Claim
    <3>2. \A j \in Keys : j # k => cmd'[j] = cmd[j]
      BY <1>0, <1>6, <2>1 DEF Claim
    <3> QED BY <2>1, <3>1, <3>2 DEF RowMove
  <2>2. CASE cmd[k].status # "accepted"
    BY <1>0, <1>6, <2>2 DEF Claim, RowMove
  <2> QED BY <2>1, <2>2
<1>7. ASSUME NEW w \in Workers, NEW ok \in BOOLEAN, Finish(w, ok)
      PROVE \A j \in Keys : RowMove(j)
  <2> DEFINE k == wk[w].key
             s == IF ok THEN "completed" ELSE "failed"
  <2>1. CASE Ours(w, k)
    <3>1. k \in Keys /\ s \in {"completed", "failed"}
      BY <1>7 DEF Finish, WorkersOK
    <3>2. cmd'[k] = Result(cmd[k], s)
      BY <1>0, <1>7, <2>1, <3>1 DEF Finish
    <3>3. \A j \in Keys : j # k => cmd'[j] = cmd[j]
      BY <1>0, <1>7, <2>1 DEF Finish
    <3>4. wk'[w] # wk[w]
      <4>1. wk'[w].pc # "exec"
        BY <1>0, <1>7, AtFacts DEF Finish, Executed, Pc, After
      <4> QED BY <1>7, <4>1 DEF Finish
    <3>5. Holds(w, k)
      BY <1>7, <2>1 DEF Finish, Ours, Holds
    <3>6. RowMove(k)
      BY <3>1, <3>2, <3>4, <3>5 DEF RowMove
    <3> QED BY <3>3, <3>6 DEF RowMove
  <2>2. CASE ~ Ours(w, k)
    BY <1>0, <1>7, <2>2 DEF Finish, RowMove
  <2> QED BY <2>1, <2>2
<1>8. ASSUME NEW k \in Keys, Age(k) PROVE \A j \in Keys : RowMove(j)
  <2>1. cmd'[k] = Aged(cmd[k])
    BY <1>0, <1>8 DEF Age
  <2>2. \A j \in Keys : j # k => cmd'[j] = cmd[j]
    BY <1>0, <1>8 DEF Age
  <2> QED BY <1>8, <2>1, <2>2 DEF Age, RowMove
<1> HIDE DEF IInv
<1>9. ASSUME NEW a \in Clients, ClientStep(a) PROVE \A k \in Keys : RowMove(k)
  <2>1. InsertCommand(a) \/ UNCHANGED cmd
    BY <1>9 DEF ClientStep, SubmitCreate, SubmitCommand, Idempotency, Owner, InsertCall
  <2> QED BY <1>1, <1>2, <2>1
<1>10. ASSUME NEW w \in Workers, WorkerStep(w) PROVE \A k \in Keys : RowMove(k)
  <2>1. \/ Requeue(w) \/ FailCommands(w) \/ UNCHANGED cmd
        \/ (\E k \in Keys : Claim(w, k)) \/ (\E ok \in BOOLEAN : Finish(w, ok))
    BY <1>10 DEF WorkerStep, BeginRecover, FailCalls, Poll, FailCall
  <2> QED BY <1>1, <1>4, <1>5, <1>6, <1>7, <2>1
<1>11. ASSUME FaultStep PROVE UNCHANGED cmd
  BY <1>11 DEF FaultStep, CrashWorker, CrashClient, ClaimError, FinishError
<1>12. ASSUME NEW k \in Keys, EndCall(k) PROVE UNCHANGED cmd
  BY <1>12 DEF EndCall
<1> QED BY <1>1, <1>3, <1>8, <1>9, <1>10, <1>11, <1>12 DEF Next


\* What the moves leave of a row.
LEMMA RowFacts ==
    ASSUME NEW rw \in RowType
    PROVE  /\ \A w \in Workers :
                 /\ Claimed(rw, w).status = "processing"
                 /\ Claimed(rw, w).req = rw.req
                 /\ rw.attempts < MaxAttempts => Claimed(rw, w) \in RowType
           /\ \A s \in {"completed", "failed"} :
                 Result(rw, s).status = s /\ Result(rw, s).req = rw.req /\ Result(rw, s) \in RowType
           /\ Requeued(rw).status = "accepted" /\ Requeued(rw).req = rw.req
           /\ Requeued(rw).attempts = rw.attempts /\ Requeued(rw) \in RowType
           /\ GivenUp(rw).status = "failed" /\ GivenUp(rw).req = rw.req /\ GivenUp(rw) \in RowType
           /\ Aged(rw).status = rw.status /\ Aged(rw).req = rw.req /\ Aged(rw) \in RowType
<1>1. \A w \in Workers : Claimed(rw, w).status = "processing" /\ Claimed(rw, w).req = rw.req
  BY DEF RowType, Claimed
<1>2. ASSUME NEW w \in Workers, rw.attempts < MaxAttempts PROVE Claimed(rw, w) \in RowType
  <2>1. rw.attempts \in 0 .. MaxAttempts
    BY DEF RowType
  <2>2. rw.attempts + 1 \in 0 .. MaxAttempts
    BY <1>2, <2>1, BoundsAssumption
  <2> QED BY <2>2 DEF RowType, Claimed
<1>3. \A s \in {"completed", "failed"} :
          Result(rw, s).status = s /\ Result(rw, s).req = rw.req /\ Result(rw, s) \in RowType
  BY DEF RowType, Result
<1>4. /\ Requeued(rw).status = "accepted" /\ Requeued(rw).req = rw.req
      /\ Requeued(rw).attempts = rw.attempts /\ Requeued(rw) \in RowType
  BY DEF RowType, Requeued
<1>5. GivenUp(rw).status = "failed" /\ GivenUp(rw).req = rw.req /\ GivenUp(rw) \in RowType
  BY DEF RowType, GivenUp
<1>6. Aged(rw).status = rw.status /\ Aged(rw).req = rw.req /\ Aged(rw) \in RowType
  BY DEF RowType, Aged
<1> QED BY <1>1, <1>2, <1>3, <1>4, <1>5, <1>6

LEMMA NewRowFacts ==
    ASSUME NEW r \in Requests
    PROVE  /\ NewRow(r) \in RowType /\ NewRow(r).status = "accepted"
           /\ NewRow(r).req = r /\ NewRow(r).attempts = 0
BY BoundsAssumption DEF NewRow, NoRow, RowType

\* A move keeps a row well formed, and a stored request stays what it is.
LEMMA RowKept ==
    ASSUME IInv, NEW k \in Keys, RowMove(k)
    PROVE  /\ cmd'[k] \in RowType
           /\ cmd'[k].status # "none" => cmd'[k].req \in Requests
           /\ cmd'[k].status = "accepted" => cmd'[k].attempts < MaxAttempts
           /\ cmd'[k].status = "none" => cmd'[k].attempts = 0 /\ cmd'[k].req = None
           /\ cmd[k].status # "none" => cmd'[k].status # "none" /\ cmd'[k].req = cmd[k].req
           /\ cmd[k].status = "none" => \/ cmd'[k].status = "none"
                                        \/ call[cmd'[k].req.call] # "none"
<1>0. /\ cmd[k] \in RowType
      /\ cmd[k].status # "none" => cmd[k].req \in Requests
      /\ cmd[k].status = "accepted" => cmd[k].attempts < MaxAttempts
      /\ cmd[k].status = "none" => cmd[k].attempts = 0 /\ cmd[k].req = None
  BY DEF IInv, TypeOK, RowsOK
<1>1. CASE cmd'[k] = cmd[k]
  BY <1>0, <1>1
<1>2. ASSUME NEW r \in Requests, cmd[k].status = "none", call[r.call] # "none", cmd'[k] = NewRow(r)
      PROVE  /\ cmd'[k] \in RowType /\ cmd'[k].status = "accepted" /\ cmd'[k].req \in Requests
             /\ cmd'[k].attempts < MaxAttempts /\ call[cmd'[k].req.call] # "none"
  BY <1>2, NewRowFacts, BoundsAssumption
<1>3. ASSUME NEW w \in Workers, cmd[k].status = "accepted", cmd'[k] = Claimed(cmd[k], w)
      PROVE  cmd'[k] \in RowType /\ cmd'[k].status = "processing" /\ cmd'[k].req = cmd[k].req
  BY <1>0, <1>3, RowFacts
<1>4. ASSUME NEW w \in Workers, NEW s \in {"completed", "failed"}, Holds(w, k), cmd'[k] = Result(cmd[k], s)
      PROVE  /\ cmd'[k] \in RowType /\ cmd'[k].status = s /\ cmd'[k].req = cmd[k].req
             /\ cmd[k].status = "processing"
  BY <1>0, <1>4, RowFacts DEF Holds
<1>5. ASSUME Retryable(k), cmd'[k] = Requeued(cmd[k])
      PROVE  /\ cmd'[k] \in RowType /\ cmd'[k].status = "accepted" /\ cmd'[k].req = cmd[k].req
             /\ cmd'[k].attempts < MaxAttempts /\ cmd[k].status = "processing"
  BY <1>0, <1>5, RowFacts DEF Retryable, Stale
<1>6. ASSUME Exhausted(k), cmd'[k] = GivenUp(cmd[k])
      PROVE  /\ cmd'[k] \in RowType /\ cmd'[k].status = "failed" /\ cmd'[k].req = cmd[k].req
             /\ cmd[k].status = "processing"
  BY <1>0, <1>6, RowFacts DEF Exhausted, Stale
<1>7. ASSUME cmd[k].status = "processing", cmd'[k] = Aged(cmd[k])
      PROVE  cmd'[k] \in RowType /\ cmd'[k].status = "processing" /\ cmd'[k].req = cmd[k].req
  BY <1>0, <1>7, RowFacts
<1> QED BY <1>0, <1>1, <1>2, <1>3, <1>4, <1>5, <1>6, <1>7 DEF RowMove

\* Every action maps the tables to tables of the same keys.
LEMMA FunctionsKept ==
    ASSUME IInv, Next
    PROVE  Functions
<1>1. /\ cmd = [k \in Keys |-> cmd[k]] /\ call = [c \in Calls |-> call[c]]
      /\ api = [a \in Clients |-> api[a]] /\ wk = [w \in Workers |-> wk[w]]
      /\ faults \in 0 .. MaxFaults
  BY DEF IInv, TypeOK
<1>2. ASSUME NEW a \in Clients, ClientStep(a) PROVE Functions
  <2>1. ASSUME NEW r \in Requests, SubmitCreate(a, r) PROVE Functions
    BY <1>1, <2>1 DEF SubmitCreate, Functions
  <2>2. ASSUME NEW r \in Requests, SubmitCommand(a, r) PROVE Functions
    BY <1>1, <2>2 DEF SubmitCommand, Functions
  <2>3. CASE Idempotency(a)
    BY <1>1, <2>3 DEF Idempotency, Goto, Answer, Refuse, Functions
  <2>4. CASE Owner(a)
    BY <1>1, <2>4 DEF Owner, Goto, Refuse, Functions
  <2>5. CASE InsertCall(a)
    BY <1>1, <2>5 DEF InsertCall, Goto, Functions
  <2>6. CASE InsertCommand(a)
    BY <1>1, <2>6 DEF InsertCommand, Store, Answer, Refuse, Functions
  <2> QED BY <1>2, <2>1, <2>2, <2>3, <2>4, <2>5, <2>6 DEF ClientStep
<1>3. ASSUME NEW r \in Requests, ProxyCommand(r) PROVE Functions
  BY <1>1, <1>3 DEF ProxyCommand, Store, Functions
<1>4. ASSUME NEW w \in Workers, WorkerStep(w) PROVE Functions
  <2>1. CASE BeginRecover(w)
    BY <1>1, <2>1 DEF BeginRecover, Functions
  <2>2. CASE Requeue(w)
    BY <1>1, <2>2 DEF Requeue, Pc, Functions
  <2>3. CASE FailCalls(w)
    BY <1>1, <2>3 DEF FailCalls, Pc, Functions
  <2>4. CASE FailCommands(w)
    BY <1>1, <2>4 DEF FailCommands, Pc, Functions
  <2>5. CASE Poll(w)
    BY <1>1, <2>5 DEF Poll, Functions
  <2>6. CASE FailCall(w)
    BY <1>1, <2>6 DEF FailCall, Functions
  <2>7. ASSUME NEW k \in Keys, Claim(w, k) PROVE Functions
    BY <1>1, <2>7 DEF Claim, Functions
  <2>8. ASSUME NEW ok \in BOOLEAN, Finish(w, ok) PROVE Functions
    BY <1>1, <2>8 DEF Finish, Executed, Pc, Functions
  <2> QED BY <1>4, <2>1, <2>2, <2>3, <2>4, <2>5, <2>6, <2>7, <2>8 DEF WorkerStep
<1>5. ASSUME NEW k \in Keys, Age(k) \/ EndCall(k) PROVE Functions
  BY <1>1, <1>5 DEF Age, EndCall, Functions
<1>6. CASE FaultStep
  <2>1. ASSUME Fault PROVE faults' \in 0 .. MaxFaults
    BY <1>1, <2>1, BoundsAssumption DEF Fault
  <2>2. ASSUME NEW w \in Workers, CrashWorker(w) PROVE Functions
    BY <1>1, <2>1, <2>2 DEF CrashWorker, Functions
  <2>3. ASSUME NEW w \in Workers, NEW k \in Keys, ClaimError(w, k) PROVE Functions
    BY <1>1, <2>1, <2>3 DEF ClaimError, Functions
  <2>4. ASSUME NEW w \in Workers, NEW ok \in BOOLEAN, FinishError(w, ok) PROVE Functions
    BY <1>1, <2>1, <2>4 DEF FinishError, Executed, Pc, Functions
  <2>5. ASSUME NEW a \in Clients, CrashClient(a) PROVE Functions
    BY <1>1, <2>1, <2>5 DEF CrashClient, Refuse, Functions
  <2> QED BY <1>6, <2>2, <2>3, <2>4, <2>5 DEF FaultStep
<1> QED BY <1>2, <1>3, <1>4, <1>5, <1>6 DEF Next

\* What each action does to the calls.
LEMMA CallMoves ==
    ASSUME IInv, Next
    PROVE  \A c \in Calls : CallMove(c)
<1>0. call \in [Calls -> {"none", "open", "ended"}]
  BY DEF IInv, TypeOK
<1>1. ASSUME UNCHANGED call PROVE \A c \in Calls : CallMove(c)
  BY <1>1 DEF CallMove
<1>2. ASSUME NEW a \in Clients, InsertCall(a) PROVE \A c \in Calls : CallMove(c)
  BY <1>0, <1>2 DEF InsertCall, CallMove
<1>3. ASSUME NEW w \in Workers, FailCalls(w) PROVE \A c \in Calls : CallMove(c)
  BY <1>0, <1>3 DEF FailCalls, CallMove
<1>4. ASSUME NEW w \in Workers, FailCall(w) PROVE \A c \in Calls : CallMove(c)
  BY <1>0, <1>4 DEF FailCall, CallMove
<1>5. ASSUME NEW k \in Keys, EndCall(k) PROVE \A c \in Calls : CallMove(c)
  BY <1>0, <1>5 DEF EndCall, CallMove
<1>6. ASSUME NEW a \in Clients, ClientStep(a) PROVE InsertCall(a) \/ UNCHANGED call
  BY <1>6 DEF ClientStep, SubmitCreate, SubmitCommand, Idempotency, Owner, InsertCommand
<1>7. ASSUME NEW w \in Workers, WorkerStep(w) PROVE FailCalls(w) \/ FailCall(w) \/ UNCHANGED call
  BY <1>7 DEF WorkerStep, BeginRecover, Requeue, FailCommands, Poll, Claim, Finish
<1>8. ASSUME FaultStep PROVE UNCHANGED call
  BY <1>8 DEF FaultStep, CrashWorker, CrashClient, ClaimError, FinishError
<1>9. ASSUME NEW r \in Requests, ProxyCommand(r) PROVE UNCHANGED call
  BY <1>9 DEF ProxyCommand
<1>10. ASSUME NEW k \in Keys, Age(k) PROVE UNCHANGED call
  BY <1>10 DEF Age
<1> QED BY <1>1, <1>2, <1>3, <1>4, <1>5, <1>6, <1>7, <1>8, <1>9, <1>10 DEF Next

\* What each action does to the handlers.
LEMMA ClientMoves ==
    ASSUME IInv, Next
    PROVE  \A a \in Clients : ClientMove(a)
<1>0. api \in [Clients -> ClientType] /\ call \in [Calls -> {"none", "open", "ended"}]
      /\ cmd \in [Keys -> RowType]
  BY DEF IInv, TypeOK
<1>1. ASSUME UNCHANGED api PROVE \A a \in Clients : ClientMove(a)
  BY <1>1 DEF ClientMove
<1>2. ASSUME NEW a \in Clients, ClientStep(a) \/ CrashClient(a) PROVE ClientMove(a)
  <2>0. api[a].pc # "idle" => api[a].req \in Requests
    BY DEF IInv, ClientsOK
  <2>1. ASSUME NEW r \in Requests, SubmitCreate(a, r) PROVE ClientMove(a)
    BY <1>0, <2>1 DEF SubmitCreate, ClientMove
  <2>2. ASSUME NEW r \in Requests, SubmitCommand(a, r) PROVE ClientMove(a)
    BY <1>0, <2>2 DEF SubmitCommand, Known, ClientMove
  <2>3. CASE Idempotency(a)
    <3>1. api[a].pc = "idem" /\ call' = call
      BY <2>3 DEF Idempotency
    <3>2. api[a].req.op # "create" => call[api[a].req.call] # "none"
      BY <3>1 DEF IInv, ClientsOK
    <3>3. \/ /\ Stored(api[a].req.key) /\ cmd[api[a].req.key].req.body = api[a].req.body
             /\ api'[a] = Answered(api[a], "200")
          \/ api'[a] = NoRequest
          \/ api[a].req.op = "create" /\ api'[a] = At(api[a], "owner")
          \/ api[a].req.op # "create" /\ api'[a] = At(api[a], "command")
      BY <1>0, <2>3 DEF Idempotency, Goto, Answer, Refuse, Replay
    <3> QED BY <3>1, <3>2, <3>3 DEF ClientMove
  <2>4. CASE Owner(a)
    <3>1. api[a].pc = "owner" /\ api[a].req.op = "create"
      BY <2>4 DEF Owner, IInv, ClientsOK
    <3> QED BY <1>0, <2>4, <3>1 DEF Owner, Goto, Refuse, ClientMove
  <2>5. CASE InsertCall(a)
    <3>1. api[a].pc = "call" /\ api'[a] = At(api[a], "command")
      BY <1>0, <2>5 DEF InsertCall, Goto
    <3>2. api[a].req.call \in Calls
      BY <2>0, <3>1, RequestFacts
    <3>3. call'[api[a].req.call] # "none"
      BY <1>0, <2>5, <3>2 DEF InsertCall
    <3> QED BY <3>1, <3>3 DEF ClientMove
  <2>6. CASE InsertCommand(a)
    <3>1. api[a].pc = "command"
      BY <2>6 DEF InsertCommand
    <3>2. api[a].req \in Requests /\ api[a].req.key \in Keys
      BY <2>0, <3>1, RequestFacts
    <3>3. ~ Stored(api[a].req.key) => cmd'[api[a].req.key].req = api[a].req
      BY <1>0, <2>6, <3>2, NewRowFacts DEF InsertCommand, Store
    <3>4. \/ /\ Stored(api[a].req.key) /\ cmd[api[a].req.key].req.body = api[a].req.body
             /\ api'[a] = Answered(api[a], "200")
          \/ api'[a] = NoRequest
          \/ ~ Stored(api[a].req.key) /\ api'[a] = Answered(api[a], "202")
      BY <1>0, <2>6 DEF InsertCommand, Answer, Refuse, Replay
    <3> QED BY <3>1, <3>3, <3>4 DEF ClientMove
  <2>7. CASE CrashClient(a)
    BY <1>0, <2>7 DEF CrashClient, Refuse, ClientMove
  <2> QED BY <1>2, <2>1, <2>2, <2>3, <2>4, <2>5, <2>6, <2>7 DEF ClientStep
<1>3. ASSUME NEW a \in Clients, ClientStep(a) \/ CrashClient(a)
      PROVE  \A b \in Clients : b # a => api'[b] = api[b]
  BY <1>0, <1>3 DEF ClientStep, SubmitCreate, SubmitCommand, Idempotency, Owner, InsertCall,
     InsertCommand, CrashClient, Goto, Answer, Refuse
<1>4. ASSUME NEW a \in Clients, ClientStep(a) \/ CrashClient(a)
      PROVE  \A b \in Clients : ClientMove(b)
  BY <1>2, <1>3, <1>4 DEF ClientMove
<1>5. ASSUME NEW w \in Workers, WorkerStep(w) PROVE UNCHANGED api
  BY <1>5 DEF WorkerStep, BeginRecover, Requeue, FailCalls, FailCommands, Poll, FailCall, Claim, Finish
<1>6. ASSUME FaultStep PROVE UNCHANGED api \/ \E a \in Clients : CrashClient(a)
  BY <1>6 DEF FaultStep, CrashWorker, ClaimError, FinishError
<1>7. ASSUME NEW r \in Requests, ProxyCommand(r) PROVE UNCHANGED api
  BY <1>7 DEF ProxyCommand
<1>8. ASSUME NEW k \in Keys, Age(k) \/ EndCall(k) PROVE UNCHANGED api
  BY <1>8 DEF Age, EndCall
<1> QED BY <1>1, <1>4, <1>5, <1>6, <1>7, <1>8 DEF Next

LEMMA WorkerShapes ==
    /\ Idle \in WorkerType /\ Idle.pc = "idle"
    /\ \A S \in SUBSET Keys : After(S) \in WorkerType /\ After(S).pc \in {"idle", "loop"}
    /\ \A retry, fail \in BOOLEAN :
          Recovering(retry, fail) \in WorkerType /\ Recovering(retry, fail).pc \in {"requeue", "failcalls"}
    /\ \A m \in WorkerType, k \in Keys : Executing(m, k) \in WorkerType /\ Executing(m, k).key = k
<1>1. Idle \in WorkerType /\ Idle.pc = "idle"
  BY DEF Idle, WorkerType
<1>2. \A S \in SUBSET Keys : After(S) \in WorkerType /\ After(S).pc \in {"idle", "loop"}
  BY DEF After, WorkerType
<1>3. \A retry, fail \in BOOLEAN :
          Recovering(retry, fail) \in WorkerType /\ Recovering(retry, fail).pc \in {"requeue", "failcalls"}
  BY DEF Recovering, WorkerType
<1>4. ASSUME NEW m \in WorkerType, NEW k \in Keys
      PROVE  Executing(m, k) \in WorkerType /\ Executing(m, k).key = k
  <2>1. m.todo \ {k} \in SUBSET Keys
    BY DEF WorkerType
  <2> QED BY <2>1 DEF Executing, WorkerType
<1> QED BY <1>1, <1>2, <1>3, <1>4

\* What each action does to the workers.
LEMMA WorkerMoves ==
    ASSUME IInv, Next
    PROVE  \A w \in Workers : WorkerMove(w)
<1>0. wk \in [Workers -> WorkerType]
      /\ \A w \in Workers : wk[w].pc \in {"exec", "failcall"} => wk[w].key \in Keys
  BY DEF IInv, TypeOK, WorkersOK
<1>1. ASSUME UNCHANGED wk PROVE \A w \in Workers : WorkerMove(w)
  BY <1>0, <1>1 DEF WorkerMove
<1>2. ASSUME NEW w \in Workers,
             \/ WorkerStep(w) \/ CrashWorker(w) \/ \E k \in Keys : ClaimError(w, k)
             \/ \E ok \in BOOLEAN : FinishError(w, ok)
      PROVE  WorkerMove(w)
  <2>0. wk[w] \in WorkerType /\ wk[w].todo \in SUBSET Keys
    BY <1>0 DEF WorkerType
  <2>1. CASE BeginRecover(w)
    BY <1>0, <2>1, WorkerShapes DEF BeginRecover, WorkerMove
  <2>2. CASE Requeue(w)
    BY <1>0, <2>0, <2>2, AtFacts DEF Requeue, Pc, WorkerMove
  <2>3. CASE FailCalls(w)
    BY <1>0, <2>0, <2>3, AtFacts DEF FailCalls, Pc, WorkerMove
  <2>4. CASE FailCommands(w)
    BY <1>0, <2>0, <2>4, AtFacts DEF FailCommands, Pc, WorkerMove
  <2>5. CASE Poll(w)
    BY <1>0, <2>5, WorkerShapes DEF Poll, Accepted, WorkerMove
  <2>6. CASE FailCall(w)
    BY <1>0, <2>0, <2>6, WorkerShapes DEF FailCall, WorkerMove
  <2>7. ASSUME NEW k \in Keys, Claim(w, k) PROVE WorkerMove(w)
    BY <1>0, <2>0, <2>7, WorkerShapes DEF Claim, WorkerMove
  <2>8. ASSUME NEW ok \in BOOLEAN, wk[w].pc = "exec", Executed(w, ok) PROVE WorkerMove(w)
    <3>1. wk'[w] \in {At(wk[w], "failcall"), After(wk[w].todo)}
      BY <1>0, <2>8 DEF Executed, Pc
    <3>2. wk[w].key \in Keys
      BY <1>0, <2>8
    <3> QED BY <2>0, <3>1, <3>2, AtFacts, WorkerShapes DEF WorkerMove
  <2>9. CASE CrashWorker(w)
    BY <1>0, <2>9, WorkerShapes DEF CrashWorker, WorkerMove
  <2>10. ASSUME NEW k \in Keys, ClaimError(w, k) PROVE WorkerMove(w)
    <3>1. wk'[w] = After(wk[w].todo \ {k}) /\ wk[w].todo \ {k} \in SUBSET Keys
      BY <1>0, <2>0, <2>10 DEF ClaimError
    <3> QED BY <3>1, WorkerShapes DEF WorkerMove
  <2> QED BY <1>2, <2>1, <2>2, <2>3, <2>4, <2>5, <2>6, <2>7, <2>8, <2>9, <2>10
          DEF WorkerStep, Finish, FinishError
<1>3. ASSUME NEW w \in Workers,
             \/ WorkerStep(w) \/ CrashWorker(w) \/ \E k \in Keys : ClaimError(w, k)
             \/ \E ok \in BOOLEAN : FinishError(w, ok)
      PROVE  \A v \in Workers : v # w => wk'[v] = wk[v]
  BY <1>0, <1>3 DEF WorkerStep, BeginRecover, Requeue, FailCalls, FailCommands, Poll, FailCall, Claim,
     Finish, CrashWorker, ClaimError, FinishError, Executed, Pc
<1>4. ASSUME NEW w \in Workers,
             \/ WorkerStep(w) \/ CrashWorker(w) \/ \E k \in Keys : ClaimError(w, k)
             \/ \E ok \in BOOLEAN : FinishError(w, ok)
      PROVE  \A v \in Workers : WorkerMove(v)
  BY <1>0, <1>2, <1>3, <1>4 DEF WorkerMove
<1>5. ASSUME NEW a \in Clients, ClientStep(a) \/ CrashClient(a) PROVE UNCHANGED wk
  BY <1>5 DEF ClientStep, SubmitCreate, SubmitCommand, Idempotency, Owner, InsertCall, InsertCommand,
     CrashClient
<1>6. ASSUME NEW r \in Requests, ProxyCommand(r) PROVE UNCHANGED wk
  BY <1>6 DEF ProxyCommand
<1>7. ASSUME NEW k \in Keys, Age(k) \/ EndCall(k) PROVE UNCHANGED wk
  BY <1>7 DEF Age, EndCall
<1> QED BY <1>1, <1>4, <1>5, <1>6, <1>7 DEF Next, FaultStep

LEMMA InitIInv == Init => IInv
<1> SUFFICES ASSUME Init PROVE IInv
  OBVIOUS
<1>1. NoRow \in RowType /\ NoRow.status = "none" /\ NoRow.attempts = 0 /\ NoRow.req = None
  BY BoundsAssumption DEF NoRow, RowType
<1>2. NoRequest \in ClientType /\ NoRequest.pc = "idle" /\ NoRequest.ans = "none"
  BY DEF NoRequest, ClientType
<1>3. TypeOK
  BY <1>1, <1>2, WorkerShapes, BoundsAssumption DEF Init, TypeOK
<1>4. RowsOK /\ CallBeforeCommand
  BY <1>1 DEF Init, RowsOK, CallBeforeCommand, Stored
<1>5. ClientsOK /\ AnsweredStored
  BY <1>2 DEF Init, ClientsOK, AnsweredStored
<1>6. WorkersOK
  BY WorkerShapes DEF Init, WorkersOK
<1> QED BY <1>3, <1>4, <1>5, <1>6 DEF IInv

\* The moves together keep the invariant.
LEMMA MovesIInv ==
    ASSUME IInv, Moves
    PROVE  IInv'
<1>1. cmd' \in [Keys -> RowType] /\ RowsOK'
  BY RowKept DEF Moves, Functions, RowsOK
<1>2. call' \in [Calls -> {"none", "open", "ended"}] /\ \A c \in Calls : call[c] # "none" => call'[c] # "none"
  BY DEF IInv, TypeOK, Moves, Functions, CallMove
<1>3. wk' \in [Workers -> WorkerType] /\ WorkersOK'
  BY DEF Moves, Functions, WorkerMove, WorkersOK
<1>4. CallBeforeCommand'
  <2>1. ASSUME NEW k \in Keys, cmd'[k].status # "none" PROVE call'[cmd'[k].req.call] # "none"
    <3>1. cmd'[k].req \in Requests /\ cmd'[k].req.call \in Calls
      BY <2>1, RowKept, RequestFacts DEF Moves
    <3>2. call[cmd'[k].req.call] # "none"
      BY <2>1, RowKept DEF Moves, IInv, CallBeforeCommand, Stored
    <3> QED BY <1>2, <3>1, <3>2
  <2> QED BY <2>1 DEF CallBeforeCommand, Stored
<1>5. ASSUME NEW a \in Clients
      PROVE  /\ api'[a] \in ClientType
             /\ api'[a].pc # "idle" \/ api'[a].ans # "none" => api'[a].req \in Requests
             /\ api'[a].pc # "idle" => api'[a].ans = "none"
             /\ api'[a].pc \in {"owner", "call"} => api'[a].req.op = "create"
             /\ api'[a].pc = "command" => call'[api'[a].req.call] # "none"
             /\ api'[a].pc = "idem" /\ api'[a].req.op # "create" => call'[api'[a].req.call] # "none"
             /\ api'[a].ans = "202" => cmd'[api'[a].req.key].req = api'[a].req
             /\ api'[a].ans = "200" => /\ cmd'[api'[a].req.key].status # "none"
                                       /\ cmd'[api'[a].req.key].req.body = api'[a].req.body
  <2> DEFINE m == api[a]
             n == api'[a]
  <2>0. /\ m \in ClientType
        /\ m.pc # "idle" \/ m.ans # "none" => m.req \in Requests
        /\ m.pc # "idle" => m.ans = "none"
        /\ m.pc \in {"owner", "call"} => m.req.op = "create"
        /\ m.pc = "command" => call[m.req.call] # "none"
        /\ m.pc = "idem" /\ m.req.op # "create" => call[m.req.call] # "none"
        /\ m.ans = "202" => cmd[m.req.key].req = m.req
        /\ m.ans = "200" => cmd[m.req.key].status # "none" /\ cmd[m.req.key].req.body = m.req.body
    BY DEF IInv, TypeOK, ClientsOK, AnsweredStored, Stored
  <2>1. \A j \in Keys : cmd[j].status # "none" => cmd'[j].status # "none" /\ cmd'[j].req = cmd[j].req
    BY RowKept DEF Moves
  <2>2. m.req \in Requests => m.req.key \in Keys /\ m.req.call \in Calls /\ m.req # None
    BY RequestFacts
  <2>3. CASE n = m
    <3>1. m.ans = "202" => cmd[m.req.key].status # "none"
      <4>1. \A j \in Keys : cmd[j].status = "none" => cmd[j].req = None
        BY DEF IInv, RowsOK
      <4> QED BY <2>0, <2>2, <4>1
    <3> QED BY <1>2, <2>0, <2>1, <2>2, <2>3, <3>1
  <2>4. CASE n = NoRequest
    BY <2>4 DEF NoRequest, ClientType
  <2>5. ASSUME NEW r \in Requests, n = Begun(r), r.op = "create" \/ call[r.call] # "none"
        PROVE  /\ n \in ClientType /\ n.req = r /\ n.ans = "none" /\ n.pc = "idem"
               /\ r.op # "create" => call'[r.call] # "none"
    BY <1>2, <2>5, RequestFacts DEF Begun, ClientType
  <2>6. ASSUME NEW p \in {"owner", "call", "command"}, m.pc # "idle", n = At(m, p),
               p = "command" => call'[m.req.call] # "none"
        PROVE  /\ n \in ClientType /\ n.req = m.req /\ n.ans = "none" /\ n.pc = p
               /\ m.req \in Requests
    BY <2>0, <2>6, ClientFacts
  <2>7. ASSUME m.pc # "idle", n = Answered(m, "202")
        PROVE  n \in ClientType /\ n.req = m.req /\ n.ans = "202" /\ n.pc = "idle" /\ m.req \in Requests
    BY <2>0, <2>7, ClientFacts
  <2>8. ASSUME m.pc # "idle", n = Answered(m, "200")
        PROVE  n \in ClientType /\ n.req = m.req /\ n.ans = "200" /\ n.pc = "idle" /\ m.req \in Requests
    BY <2>0, <2>8, ClientFacts
  <2>9. ClientMove(a)
    BY DEF Moves
  <2> QED BY <2>1, <2>2, <2>3, <2>4, <2>5, <2>6, <2>7, <2>8, <2>9 DEF ClientMove, Stored
<1>6. api' \in [Clients -> ClientType]
  BY <1>5 DEF Moves, Functions
<1>7. ClientsOK' /\ AnsweredStored'
  BY <1>5 DEF ClientsOK, AnsweredStored, Stored
<1>8. TypeOK'
  BY <1>1, <1>2, <1>3, <1>6 DEF TypeOK, Moves, Functions
<1> QED BY <1>1, <1>3, <1>4, <1>7, <1>8 DEF IInv

LEMMA NextIInv == ASSUME IInv, [Next]_vars PROVE IInv'
<1>1. CASE Next
  BY <1>1, RowMoves, CallMoves, ClientMoves, WorkerMoves, FunctionsKept, MovesIInv DEF Moves
<1>2. CASE UNCHANGED vars
  BY <1>2 DEF vars, IInv, TypeOK, RowsOK, ClientsOK, WorkersOK, AnsweredStored, CallBeforeCommand, Stored
<1> QED BY <1>1, <1>2

\* The invariant holds in every reachable state.
THEOREM IInvAlways == Spec => []IInv
<1>1. IInv /\ [Next]_vars => IInv'
  BY NextIInv
<1> QED BY <1>1, InitIInv, PTL DEF Spec

\* Tables, handlers and workers are well formed, and no command is attempted
\* more often than SIP_MAF_COMMAND_MAX_ATTEMPTS: a claim is taken from an
\* accepted row only, and recovery accepts none again that is at the limit.
THEOREM TypeCorrect == Spec => []TypeOK
<1>1. IInv => TypeOK
  BY DEF IInv
<1> QED BY <1>1, IInvAlways, PTL

\* What the API answered 202 or 200 for is stored, for good.
THEOREM AnswersKept == Spec => []AnsweredStored
<1>1. IInv => AnsweredStored
  BY DEF IInv
<1> QED BY <1>1, IInvAlways, PTL

\* A stored command has its call, although the two INSERTs of
\* maf_api_create_call are separate statements.
THEOREM CallBeforeCommandAlways == Spec => []CallBeforeCommand
<1>1. IInv => CallBeforeCommand
  BY DEF IInv
<1> QED BY <1>1, IInvAlways, PTL

\* A result is written once (maf_worker_command_state and
\* maf_worker_recover_stale_commands only touch rows in processing).
THEOREM SettledStays == Spec => SettledForGood
<1>1. ASSUME IInv, [Next]_vars, NEW k \in Keys, cmd[k].status \in {"completed", "failed"}
      PROVE  cmd'[k] = cmd[k]
  <2>1. CASE Next
    <3>1. RowMove(k)
      BY <1>1, <2>1, RowMoves
    <3> QED BY <1>1, <3>1 DEF RowMove, Holds, Retryable, Exhausted, Stale
  <2>2. CASE UNCHANGED vars
    BY <2>2 DEF vars
  <2> QED BY <1>1, <2>1, <2>2
<1>2. IInv /\ [Next]_vars =>
        [\A k \in Keys : cmd[k].status \in {"completed", "failed"} => cmd'[k] = cmd[k]]_vars
  BY <1>1
<1> QED BY <1>2, IInvAlways, PTL DEF Spec, SettledForGood

\* While a worker executes what it claimed in time, the row is its own.
THEOREM HolderNeverDisturbed == Spec => HolderUndisturbed
<1>1. ASSUME IInv, [Next]_vars, NEW w \in Workers, NEW k \in Keys,
             Holds(w, k), ~ cmd[k].old, wk'[w] = wk[w]
      PROVE  cmd'[k] \in {cmd[k], Aged(cmd[k])}
  <2>1. CASE Next
    <3>1. RowMove(k)
      BY <1>1, <2>1, RowMoves
    <3>2. cmd[k].status = "processing" /\ cmd[k].claim = w
      BY <1>1 DEF Holds
    <3>3. \A v \in Workers : Holds(v, k) => v = w
      BY <3>2 DEF Holds
    <3> QED BY <1>1, <3>1, <3>2, <3>3 DEF RowMove, Retryable, Exhausted, Stale
  <2>2. CASE UNCHANGED vars
    BY <2>2 DEF vars
  <2> QED BY <1>1, <2>1, <2>2
<1>2. IInv /\ [Next]_vars =>
        [\A w \in Workers, k \in Keys : Holds(w, k) /\ ~ cmd[k].old /\ wk'[w] = wk[w] =>
           cmd'[k] \in {cmd[k], Aged(cmd[k])}]_vars
  BY <1>1
<1> QED BY <1>2, IInvAlways, PTL DEF Spec, HolderUndisturbed

\* Handlers that found room for a call they have not stored yet.
InFlight == {a \in Clients : api[a].pc \in {"idem", "owner", "call"} /\ api[a].req.op = "create"}

\* Calls and calls to come: each handler adds at most one to those it counted.
Room == Limit > 0 => Cardinality(Open) + Cardinality(InFlight) < Limit + Cardinality(Clients)

LEMMA SmallSets ==
    /\ IsFiniteSet(Open) /\ IsFiniteSet(InFlight)
    /\ Cardinality(Open) \in Nat /\ Cardinality(InFlight) \in Nat
    /\ Cardinality(Clients) \in Nat /\ Cardinality(InFlight) <= Cardinality(Clients)
<1>1. Open \subseteq Calls /\ InFlight \subseteq Clients
  BY DEF Open, InFlight
<1>2. IsFiniteSet(Calls) /\ IsFiniteSet(Clients)
  BY SetsAssumption
<1>3. /\ IsFiniteSet(Open) /\ IsFiniteSet(InFlight)
      /\ Cardinality(InFlight) <= Cardinality(Clients)
  BY <1>1, <1>2, FS_Subset
<1> QED BY <1>2, <1>3, FS_CardinalityType

\* The three ways a step can change the number of calls, open and to come.
LEMMA RoomMoves ==
    ASSUME IInv, Next
    PROVE  \/ Open' \subseteq Open /\ InFlight' \subseteq InFlight
           \/ Open' = Open /\ CapacityAvailable
           \/ \E a \in InFlight, c \in Calls :
                 InFlight' \subseteq InFlight \ {a} /\ Open' \subseteq Open \cup {c}
<1>0. /\ api \in [Clients -> ClientType] /\ call \in [Calls -> {"none", "open", "ended"}]
      /\ \A a \in Clients : api[a].pc # "idle" => api[a].req \in Requests
      /\ \A a \in Clients : api[a].pc = "call" => api[a].req.op = "create"
  BY DEF IInv, TypeOK, ClientsOK
<1>1. ASSUME UNCHANGED api PROVE InFlight' = InFlight
  BY <1>1 DEF InFlight
<1>2. ASSUME UNCHANGED call PROVE Open' = Open
  BY <1>2 DEF Open
<1>3. ASSUME NEW a \in Clients, api' = [api EXCEPT ![a] = NoRequest] PROVE InFlight' \subseteq InFlight
  BY <1>0, <1>3 DEF InFlight, NoRequest
<1>4. ASSUME NEW a \in Clients, NEW ans \in {"200", "202"}, Answer(a, ans) PROVE InFlight' \subseteq InFlight
  BY <1>0, <1>4, ClientFacts DEF InFlight, Answer
<1>5. ASSUME NEW a \in Clients, api[a].pc \in {"idem", "owner"},
             NEW p \in {"owner", "call", "command"}, Goto(a, p)
      PROVE  InFlight' \subseteq InFlight
  BY <1>0, <1>5, ClientFacts DEF InFlight, Goto
<1>6. ASSUME NEW a \in Clients, NEW r \in Requests, SubmitCommand(a, r) PROVE InFlight' \subseteq InFlight
  BY <1>0, <1>3, <1>6 DEF SubmitCommand, InFlight, Begun, NoRequest
<1>7. ASSUME NEW a \in Clients, InsertCall(a)
      PROVE  \E b \in InFlight, c \in Calls :
                InFlight' \subseteq InFlight \ {b} /\ Open' \subseteq Open \cup {c}
  <2>1. a \in InFlight /\ api[a].req.call \in Calls
    BY <1>0, <1>7, RequestFacts DEF InsertCall, InFlight
  <2>2. InFlight' \subseteq InFlight \ {a}
    BY <1>0, <1>7, ClientFacts DEF InsertCall, Goto, InFlight
  <2>3. Open' \subseteq Open \cup {api[a].req.call}
    BY <1>0, <1>7 DEF InsertCall, Open
  <2> QED BY <2>1, <2>2, <2>3
<1>8. ASSUME NEW a \in Clients, NEW r \in Requests, SubmitCreate(a, r)
      PROVE  CapacityAvailable \/ InFlight' \subseteq InFlight
  BY <1>3, <1>8 DEF SubmitCreate
<1>9. ASSUME NEW a \in Clients, Idempotency(a) \/ Owner(a) \/ InsertCommand(a) \/ CrashClient(a)
      PROVE  InFlight' \subseteq InFlight
  BY <1>3, <1>4, <1>5, <1>9 DEF Idempotency, Owner, InsertCommand, CrashClient, Refuse
<1>10. ASSUME NEW a \in Clients, ClientStep(a) \/ CrashClient(a), ~ InsertCall(a) PROVE Open' = Open
  BY <1>2, <1>10 DEF ClientStep, SubmitCreate, SubmitCommand, Idempotency, Owner, InsertCommand, CrashClient
<1>11. ASSUME NEW w \in Workers, WorkerStep(w) PROVE Open' \subseteq Open /\ UNCHANGED api
  <2>1. UNCHANGED api
    BY <1>11 DEF WorkerStep, BeginRecover, Requeue, FailCalls, FailCommands, Poll, FailCall, Claim, Finish
  <2>2. \A c \in Calls : call'[c] \in {call[c], "ended"}
    BY <1>0, <1>11 DEF WorkerStep, BeginRecover, Requeue, FailCalls, FailCommands, Poll, FailCall,
       Claim, Finish
  <2> QED BY <2>1, <2>2 DEF Open
<1>12. ASSUME NEW k \in Keys, Age(k) \/ EndCall(k) PROVE Open' \subseteq Open /\ UNCHANGED api
  BY <1>0, <1>12 DEF Age, EndCall, Open
<1>13. ASSUME NEW r \in Requests, ProxyCommand(r) PROVE UNCHANGED <<call, api>>
  BY <1>13 DEF ProxyCommand
<1>14. ASSUME FaultStep PROVE UNCHANGED <<call, api>> \/ \E a \in Clients : CrashClient(a)
  BY <1>14 DEF FaultStep, CrashWorker, ClaimError, FinishError
<1>15. ASSUME NEW a \in Clients, ClientStep(a)
       PROVE  \/ Open' \subseteq Open /\ InFlight' \subseteq InFlight
              \/ Open' = Open /\ CapacityAvailable
              \/ \E b \in InFlight, c \in Calls :
                    InFlight' \subseteq InFlight \ {b} /\ Open' \subseteq Open \cup {c}
  BY <1>6, <1>7, <1>8, <1>9, <1>10, <1>15 DEF ClientStep
<1>16. ASSUME NEW a \in Clients, CrashClient(a) PROVE Open' \subseteq Open /\ InFlight' \subseteq InFlight
  <2>1. UNCHANGED call
    BY <1>16 DEF CrashClient
  <2> QED BY <1>2, <1>9, <1>16, <2>1
<1> QED BY <1>1, <1>2, <1>11, <1>12, <1>13, <1>14, <1>15, <1>16 DEF Next

LEMMA RoomKept == ASSUME IInv, Room, [Next]_vars PROVE Room'
<1> SUFFICES ASSUME Limit > 0
             PROVE  Cardinality(Open') + Cardinality(InFlight') < Limit + Cardinality(Clients)
  BY DEF Room
<1>0. Limit \in Nat
  BY BoundsAssumption
<1>1. /\ Cardinality(Open) + Cardinality(InFlight) < Limit + Cardinality(Clients)
      /\ IsFiniteSet(Open) /\ IsFiniteSet(InFlight)
      /\ Cardinality(Open) \in Nat /\ Cardinality(InFlight) \in Nat /\ Cardinality(Clients) \in Nat
  BY SmallSets DEF Room
<1>2. /\ InFlight' \subseteq Clients /\ IsFiniteSet(Clients)
      /\ Open' \subseteq Calls /\ IsFiniteSet(Calls)
  BY SetsAssumption DEF InFlight, Open
<1>3. /\ Cardinality(InFlight') <= Cardinality(Clients)
      /\ IsFiniteSet(InFlight') /\ IsFiniteSet(Open')
  BY <1>2, FS_Subset
<1>4. Cardinality(InFlight') \in Nat /\ Cardinality(Open') \in Nat
  BY <1>3, FS_CardinalityType
<1>5. CASE Open' \subseteq Open /\ InFlight' \subseteq InFlight
  <2>1. Cardinality(Open') <= Cardinality(Open) /\ Cardinality(InFlight') <= Cardinality(InFlight)
    BY <1>1, <1>5, FS_Subset
  <2> QED BY <1>0, <1>1, <1>4, <2>1
<1>6. CASE Open' = Open /\ CapacityAvailable
  <2>1. Cardinality(Open') < Limit
    BY <1>0, <1>6 DEF CapacityAvailable
  <2> QED BY <1>0, <1>1, <1>3, <1>4, <2>1
<1>7. ASSUME NEW a \in InFlight, NEW c \in Calls,
             InFlight' \subseteq InFlight \ {a}, Open' \subseteq Open \cup {c}
      PROVE  Cardinality(Open') + Cardinality(InFlight') < Limit + Cardinality(Clients)
  <2>1. IsFiniteSet(InFlight \ {a}) /\ Cardinality(InFlight \ {a}) = Cardinality(InFlight) - 1
    BY <1>1, FS_RemoveElement
  <2>2. /\ IsFiniteSet(Open \cup {c}) /\ Cardinality(Open \cup {c}) \in Nat
        /\ Cardinality(Open \cup {c}) <= Cardinality(Open) + 1
    <3>1. CASE c \in Open
      <4>1. Open \cup {c} = Open
        BY <3>1
      <4>2. Cardinality(Open) <= Cardinality(Open) + 1
        BY <1>1
      <4>3. /\ IsFiniteSet(Open \cup {c}) /\ Cardinality(Open \cup {c}) \in Nat
            /\ Cardinality(Open \cup {c}) = Cardinality(Open)
        BY <1>1, <4>1, Zenon
      <4> QED BY <4>2, <4>3
    <3>2. CASE c \notin Open
      BY <1>1, <3>2, FS_AddElement
    <3> QED BY <3>1, <3>2
  <2>3. Cardinality(InFlight') <= Cardinality(InFlight) - 1
    BY <1>7, <2>1, FS_Subset
  <2>4. Cardinality(Open') <= Cardinality(Open \cup {c})
    BY <1>7, <2>2, FS_Subset
  <2> QED BY <1>0, <1>1, <1>4, <2>2, <2>3, <2>4
<1>8. CASE UNCHANGED vars
  <2>1. Open' = Open /\ InFlight' = InFlight
    BY <1>8 DEF vars, Open, InFlight
  <2> QED BY <1>1, <2>1
<1> QED BY <1>5, <1>6, <1>7, <1>8, RoomMoves

\* SIP_MAF_MAX_ACTIVE_CALLS is exceeded by less than one call per handler,
\* although handlers read the number of calls long before they add theirs.
THEOREM OvershootAlwaysBounded == Spec => []OvershootBounded
<1>1. Init => Room
  <2> SUFFICES ASSUME Init, Limit > 0
               PROVE  Cardinality(Open) + Cardinality(InFlight) < Limit + Cardinality(Clients)
    BY DEF Room
  <2>1. Open = {} /\ InFlight = {}
    BY DEF Init, Open, InFlight, NoRequest
  <2> QED BY <2>1, SmallSets, FS_EmptySet, BoundsAssumption
<1>2. IInv /\ Room /\ [Next]_vars => Room'
  BY RoomKept
<1>3. Room => OvershootBounded
  BY SmallSets, BoundsAssumption DEF Room, OvershootBounded
<1> QED BY <1>1, <1>2, <1>3, IInvAlways, PTL DEF Spec

---------------------------------------------------------------------------
(* How often commands are executed *)

\* What a step can do to the list of the worker w: take from it, or fill it with
\* accepted commands; and which execution it begins.
ListMove(w) ==
    /\ \/ wk'[w].todo \subseteq wk[w].todo
       \/ UNCHANGED cmd /\ \A k \in wk'[w].todo : cmd[k].status = "accepted"
    /\ \A k \in Keys : Begins(w, k) =>
          /\ k \in wk[w].todo /\ k \notin wk'[w].todo
          /\ cmd[k].status = "accepted" => cmd'[k] = Claimed(cmd[k], w)

\* What each action does to the lists of the workers.
LEMMA ListMoves ==
    ASSUME IInv, Next
    PROVE  \A w \in Workers : ListMove(w)
<1>0. /\ wk \in [Workers -> WorkerType] /\ cmd \in [Keys -> RowType]
      /\ \A w \in Workers : wk[w] \in WorkerType /\ wk[w].todo \in SUBSET Keys
  BY DEF IInv, TypeOK, WorkerType
<1> DEFINE Own(w) == \/ WorkerStep(w) \/ CrashWorker(w) \/ \E k \in Keys : ClaimError(w, k)
                     \/ \E ok \in BOOLEAN : FinishError(w, ok)
<1>1. ASSUME NEW w \in Workers, wk'[w] = wk[w] PROVE ListMove(w)
  BY <1>1 DEF ListMove, Begins
<1>2. ASSUME NEW w \in Workers, NEW p, p # "exec", wk'[w] = At(wk[w], p) PROVE ListMove(w)
  <2>1. At(wk[w], p).pc = p /\ At(wk[w], p).todo = wk[w].todo
    BY <1>0 DEF At, WorkerType
  <2> QED BY <1>2, <2>1 DEF ListMove, Begins
<1>3. ASSUME NEW w \in Workers, NEW S \in SUBSET wk[w].todo, wk'[w] = After(S) PROVE ListMove(w)
  <2>1. After(S).pc # "exec" /\ After(S).todo = S
    BY DEF After
  <2> QED BY <1>3, <2>1 DEF ListMove, Begins
<1>4. ASSUME NEW w \in Workers, Own(w) PROVE ListMove(w)
  <2>1. CASE BeginRecover(w)
    <3>1. /\ wk'[w].pc \in {"requeue", "failcalls"} /\ wk'[w].todo = {}
      BY <1>0, <2>1 DEF BeginRecover, Recovering
    <3> QED BY <3>1 DEF ListMove, Begins
  <2>2. CASE Requeue(w) \/ FailCalls(w) \/ FailCommands(w)
    <3>1. wk'[w] \in {At(wk[w], "failcalls"), At(wk[w], "select"), At(wk[w], "failcommands")}
      BY <1>0, <2>2 DEF Requeue, FailCalls, FailCommands, Pc
    <3> QED BY <1>2, <3>1
  <2>3. CASE Poll(w)
    <3>1. PICK S \in SUBSET Accepted : wk'[w] = After(S)
      BY <1>0, <2>3 DEF Poll
    <3>2. After(S).pc # "exec" /\ After(S).todo = S
      BY DEF After
    <3>3. UNCHANGED cmd /\ \A k \in S : cmd[k].status = "accepted"
      BY <2>3 DEF Poll, Accepted
    <3> QED BY <3>1, <3>2, <3>3 DEF ListMove, Begins
  <2>4. CASE FailCall(w)
    <3>1. wk'[w] = After(wk[w].todo)
      BY <1>0, <2>4 DEF FailCall
    <3> QED BY <1>3, <3>1
  <2>5. ASSUME NEW k \in Keys, Claim(w, k) PROVE ListMove(w)
    <3>1. wk'[w] = Executing(wk[w], k) /\ k \in wk[w].todo
      BY <1>0, <2>5 DEF Claim
    <3>2. wk'[w].key = k /\ wk'[w].todo = wk[w].todo \ {k}
      BY <1>0, <3>1 DEF Executing, WorkerType
    <3>3. cmd[k].status = "accepted" => cmd'[k] = Claimed(cmd[k], w)
      BY <1>0, <2>5 DEF Claim
    <3> QED BY <3>1, <3>2, <3>3 DEF ListMove, Begins
  <2>6. ASSUME NEW ok \in BOOLEAN, Executed(w, ok) PROVE ListMove(w)
    <3>1. wk'[w] \in {At(wk[w], "failcall"), After(wk[w].todo)}
      BY <1>0, <2>6 DEF Executed, Pc
    <3> QED BY <1>2, <1>3, <3>1
  <2>7. CASE CrashWorker(w)
    <3>1. wk'[w].pc = "idle" /\ wk'[w].todo = {}
      BY <1>0, <2>7 DEF CrashWorker, Idle
    <3> QED BY <3>1 DEF ListMove, Begins
  <2>8. ASSUME NEW k \in Keys, ClaimError(w, k) PROVE ListMove(w)
    <3>1. wk'[w] = After(wk[w].todo \ {k})
      BY <1>0, <2>8 DEF ClaimError
    <3> QED BY <1>3, <3>1
  <2> QED BY <1>4, <2>1, <2>2, <2>3, <2>4, <2>5, <2>6, <2>7, <2>8 DEF WorkerStep, Finish, FinishError
<1>5. ASSUME NEW w \in Workers, Own(w) PROVE \A v \in Workers : v # w => wk'[v] = wk[v]
  BY <1>0, <1>5 DEF WorkerStep, BeginRecover, Requeue, FailCalls, FailCommands, Poll, FailCall, Claim,
     Finish, CrashWorker, ClaimError, FinishError, Executed, Pc
<1>6. UNCHANGED wk \/ \E w \in Workers : Own(w)
  BY DEF Next, FaultStep, ClientStep, SubmitCreate, SubmitCommand, Idempotency, Owner, InsertCall,
     InsertCommand, CrashClient, ProxyCommand, Age, EndCall
<1> QED BY <1>1, <1>4, <1>5, <1>6

\* The executions of a worker are counted by claims; in a row that is no longer
\* accepted, the last claim is one that a worker with the command still on its
\* list has not used.
ExecInv ==
    /\ execs \in [Workers -> [Keys -> Nat]]
    /\ \A w \in Workers, k \in Keys :
          /\ execs[w][k] <= cmd[k].attempts
          /\ k \in wk[w].todo /\ cmd[k].status # "accepted" => execs[w][k] < cmd[k].attempts

\* A move never takes back an attempt, and a row leaves accepted by a claim only.
LEMMA AttemptsMove ==
    ASSUME IInv, NEW k \in Keys, RowMove(k)
    PROVE  /\ cmd[k].attempts \in Nat /\ cmd'[k].attempts \in Nat
           /\ cmd[k].attempts <= cmd'[k].attempts
           /\ cmd[k].status = "accepted" /\ cmd'[k].status # "accepted" =>
                 cmd[k].attempts < cmd'[k].attempts
<1>1. cmd[k] \in RowType /\ cmd[k].attempts \in Nat
  BY BoundsAssumption DEF IInv, TypeOK, RowType
<1>2. CASE cmd'[k] = cmd[k]
  BY <1>1, <1>2
<1>3. ASSUME NEW r \in Requests, cmd[k].status = "none", cmd'[k] = NewRow(r)
      PROVE  cmd'[k].attempts = 0 /\ cmd[k].attempts = 0
  BY <1>3, NewRowFacts DEF IInv, RowsOK
<1>4. ASSUME NEW w \in Workers, cmd'[k] = Claimed(cmd[k], w)
      PROVE  cmd'[k].attempts = cmd[k].attempts + 1
  BY <1>1, <1>4 DEF Claimed, RowType
<1>5. ASSUME NEW s, cmd'[k] = Result(cmd[k], s) PROVE cmd'[k].attempts = cmd[k].attempts
  BY <1>1, <1>5 DEF Result, RowType
<1>6. ASSUME cmd'[k] = Requeued(cmd[k]) \/ cmd'[k] = GivenUp(cmd[k]) \/ cmd'[k] = Aged(cmd[k])
      PROVE  cmd'[k].attempts = cmd[k].attempts
  BY <1>1, <1>6 DEF Requeued, GivenUp, Aged, RowType
<1> QED BY <1>1, <1>2, <1>3, <1>4, <1>5, <1>6 DEF RowMove, Holds, Retryable, Exhausted, Stale

LEMMA ExecKept ==
    ASSUME IInv, ExecInv, [ExecNext]_execVars
    PROVE  ExecInv'
<1>1. CASE ExecNext
  <2>1. (\A k \in Keys : RowMove(k)) /\ (\A w \in Workers : ListMove(w))
    BY <1>1, RowMoves, ListMoves DEF ExecNext
  <2>2. \A w \in Workers, k \in Keys :
           execs'[w][k] = IF Begins(w, k) THEN execs[w][k] + 1 ELSE execs[w][k]
    BY <1>1 DEF ExecNext, Counted
  <2>3. execs' \in [Workers -> [Keys -> Nat]]
    BY <1>1 DEF ExecNext, Counted, ExecInv
  <2>4. ASSUME NEW w \in Workers, NEW k \in Keys
        PROVE  /\ execs'[w][k] <= cmd'[k].attempts
               /\ k \in wk'[w].todo /\ cmd'[k].status # "accepted" => execs'[w][k] < cmd'[k].attempts
    <3>1. /\ execs[w][k] \in Nat /\ execs[w][k] <= cmd[k].attempts
          /\ k \in wk[w].todo /\ cmd[k].status # "accepted" => execs[w][k] < cmd[k].attempts
      BY DEF ExecInv
    <3>2. /\ cmd[k].attempts \in Nat /\ cmd'[k].attempts \in Nat
          /\ cmd[k].attempts <= cmd'[k].attempts
          /\ cmd[k].status = "accepted" /\ cmd'[k].status # "accepted" =>
                cmd[k].attempts < cmd'[k].attempts
      BY <2>1, AttemptsMove
    <3>3. CASE Begins(w, k)
      <4>1. /\ k \in wk[w].todo /\ k \notin wk'[w].todo
            /\ cmd[k].status = "accepted" => cmd'[k] = Claimed(cmd[k], w)
        BY <2>1, <3>3 DEF ListMove
      <4>2. cmd[k].status = "accepted" => cmd'[k].status # "accepted"
        BY <4>1, RowFacts DEF IInv, TypeOK
      <4> QED BY <2>2, <3>1, <3>2, <3>3, <4>1, <4>2
    <3>4. CASE ~ Begins(w, k)
      <4>1. execs'[w][k] = execs[w][k]
        BY <2>2, <3>4
      <4>2. k \in wk'[w].todo => k \in wk[w].todo \/ cmd'[k].status = "accepted"
        BY <2>1 DEF ListMove
      <4> QED BY <3>1, <3>2, <4>1, <4>2
    <3> QED BY <3>3, <3>4
  <2> QED BY <2>3, <2>4 DEF ExecInv
<1>2. CASE UNCHANGED execVars
  BY <1>2 DEF execVars, vars, ExecInv
<1> QED BY <1>1, <1>2

\* No worker executes a command more often than it was claimed, which is at most
\* SIP_MAF_COMMAND_MAX_ATTEMPTS times, for any workers, lists, crashes and
\* failing statements, although workers that lost a claim execute the command too.
THEOREM ExecutionsAlwaysBounded == ExecSpec => []ExecutionsBounded
<1>1. ExecInit => IInv /\ ExecInv
  <2> SUFFICES ASSUME ExecInit PROVE IInv /\ ExecInv
    OBVIOUS
  <2>1. \A k \in Keys : cmd[k].attempts = 0
    BY DEF ExecInit, Init, NoRow
  <2>2. \A w \in Workers : wk[w].todo = {}
    BY DEF ExecInit, Init, Idle
  <2> QED BY <2>1, <2>2, InitIInv DEF ExecInit, ExecInv
<1>2. IInv /\ ExecInv /\ [ExecNext]_execVars => IInv' /\ ExecInv'
  <2>1. [ExecNext]_execVars => [Next]_vars
    BY DEF ExecNext, execVars
  <2> QED BY <2>1, NextIInv, ExecKept
<1>3. IInv /\ ExecInv => ExecutionsBounded
  <2> SUFFICES ASSUME IInv, ExecInv, NEW w \in Workers, NEW k \in Keys
               PROVE  execs[w][k] <= cmd[k].attempts /\ cmd[k].attempts <= MaxAttempts
    BY DEF ExecutionsBounded
  <2>1. cmd[k].attempts \in 0 .. MaxAttempts
    BY DEF IInv, TypeOK, RowType
  <2> QED BY <2>1, BoundsAssumption DEF ExecInv
<1> QED BY <1>1, <1>2, <1>3, PTL DEF ExecSpec

---------------------------------------------------------------------------
(* Operations over a failing network *)

\* Every attempt is a request on its way, one that was taken, or neither.  A key
\* of the application is the same in all of them, so the server knows it before
\* it stores the command a second time.
ClientInv ==
    /\ attempts \in Nat /\ taken \in Nat /\ given \in BOOLEAN
    /\ IsFiniteSet(wire)
    /\ \A m \in wire : m.n \in 1 .. attempts
    /\ taken + Cardinality(wire) <= attempts
    /\ given => \A m \in wire : m.key = 0
    /\ given /\ op \in Commands => taken <= 1 /\ (0 \in known \/ taken = 0)
    /\ program # "click_to_call" => click = "create"
    /\ program = "click_to_call" => attempts <= MAX_RETRIES

LEMMA AttemptClient ==
  ASSUME ClientInv, Attempt, UNCHANGED <<click, program>>,
         program = "click_to_call" => attempts < MAX_RETRIES
  PROVE  ClientInv'
<1> DEFINE m0 == [n |-> attempts + 1, key |-> Key(attempts + 1)]
<1>1. m0.n = attempts + 1 /\ m0.key = Key(attempts + 1)
  OBVIOUS
<1>2. attempts' = attempts + 1 /\ wire' = wire \cup {m0} /\ UNCHANGED <<op, given, known, taken>>
  BY DEF Attempt
<1> HIDE DEF m0
<1>3. m0 \notin wire
  BY <1>1 DEF ClientInv
<1>4. IsFiniteSet(wire') /\ Cardinality(wire') = Cardinality(wire) + 1 /\ Cardinality(wire) \in Nat
  BY <1>2, <1>3, FS_AddElement, FS_CardinalityType DEF ClientInv
<1>5. \A m \in wire' : m.n \in 1 .. attempts'
  BY <1>1, <1>2 DEF ClientInv
<1>6. given => \A m \in wire' : m.key = 0
  BY <1>1, <1>2 DEF ClientInv, Key
<1>7. attempts' \in Nat /\ taken' + Cardinality(wire') <= attempts'
  BY <1>2, <1>4 DEF ClientInv
<1>8. program' = "click_to_call" => attempts' <= MAX_RETRIES
  BY <1>2, ClientAssumption DEF ClientInv
<1> QED BY <1>2, <1>4, <1>5, <1>6, <1>7, <1>8 DEF ClientInv

\* a request leaves the network
LEMMA TakenClient ==
  ASSUME ClientInv, NEW m \in wire, wire' = wire \ {m},
         UNCHANGED <<op, given, attempts, click, program>>,
         \/ UNCHANGED <<taken, known>>
         \/ Serve(m)
  PROVE  ClientInv'
<1>1. /\ IsFiniteSet(wire') /\ Cardinality(wire') = Cardinality(wire) - 1
      /\ Cardinality(wire) \in Nat
  BY FS_RemoveElement, FS_CardinalityType DEF ClientInv
<1>2. CASE UNCHANGED <<taken, known>>
  BY <1>1, <1>2 DEF ClientInv
<1>3. CASE Serve(m)
  <2>1. taken' \in {taken, taken + 1}
    BY <1>3 DEF Serve
  <2>2. taken' + Cardinality(wire') <= attempts'
    BY <1>1, <2>1 DEF ClientInv
  <2>3. ASSUME given, op \in Commands PROVE taken' <= 1 /\ 0 \in known'
    <3>1. m.key = 0 /\ known' = known \cup {0}
      BY <1>3, <2>3 DEF ClientInv, Serve
    <3>2. CASE 0 \in known
      BY <1>3, <2>3, <3>1, <3>2 DEF ClientInv, Serve, Takes, Repeated
    <3>3. CASE 0 \notin known
      BY <2>1, <2>3, <3>1, <3>3 DEF ClientInv
    <3> QED BY <3>1, <3>2, <3>3
  <2> QED BY <1>1, <2>1, <2>2, <2>3 DEF ClientInv
<1> QED BY <1>2, <1>3

LEMMA RequestClient ==
  ASSUME ClientInv, Request, UNCHANGED program
  PROVE  ClientInv'
<1>1. CASE NoAnswer
  BY <1>1 DEF NoAnswer, ClientInv
<1>2. ASSUME NEW m \in wire, Unreachable(m) \/ RefuseRequest(m) PROVE ClientInv'
  BY <1>2, TakenClient DEF Unreachable, RefuseRequest
<1>3. ASSUME NEW m \in wire, Serve(m) PROVE ClientInv'
  <2>1. wire' = wire \ {m} /\ UNCHANGED <<op, given, attempts, click, program>>
    BY <1>3 DEF Serve
  <2> QED BY <1>3, <2>1, TakenClient
<1> QED BY <1>1, <1>2, <1>3 DEF Request

LEMMA ClientNext ==
  ASSUME ClientInv, [SdkNext]_sdkVars
  PROVE  ClientInv'
<1>1. ASSUME UNCHANGED <<clientVars, program>> PROVE ClientInv'
  BY <1>1 DEF ClientInv, clientVars
<1>2. CASE Operations /\ UNCHANGED program
  <2>1. CASE Perform
    BY <1>2, <2>1, AttemptClient DEF Operations, Perform
  <2>2. CASE Request
    BY <1>2, <2>2, RequestClient
  <2> QED BY <1>2, <2>1, <2>2 DEF Operations
<1>3. CASE ClickToCall /\ UNCHANGED program
  <2>1. CASE ClickCreate
    BY <1>3, <2>1, AttemptClient DEF ClickToCall, ClickCreate, MayRetry
  <2>2. CASE ClickCreated \/ ClickPoll
    <3>1. UNCHANGED <<op, given, attempts, wire, known, taken>>
      BY <2>2 DEF ClickCreated, ClickPoll
    <3>2. program = "click_to_call" /\ UNCHANGED program
      BY <1>3 DEF ClickToCall
    <3> QED BY <3>1, <3>2 DEF ClientInv
  <2>3. CASE Request
    BY <1>3, <2>3, RequestClient
  <2> QED BY <1>3, <2>1, <2>2, <2>3 DEF ClickToCall
<1> QED
  BY <1>1, <1>2, <1>3
  DEF SdkNext, sdkVars, Subscriber, Following, Committed, Polled, Yielded,
      AdvancedOn, Resumed, Publisher, BillerCrash, BillerStep

\* The server (maf_api_create_call and the operations without a key) stores a
\* command of the application at most once for its key, and never takes one more
\* often than it was attempted, for any operations, attempts and retries;
\* click_to_call leaves at most MAX_RETRIES commands.
THEOREM TakenOnceAlways == SdkSpec => []TakenOnce
<1>1. SdkInit => ClientInv
  BY FS_EmptySet, ClientAssumption DEF SdkInit, ClientInit, ClientInv
<1>2. ClientInv => TakenOnce
  BY FS_CardinalityType, ClientAssumption DEF ClientInv, TakenOnce
<1> QED BY <1>1, <1>2, ClientNext, PTL DEF SdkSpec
---------------------------------------------------------------------------
(* Pages of events *)

\* Sets of sequences are finite sets of numbers.
LEMMA SequencesFinite ==
  ASSUME NEW S \in SUBSET SequenceNumbers
  PROVE  S \subseteq Nat /\ IsFiniteSet(S)
<1>1. MaxEvents \in Nat
  BY EventsAssumption
<1>2. IsFiniteSet(1 .. MaxEvents)
  BY <1>1, FS_Interval
<1>3. IsFiniteSet(SequenceNumbers)
  BY <1>2 DEF SequenceNumbers
<1>4. IsFiniteSet(S)
  BY <1>3, FS_Subset
<1> QED BY <1>1, <1>4 DEF SequenceNumbers

\* They have a largest element, the next_cursor of a page.
LEMMA LargestOf ==
  ASSUME NEW S \in SUBSET SequenceNumbers, S # {}
  PROVE  Max(S) \in S /\ \A q \in S : q <= Max(S)
<1> DEFINE R == {ss \in Nat \X Nat : ss[1] < ss[2]}
           T == {MaxEvents - s : s \in S}
<1>1. S \subseteq Nat /\ (\A s \in S : s <= MaxEvents) /\ MaxEvents \in Nat
  BY EventsAssumption DEF SequenceNumbers
<1>2. T \subseteq Nat /\ T # {}
  <2>1. \A s \in S : MaxEvents - s \in Nat
    BY <1>1
  <2> QED BY <2>1
<1>3. IsWellFoundedOn(R, Nat)
  BY NatLessThanWellFounded, Zenon DEF OpToRel
<1>4. \A i, j \in Nat : j < i => <<j, i>> \in R
  OBVIOUS
<1>5. \E x \in T : \A y \in T : ~ (<<y, x>> \in R)
  <2> HIDE DEF R, T
  <2> QED BY <1>2, <1>3, WFMin
<1> HIDE DEF R
<1>6. PICK s \in S : \A y \in T : ~ (<<y, MaxEvents - s>> \in R)
  BY <1>5
<1>7. \A q \in S : s >= q
  <2> SUFFICES ASSUME NEW q \in S PROVE s >= q
    OBVIOUS
  <2>1. ~ (<<MaxEvents - q, MaxEvents - s>> \in R)
    BY <1>6
  <2> QED BY <1>1, <1>4, <2>1
<1> QED
  <2>1. \E x \in S : \A y \in S : x >= y
    BY <1>7
  <2>2. Max(S) \in S /\ \A y \in S : Max(S) >= y
    BY <2>1, Zenon DEF Max
  <2> QED BY <1>1, <2>2

LEMMA LargestOfThree ==
  ASSUME NEW a \in Nat, NEW b \in Nat, NEW c \in Nat
  PROVE  Max({a, b, c}) \in {a, b, c} /\ \A y \in {a, b, c} : y <= Max({a, b, c})
<1> DEFINE S == {a, b, c}
<1>1. \E x \in S : \A y \in S : x >= y
  <2>1. CASE a >= b /\ a >= c
    BY <2>1
  <2>2. CASE b >= a /\ b >= c
    BY <2>2
  <2>3. CASE c >= a /\ c >= b
    BY <2>3
  <2> QED BY <2>1, <2>2, <2>3
<1>2. Max(S) \in S /\ \A y \in S : Max(S) >= y
  <2> HIDE DEF S
  <2> QED BY <1>1, Zenon DEF Max
<1> QED BY <1>2

\* the largest of the three positions of the follower
LEMMA HorizonIs ==
  ASSUME cur \in Nat, pageNext \in Nat, last \in Nat
  PROVE  /\ Horizon \in {cur, pageNext, last}
         /\ cur <= Horizon /\ pageNext <= Horizon /\ last <= Horizon
BY LargestOfThree DEF Horizon

LEMMA HorizonNext ==
  ASSUME cur' \in Nat, pageNext' \in Nat, last' \in Nat
  PROVE  /\ Horizon' \in {cur', pageNext', last'}
         /\ cur' <= Horizon' /\ pageNext' <= Horizon' /\ last' <= Horizon'
BY LargestOfThree DEF Horizon

\* The first n elements of a set: with an element all that are smaller
LEMMA LeastIs ==
  ASSUME NEW S \in SUBSET SequenceNumbers, NEW n \in Nat
  PROVE  /\ Least(n, S) \subseteq S
         /\ \A s \in Least(n, S), q \in S : q < s => q \in Least(n, S)
         /\ \A s \in Least(n, S), q \in S \ Least(n, S) : s < q
<1>1. S \subseteq Nat /\ IsFiniteSet(S)
  BY SequencesFinite
<1>2. ASSUME NEW s \in Least(n, S), NEW q \in S, q < s PROVE q \in Least(n, S)
  <2> DEFINE A(x) == {p \in S : p < x}
  <2>1. s \in S /\ Cardinality(A(s)) < n
    BY DEF Least
  <2>2. A(q) \in SUBSET A(s) /\ IsFiniteSet(A(s))
    <3>1. A(q) \in SUBSET A(s)
      <4>1. \A p \in S : p < q => p < s
        BY <1>1, <1>2, <2>1
      <4> QED BY <4>1
    <3>2. A(s) \in SUBSET S
      OBVIOUS
    <3> HIDE DEF A
    <3> QED BY <1>1, <3>1, <3>2, FS_Subset
  <2>3. Cardinality(A(q)) <= Cardinality(A(s)) /\ IsFiniteSet(A(q))
    <3> HIDE DEF A
    <3> QED BY <2>2, FS_Subset
  <2>4. Cardinality(A(q)) \in Nat /\ Cardinality(A(s)) \in Nat
    <3> HIDE DEF A
    <3> QED BY <2>2, <2>3, FS_CardinalityType
  <2>5. Cardinality(A(q)) < n
    BY <2>1, <2>3, <2>4
  <2> QED BY <2>5 DEF Least
<1>3. Least(n, S) \subseteq S
  BY DEF Least
<1>4. ASSUME NEW s \in Least(n, S), NEW q \in S \ Least(n, S) PROVE s < q
  <2>1. s # q /\ ~ (q < s) /\ s \in Nat /\ q \in Nat
    BY <1>1, <1>2, <1>3
  <2> QED BY <2>1
<1> QED BY <1>2, <1>3, <1>4

\* the event yielded next has the lowest sequence
LEMMA FirstIs ==
  ASSUME NEW S \in SUBSET SequenceNumbers, NEW s \in Least(1, S)
  PROVE  s \in S /\ \A q \in S : s <= q
<1>1. S \subseteq Nat /\ IsFiniteSet(S)
  BY SequencesFinite
<1>2. s \in S /\ Cardinality({q \in S : q < s}) < 1
  BY DEF Least
<1>3. IsFiniteSet({q \in S : q < s})
  BY <1>1, FS_Subset
<1>4. {q \in S : q < s} = {}
  BY <1>2, <1>3, FS_EmptySet, FS_CardinalityType
<1> QED BY <1>1, <1>2, <1>4

\* a page that the server answers with, and the follower's cursor in it
LEMMA PageIs ==
  ASSUME NEW page, page = maf_api_events_filtered(cur), page.events # {}, cur \in Nat
  PROVE  /\ page.events \cup page.hidden \subseteq Visible
         /\ \A s \in page.events \cup page.hidden : cur < s /\ s <= page.next_cursor
         /\ \A s \in Visible : cur < s /\ s <= page.next_cursor => s \in page.events \cup page.hidden
         /\ \A s \in page.events, q \in page.hidden : s < q
         /\ page.next_cursor \in Nat /\ cur < page.next_cursor
<1> DEFINE S == {s \in Visible : s > cur}
           rows == PageRows(cur)
<1>1. PageLimit \in Nat /\ Fit \in Nat
  BY EventsAssumption
<1>2. S \in SUBSET SequenceNumbers /\ S \subseteq Nat
  BY SequencesFinite DEF Visible
<1>3. rows = Least(PageLimit, S)
  BY DEF PageRows
<1>4. rows \subseteq S /\ \A s \in rows, q \in S : q < s => q \in rows
  <2> HIDE DEF S, rows
  <2> QED BY <1>1, <1>2, <1>3, LeastIs
<1>5. page.events = Least(Fit, rows) /\ page.hidden = rows \ Least(Fit, rows)
  BY DEF maf_api_events_filtered
<1>6. /\ page.events \subseteq rows
      /\ \A s \in page.events, q \in page.hidden : s < q
  <2>1. rows \in SUBSET SequenceNumbers
    BY <1>2, <1>4
  <2> HIDE DEF S, rows
  <2> QED BY <1>1, <1>5, <2>1, LeastIs
<1>7. page.events \cup page.hidden = rows /\ rows # {}
  BY <1>5, <1>6
<1>8. page.next_cursor = Max(rows)
  BY <1>7 DEF maf_api_events_filtered
<1>9. page.next_cursor \in rows /\ \A q \in rows : q <= page.next_cursor
  <2>1. rows \in SUBSET SequenceNumbers
    BY <1>2, <1>4
  <2> HIDE DEF S, rows
  <2> QED BY <1>7, <1>8, <2>1, LargestOf
<1>10. ASSUME NEW s \in Visible, cur < s, s <= page.next_cursor PROVE s \in rows
  <2>1. s \in S /\ page.next_cursor \in Nat /\ s \in Nat
    BY <1>2, <1>4, <1>9, <1>10
  <2>2. CASE s < page.next_cursor
    BY <1>4, <1>9, <2>1, <2>2
  <2>3. CASE s = page.next_cursor
    BY <1>9, <2>3
  <2> QED BY <1>10, <2>1, <2>2, <2>3
<1>11. rows \subseteq Visible /\ \A s \in rows : cur < s /\ s \in Nat
  BY <1>2, <1>4
<1> QED BY <1>6, <1>7, <1>9, <1>10, <1>11

---------------------------------------------------------------------------
(* The subscription *)

\* Before it polls the follower has read up to its cursor at least what it was
\* given; what is left of a page lies ahead of both, the rows cut off behind the
\* events that fitted, and next_cursor is not before any of them.
PageAhead ==
    /\ sub \in {"poll", "dead"} => todo = {} /\ hidden = {} /\ pageNext = 0
    /\ sub = "poll" => last <= cur
    /\ todo \cup hidden \subseteq Visible
    /\ \A s \in todo \cup hidden : cur < s /\ last < s /\ s <= pageNext
    /\ sub = "yield" => cur <= pageNext /\ last <= pageNext
    /\ \A s \in todo, q \in hidden : s < q

FeedInv ==
    /\ row \in [SequenceNumbers -> {"none", "open", "visible", "gone"}]
    /\ next \in Nat \ {0} /\ \A s \in SequenceNumbers : next <= s => row[s] = "none"
    /\ sub \in {"poll", "yield", "dead"}
    /\ cur \in Nat /\ pageNext \in Nat /\ last \in Nat
    /\ PageAhead
    /\ LossAccounted

\* the application was given nothing and nothing got visible
Quiet == Visible' = Visible /\ UNCHANGED <<got, last>>

LEMMA InsertFeed ==
  ASSUME FeedInv, Insert
  PROVE  FeedInv' /\ Quiet
<1>1. next \in SequenceNumbers /\ row[next] = "none"
  BY EventsAssumption DEF FeedInv, Insert, SequenceNumbers
<1>2. Visible' = Visible
  BY <1>1 DEF FeedInv, Insert, Visible, SequenceNumbers
<1>3. UNCHANGED <<subVars, monitor>>
  BY DEF Insert
<1>4. Horizon' = Horizon
  BY <1>3 DEF Horizon, subVars
<1>5. PageAhead' /\ LossAccounted'
  BY <1>2, <1>3, <1>4 DEF FeedInv, PageAhead, LossAccounted, subVars
<1>6. /\ row' \in [SequenceNumbers -> {"none", "open", "visible", "gone"}]
      /\ next' \in Nat \ {0} /\ \A s \in SequenceNumbers : next' <= s => row'[s] = "none"
  BY EventsAssumption DEF FeedInv, Insert, SequenceNumbers
<1> QED BY <1>2, <1>3, <1>5, <1>6 DEF FeedInv, Quiet, subVars

LEMMA AbortFeed ==
  ASSUME FeedInv, NEW s \in SequenceNumbers, Abort(s)
  PROVE  FeedInv' /\ Quiet
<1>2. Visible' = Visible
  BY DEF FeedInv, Abort, Visible
<1>3. UNCHANGED <<subVars, monitor, next>>
  BY DEF Abort
<1>4. Horizon' = Horizon
  BY <1>3 DEF Horizon, subVars
<1>5. PageAhead' /\ LossAccounted'
  BY <1>2, <1>3, <1>4 DEF FeedInv, PageAhead, LossAccounted, subVars
<1>6. /\ row' \in [SequenceNumbers -> {"none", "open", "visible", "gone"}]
      /\ \A q \in SequenceNumbers : next' <= q => row'[q] = "none"
  BY DEF FeedInv, Abort
<1> QED BY <1>2, <1>3, <1>5, <1>6 DEF FeedInv, Quiet, subVars

\* a row that gets visible behind the cursor is late, and ahead of it not yet lost
LEMMA CommitFeed ==
  ASSUME FeedInv, NEW s \in SequenceNumbers, Commit(s)
  PROVE  FeedInv' /\ Visible' = Visible \cup {s} /\ s \notin Visible
<1>1. Visible' = Visible \cup {s} /\ s \notin Visible
  BY DEF FeedInv, Commit, Visible
<1>2. UNCHANGED <<next, sub, cur, todo, hidden, pageNext, got, last, cut>>
  BY DEF Commit
<1>3. Horizon' = Horizon
  BY <1>2 DEF Horizon
<1>4. late' = IF s <= Horizon THEN late \cup {s} ELSE late
  BY DEF Commit
<1>5. PageAhead'
  BY <1>1, <1>2 DEF FeedInv, PageAhead
<1>6. LossAccounted'
  BY <1>1, <1>2, <1>3, <1>4 DEF FeedInv, LossAccounted
<1>7. /\ row' \in [SequenceNumbers -> {"none", "open", "visible", "gone"}]
      /\ \A q \in SequenceNumbers : next' <= q => row'[q] = "none"
  BY DEF FeedInv, Commit
<1> QED BY <1>1, <1>2, <1>5, <1>6, <1>7 DEF FeedInv

\* what is behind the new horizon is on the page or was behind the cursor
LEMMA PollFeed ==
  ASSUME FeedInv, PollPage
  PROVE  FeedInv' /\ Quiet
<1> DEFINE page == maf_api_events_filtered(cur)
<1>1. /\ page.events # {} /\ sub = "poll" /\ sub' = "yield"
      /\ todo' = page.events /\ hidden' = page.hidden /\ pageNext' = page.next_cursor
      /\ UNCHANGED <<rowVars, cur, got, last, cut, late>>
  BY DEF PollPage
<1> HIDE DEF page
<1>2. cur \in Nat /\ last \in Nat /\ last <= cur /\ pageNext = 0 /\ todo = {} /\ hidden = {}
  BY <1>1 DEF FeedInv, PageAhead
<1>3. /\ todo' \cup hidden' \subseteq Visible
      /\ \A s \in todo' \cup hidden' : cur < s /\ s <= pageNext'
      /\ \A s \in Visible : cur < s /\ s <= pageNext' => s \in todo' \cup hidden'
      /\ \A s \in todo', q \in hidden' : s < q
      /\ pageNext' \in Nat /\ cur < pageNext'
  <2>1. page = maf_api_events_filtered(cur)
    BY DEF page
  <2> QED BY <1>1, <1>2, <2>1, PageIs
<1>4. Visible' = Visible /\ UNCHANGED <<row, next>>
  BY <1>1 DEF Visible, rowVars
<1>5. Visible \subseteq Nat
  BY SequencesFinite DEF Visible
<1>6. PageAhead'
  <2>1. ASSUME NEW s \in todo' \cup hidden' PROVE last' < s
    <3>1. s \in Nat /\ cur < s
      BY <1>3, <1>5
    <3> QED BY <1>1, <1>2, <3>1
  <2> QED BY <1>1, <1>2, <1>3, <1>4, <2>1 DEF PageAhead
<1>7. LossAccounted'
  <2>1. Horizon' = pageNext'
    <3>1. cur' \in Nat /\ pageNext' \in Nat /\ last' \in Nat
      BY <1>1, <1>2, <1>3
    <3>2. Horizon' \in {cur', pageNext', last'} /\ pageNext' <= Horizon'
      BY <3>1, HorizonNext
    <3> QED BY <1>1, <1>2, <1>3, <3>1, <3>2
  <2>2. cur <= Horizon
    BY <1>2, HorizonIs
  <2>3. Horizon \in Nat
    BY <1>2, HorizonIs
  <2> SUFFICES ASSUME NEW s \in Visible', s <= Horizon'
               PROVE  s \in got' \cup todo' \cup hidden' \cup cut' \cup late'
    BY DEF LossAccounted
  <2>4. s \in Visible /\ s \in Nat
    BY <1>4, <1>5
  <2>5. CASE cur < s
    BY <1>3, <2>1, <2>4, <2>5
  <2>6. CASE s <= cur
    <3>1. s <= Horizon
      BY <1>2, <2>2, <2>3, <2>4, <2>6
    <3>2. s \in got \cup cut \cup late
      BY <1>2, <2>4, <3>1 DEF FeedInv, LossAccounted
    <3> QED BY <1>1, <3>2
  <2> QED BY <1>2, <2>4, <2>5, <2>6
<1> QED BY <1>1, <1>2, <1>3, <1>4, <1>6, <1>7 DEF FeedInv, Quiet

\* the first event of the page is behind what follows it
LEMMA YieldFeed ==
  ASSUME FeedInv, Yield
  PROVE  /\ FeedInv' /\ Visible' = Visible
         /\ last' \in Visible /\ last' > last /\ got' = got \cup {last'}
<1>1. PICK s \in Upcoming : todo' = todo \ {s} /\ got' = got \cup {s} /\ last' = s
  BY DEF Yield
<1>2. sub = "yield" /\ UNCHANGED <<rowVars, sub, cur, hidden, pageNext, cut, late>>
  BY DEF Yield
<1>3. Visible' = Visible /\ UNCHANGED <<row, next>>
  BY <1>2 DEF Visible, rowVars
<1>4. Visible \subseteq Nat /\ Visible \in SUBSET SequenceNumbers /\ todo \in SUBSET SequenceNumbers
  BY SequencesFinite DEF Visible, FeedInv, PageAhead
<1>5. s \in todo /\ \A q \in todo : s <= q
  BY <1>1, <1>4, FirstIs DEF Upcoming
<1>6. s \in Visible /\ s \in Nat /\ cur < s /\ last < s /\ s <= pageNext
  BY <1>4, <1>5 DEF FeedInv, PageAhead
<1>7. cur \in Nat /\ pageNext \in Nat /\ last \in Nat /\ cur <= pageNext /\ last <= pageNext
  BY <1>2 DEF FeedInv, PageAhead
<1>8. PageAhead'
  <2>1. \A q \in todo' : q \in todo /\ s < q
    BY <1>1, <1>4, <1>5, <1>6 DEF FeedInv, PageAhead
  <2>2. \A q \in hidden : s < q
    BY <1>5 DEF FeedInv, PageAhead
  <2> QED BY <1>1, <1>2, <1>3, <1>6, <2>1, <2>2 DEF FeedInv, PageAhead
<1>9. Horizon' = Horizon
  <2>1. Horizon = pageNext
    BY <1>7, HorizonIs
  <2>2. cur' \in Nat /\ pageNext' \in Nat /\ last' \in Nat
    BY <1>1, <1>2, <1>6, <1>7
  <2>3. Horizon' \in {cur', pageNext', last'} /\ pageNext' <= Horizon'
    BY <2>2, HorizonNext
  <2> QED BY <1>1, <1>2, <1>6, <1>7, <2>1, <2>3
<1>10. LossAccounted'
  BY <1>1, <1>2, <1>3, <1>9 DEF FeedInv, LossAccounted
<1> QED BY <1>1, <1>2, <1>3, <1>6, <1>7, <1>8, <1>10 DEF FeedInv

\* the horizon stays, and what was cut off is accounted for
LEMMA AdvanceFeed ==
  ASSUME FeedInv, Advance
  PROVE  FeedInv' /\ Quiet
<1>1. /\ sub = "yield" /\ todo = {} /\ cur' = Advanced /\ cut' = cut \cup hidden
      /\ hidden' = {} /\ pageNext' = 0 /\ sub' = "poll"
      /\ UNCHANGED <<rowVars, todo, got, last, late>>
  BY DEF Advance
<1>2. cur \in Nat /\ pageNext \in Nat /\ last \in Nat /\ cur <= pageNext /\ last <= pageNext
  BY <1>1 DEF FeedInv, PageAhead
<1>3. cur' = pageNext
  BY <1>1, <1>2 DEF Advanced
<1>4. Visible' = Visible /\ UNCHANGED <<row, next>>
  BY <1>1 DEF Visible, rowVars
<1>5. PageAhead'
  BY <1>1, <1>2, <1>3 DEF PageAhead
<1>6. Horizon' = Horizon
  <2>1. Horizon = pageNext
    BY <1>2, HorizonIs
  <2>2. cur' \in Nat /\ pageNext' \in Nat /\ last' \in Nat
    BY <1>1, <1>2, <1>3
  <2>3. Horizon' \in {cur', pageNext', last'} /\ cur' <= Horizon'
    BY <2>2, HorizonNext
  <2> QED BY <1>1, <1>2, <1>3, <2>1, <2>3
<1>7. LossAccounted'
  BY <1>1, <1>4, <1>6 DEF FeedInv, LossAccounted
<1> QED BY <1>1, <1>2, <1>3, <1>4, <1>5, <1>7 DEF FeedInv, Quiet

\* the follower is taken back: what it forgets of a page lies ahead of it
LEMMA BackFeed ==
  ASSUME FeedInv, sub' \in {"poll", "dead"}, todo' = {}, hidden' = {}, pageNext' = 0,
         cur' \in {cur, last}, sub' = "poll" => cur' = last,
         UNCHANGED <<rowVars, got, last, cut, late>>
  PROVE  FeedInv' /\ Quiet
<1>1. cur \in Nat /\ pageNext \in Nat /\ last \in Nat
  BY DEF FeedInv
<1>2. Visible' = Visible /\ UNCHANGED <<row, next>>
  BY DEF Visible, rowVars
<1>3. PageAhead'
  BY <1>1 DEF PageAhead
<1>4. LossAccounted'
  <2>1. Horizon' \in {cur, last} \cup {0}
    <3>1. cur' \in Nat /\ pageNext' \in Nat /\ last' \in Nat
      BY <1>1
    <3> QED BY <3>1, HorizonNext
  <2>2. Horizon \in Nat /\ cur <= Horizon /\ last <= Horizon
    BY <1>1, HorizonIs
  <2> SUFFICES ASSUME NEW s \in Visible', s <= Horizon'
               PROVE  s \in got' \cup todo' \cup hidden' \cup cut' \cup late'
    BY DEF LossAccounted
  <2>3. s \in Visible /\ s \in Nat
    BY <1>2, SequencesFinite DEF Visible
  <2>4. s <= cur \/ s <= last
    BY <1>1, <2>1, <2>3
  <2>5. s <= Horizon
    BY <1>1, <2>2, <2>3, <2>4
  <2>6. s \in got \cup todo \cup hidden \cup cut \cup late
    BY <2>3, <2>5 DEF FeedInv, LossAccounted
  <2>7. s \notin todo \cup hidden
    BY <1>1, <2>3, <2>4 DEF FeedInv, PageAhead
  <2> QED BY <2>6, <2>7
<1> QED BY <1>1, <1>2, <1>3, <1>4 DEF FeedInv, Quiet

\* every step of the programs is a step of the abstract feed or none
FeedStep == Feed!Next \/ UNCHANGED <<Visible, got, last>>

LEMMA FeedNext ==
  ASSUME FeedInv, [SdkNext]_sdkVars
  PROVE  FeedInv' /\ FeedStep
<1>1. ASSUME FeedInv', Quiet PROVE FeedInv' /\ FeedStep
  BY <1>1 DEF Quiet, FeedStep
<1>2. ASSUME UNCHANGED <<rowVars, subVars>> PROVE FeedInv' /\ FeedStep
  <2>1. Visible' = Visible /\ Horizon' = Horizon
    BY <1>2 DEF Visible, Horizon, rowVars, subVars
  <2>2. LossAccounted' /\ PageAhead'
    BY <1>2, <2>1 DEF FeedInv, LossAccounted, PageAhead, rowVars, subVars
  <2> QED BY <1>2, <2>1, <2>2 DEF FeedInv, FeedStep, rowVars, subVars
<1>3. CASE Insert
  BY <1>1, <1>3, InsertFeed
<1>4. ASSUME NEW s \in SequenceNumbers, Abort(s) PROVE FeedInv' /\ FeedStep
  BY <1>1, <1>4, AbortFeed
<1>5. ASSUME NEW s \in SequenceNumbers, Commit(s) PROVE FeedInv' /\ FeedStep
  <2>1. FeedInv' /\ Visible' = Visible \cup {s} /\ s \notin Visible
    BY <1>5, CommitFeed
  <2>2. UNCHANGED <<got, last>>
    BY <1>5 DEF Commit
  <2>3. Feed!Commit
    BY <2>1, <2>2 DEF Feed!Commit
  <2> QED BY <2>1, <2>3 DEF FeedStep, Feed!Next
<1>6. CASE PollPage
  BY <1>1, <1>6, PollFeed
<1>7. CASE Yield
  <2>1. /\ FeedInv' /\ Visible' = Visible
        /\ last' \in Visible /\ last' > last /\ got' = got \cup {last'}
    BY <1>7, YieldFeed
  <2>2. Feed!Give
    BY <2>1 DEF Feed!Give
  <2> QED BY <2>1, <2>2 DEF FeedStep, Feed!Next
<1>8. CASE Advance
  BY <1>1, <1>8, AdvanceFeed
<1>9. CASE PollDies
  <2>1. /\ sub' \in {"poll", "dead"} /\ todo' = {} /\ hidden' = {} /\ pageNext' = 0
        /\ cur' \in {cur, last} /\ sub' # "poll"
        /\ UNCHANGED <<rowVars, got, last, cut, late>>
    BY <1>9 DEF PollDies, FeedInv, PageAhead
  <2> QED BY <1>1, <2>1, BackFeed
<1>10. CASE Break
  <2>1. /\ sub' \in {"poll", "dead"} /\ todo' = {} /\ hidden' = {} /\ pageNext' = 0
        /\ cur' \in {cur, last} /\ sub' # "poll"
        /\ UNCHANGED <<rowVars, got, last, cut, late>>
    BY <1>10 DEF Break
  <2> QED BY <1>1, <2>1, BackFeed
<1>11. CASE Resume
  <2>1. /\ sub' \in {"poll", "dead"} /\ todo' = {} /\ hidden' = {} /\ pageNext' = 0
        /\ cur' = last
        /\ UNCHANGED <<rowVars, got, last, cut, late>>
    BY <1>11 DEF Resume, FeedInv, PageAhead
  <2> QED BY <1>1, <2>1, BackFeed
<1>12. CASE MonitorRound
  BY <1>2, <1>12 DEF MonitorRound
<1>13. CASE SdkNext
  <2>1. CASE Operations \/ ClickToCall \/ Publisher \/ BillerCrash \/ \E b \in Billers : BillerStep(b)
    BY <1>2, <2>1 DEF Operations, ClickToCall, Publisher, BillerCrash, BillerStep, eventVars
  <2>2. CASE Subscriber
    BY <1>3, <1>4, <1>9, <1>10, <1>12, <2>2 DEF Subscriber, Emit
  <2>3. CASE Committed \/ Polled \/ Yielded \/ AdvancedOn \/ Resumed
    BY <1>5, <1>6, <1>7, <1>8, <1>11, <2>3
    DEF Following, Committed, Polled, Yielded, AdvancedOn, Resumed
  <2> QED BY <1>13, <2>1, <2>2, <2>3 DEF SdkNext
<1>14. CASE UNCHANGED sdkVars
  BY <1>2, <1>14 DEF sdkVars, eventVars
<1> QED BY <1>13, <1>14

LEMMA FeedInvariance == SdkSpec => []FeedInv
<1>1. SdkInit => FeedInv
  <2> SUFFICES ASSUME SdkInit PROVE FeedInv
    OBVIOUS
  <2>1. EventsInit
    BY DEF SdkInit
  <2>2. Visible = {}
    BY <2>1 DEF EventsInit, Visible
  <2> QED BY <2>1, <2>2 DEF EventsInit, FeedInv, PageAhead, LossAccounted
<1> QED BY <1>1, FeedNext, PTL DEF SdkSpec

\* In every behaviour an event that subscribe of madis_maf.py has read past was
\* given to the application, is about to be, was cut off a page by
\* maf_api_events_filtered or was committed late; for any number of events,
\* pages of any length and any timeouts and restarts.
THEOREM LossAccountedAlways == SdkSpec => []LossAccounted
<1>1. FeedInv => LossAccounted
  BY DEF FeedInv
<1> QED BY <1>1, FeedInvariance, PTL

\* The subscription of madis_maf.py implements the abstract feed: across pages,
\* errors and restarts the application is given committed events in the order of
\* their sequence and none twice.
THEOREM FeedRefined == SdkSpec => ImplementsFeed
<1>1. SdkInit => Feed!Init
  BY DEF SdkInit, EventsInit, Feed!Init, Visible
<1>2. FeedStep => [Feed!Next]_<<Visible, got, last>>
  BY DEF FeedStep
<1>3. SdkSpec => [][FeedStep]_<<Visible, got, last>>
  BY FeedInvariance, FeedNext, PTL DEF SdkSpec
<1> QED BY <1>1, <1>2, <1>3, PTL DEF SdkSpec, ImplementsFeed, Feed!Spec
=============================================================================
