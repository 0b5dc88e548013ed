---------------------------- MODULE ForkContext ----------------------------
(***************************************************************************)
(* The response context of forked requests: the fork_* keys of one Call-ID *)
(* (rfc.mko), filled by sip_forward_fork and sip_send_fork_cancels         *)
(* (sip_forwarding.mko), and driven by the response path of main.mko, by   *)
(* an upstream CANCEL and by the timeout path of sip_client_txn_tick.      *)
(*                                                                         *)
(* A caller may send several requests with one Call-ID (a REGISTER         *)
(* refresh, an INVITE repeated with credentials); each is an attempt, and  *)
(* its branches are named <<attempt, index>>.  A downstream server answers *)
(* a branch once; that answer may be lost, delayed and delivered again.    *)
(* Redirections (3xx) are left out.                                        *)
(***************************************************************************)
EXTENDS Integers, FiniteSets

CONSTANTS
    Width,        \* targets per request
    Attempts,     \* requests sent with the Call-ID
    MaxBranches,  \* branches the list of a group may hold (32)
    Finals,       \* the status codes 4xx-6xx servers answer with
    Concurrent    \* may another worker handle messages while a request is sent?

ASSUME WidthAssumption == Width \in Nat \ {0}
ASSUME AttemptsAssumption == Attempts \in Nat \ {0}
ASSUME MaxBranchesAssumption == MaxBranches \in Nat
ASSUME FinalsAssumption == Finals \subseteq 400 .. 699
ASSUME ConcurrentAssumption == Concurrent \in BOOLEAN

VARIABLES
    attempt,     \* the request the caller is at, 0 before the first
    stage,       \* where its handler is: "idle", "committing" or "open"
    next,        \* the branch sip_forward_fork commits next
    sent,        \* branches whose request went out
    ctx,         \* the fork_* keys, see ContextType
    txn,         \* live client transactions of the branches
    cancelTxn,   \* live client transactions of CANCELs
    cancelSent,  \* branches whose server has the CANCEL
    answer,      \* what the server of a branch answered, 0 if nothing yet
    acked,       \* branches whose non-2xx final was acknowledged locally
    wantCancel,  \* the caller cancelled the attempt
    cancelMark,  \* cancelled|cid is present
    upstream,    \* finals forwarded to the caller: <<attempt, code>>
    late         \* history: branches registered when one was selected already

vars == <<attempt, stage, next, sent, ctx, txn, cancelTxn, cancelSent, answer,
          acked, wantCancel, cancelMark, upstream, late>>

Branches == (1 .. Attempts) \X (1 .. Width)
NoBranch == <<0, 0>>
Codes == Finals \cup {200, 408, 487}
NoCode == 0

\* branch: fork_branch|; list: fork_branches|; pending: fork_pending| is "1";
\* resp: fork_response|; best, selected: fork_best_branch|, fork_selected|;
\* done, expected: as numbers, 0 when absent; flag: fork_complete|
ContextType == [branch   : SUBSET Branches,
                list     : SUBSET Branches,
                pending  : SUBSET Branches,
                resp     : [Branches -> Codes \cup {NoCode}],
                best     : Branches \cup {NoBranch},
                selected : Branches \cup {NoBranch},
                done     : Nat,
                expected : Nat,
                flag     : {"absent", "0", "1"}]

NoContext == [branch |-> {}, list |-> {}, pending |-> {},
              resp |-> [b \in Branches |-> NoCode],
              best |-> NoBranch, selected |-> NoBranch,
              done |-> 0, expected |-> 0, flag |-> "absent"]

Ended == {b \in Branches : ctx.resp[b] # NoCode}
Current == {b \in Branches : b[1] = attempt}

---------------------------------------------------------------------------
(* rfc.mko *)

\* Mutation: a 6xx does not outrank the other classes
BetterByClass(candidate, current) ==
    \/ current = NoCode
    \/ candidate < current

\* sip_fork_response_better
Better(candidate, current) ==
    \/ current = NoCode
    \/ candidate >= 600 /\ current < 600
    \/ /\ (candidate >= 600) = (current >= 600)
       /\ candidate < current

BestCode(c) == IF c.best = NoBranch THEN NoCode ELSE c.resp[c.best]

\* sip_fork_collect_response, what it stores: only the first final of a
\* branch counts; the group is complete with the last branch or with a 6xx
Collect(c, b, code) ==
    IF c.resp[b] # NoCode THEN c
    ELSE [c EXCEPT !.resp[b] = code,
                   !.pending = @ \ {b},
                   !.done = @ + 1,
                   !.best = IF Better(code, BestCode(c)) THEN b ELSE @,
                   !.flag = IF c.done + 1 >= c.expected \/ code >= 600 THEN "1" ELSE @]

\* Mutation: the group waits for one final more than it has branches
HeldOneMore(c, b, code) ==
    IF c.resp[b] = NoCode THEN c.done < c.expected /\ code < 600
                          ELSE c.flag = "absent"

\* ... and whether it holds the response back: the first final of a branch
\* waits for the others, a repeated one only for the key fork_complete|
Held(c, b, code) ==
    IF c.resp[b] = NoCode THEN c.done + 1 < c.expected /\ code < 600
                          ELSE c.flag = "absent"

\* sip_fork_register_branch and sip_fork_store_request
Register(c, b) ==
    [c EXCEPT !.branch = @ \cup {b},
              !.pending = @ \cup {b},
              !.list = IF Cardinality(@) >= MaxBranches THEN @ ELSE @ \cup {b}]

---------------------------------------------------------------------------
(* sip_forwarding.mko *)

\* Mutation: the loop over the branches skips the first one
CancelSkipsFirst(c, except) == {b \in (c.list \cap c.pending) \ {except} : b[2] # 1}

\* sip_send_fork_cancels: the branches it cancels ...
ToCancel(c, except) == (c.list \cap c.pending) \ {except}

\* ... each marked by sip_fork_mark_cancelled whether or not its CANCEL
\* could be sent
Cancelled(c, gone) == [c EXCEPT !.pending = @ \ gone]
SendCancels(gone) ==
    \E out \in SUBSET gone :
        /\ cancelSent' = cancelSent \cup out
        /\ cancelTxn' = cancelTxn \cup out

\* sip_fork_mark_selected: the first 2xx of the group wins
Select(c, b) == [c EXCEPT !.selected = IF @ = NoBranch THEN b ELSE @]

---------------------------------------------------------------------------
(* The request handler *)

Init ==
    /\ attempt = 0 /\ stage = "idle" /\ next = 1
    /\ sent = {} /\ ctx = NoContext
    /\ txn = {} /\ cancelTxn = {} /\ cancelSent = {}
    /\ answer = [b \in Branches |-> NoCode]
    /\ acked = {} /\ wantCancel = FALSE /\ cancelMark = FALSE
    /\ upstream = {} /\ late = {}

\* sip_fork_send_branch for every target, joined by the crew; the caller
\* repeats a request once the one before it was answered
SendRequest ==
    /\ stage \in {"idle", "open"} /\ attempt < Attempts
    /\ stage = "open" => \E code \in Codes : <<attempt, code>> \in upstream
    /\ attempt' = attempt + 1
    /\ stage' = "committing" /\ next' = 1 /\ wantCancel' = FALSE
    /\ \E out \in SUBSET ({attempt + 1} \X (1 .. Width)) :
          sent' = sent \cup out /\ txn' = txn \cup out
    /\ UNCHANGED <<ctx, cancelTxn, cancelSent, answer, acked, cancelMark, upstream, late>>

\* sip_fork_commit_branch, in the order of the targets
CommitBranch ==
    /\ stage = "committing" /\ next <= Width
    /\ next' = next + 1
    /\ IF <<attempt, next>> \in sent
       THEN /\ ctx' = Register(ctx, <<attempt, next>>)
            /\ late' = IF ctx.selected = NoBranch THEN late ELSE late \cup {<<attempt, next>>}
       ELSE UNCHANGED <<ctx, late>>
    /\ UNCHANGED <<attempt, stage, sent, txn, cancelTxn, cancelSent, answer, acked,
                   wantCancel, cancelMark, upstream>>

\* The end of sip_forward_fork: the counters are set, or no branch was
\* committed and the caller is answered 503 here
OpenContext ==
    /\ stage = "committing" /\ next > Width
    /\ stage' = "open"
    /\ LET committed == ctx.list \cap Current
       IN IF committed = {}
          THEN ctx' = ctx /\ upstream' = upstream \cup {<<attempt, 503>>}
          ELSE /\ ctx' = [ctx EXCEPT !.expected = Cardinality(committed), !.done = 0, !.flag = "0"]
               /\ UNCHANGED upstream
    /\ UNCHANGED <<attempt, next, sent, txn, cancelTxn, cancelSent, answer, acked,
                   wantCancel, cancelMark, late>>

---------------------------------------------------------------------------
(* The servers and the caller *)

\* A server answers a branch: with a final of its own, or 487 to a CANCEL
Answer(b) ==
    /\ b \in sent /\ answer[b] = NoCode
    /\ \E code \in Finals \cup {200} \cup (IF b \in cancelSent THEN {487} ELSE {}) :
          answer' = [answer EXCEPT ![b] = code]
    /\ UNCHANGED <<attempt, stage, next, sent, ctx, txn, cancelTxn, cancelSent, acked,
                   wantCancel, cancelMark, upstream, late>>

Handling == stage = "open" \/ (Concurrent /\ stage = "committing")

\* CANCEL from the caller: every pending branch is cancelled and the Call-ID
\* marked.  (The copy sent along the dialog's last branch repeats one of them.)
CallerCancels ==
    /\ Handling /\ ~wantCancel
    /\ wantCancel' = TRUE /\ cancelMark' = TRUE
    /\ LET gone == ToCancel(ctx, NoBranch)
       IN ctx' = Cancelled(ctx, gone) /\ SendCancels(gone)
    /\ UNCHANGED <<attempt, stage, next, sent, txn, answer, acked, upstream, late>>

---------------------------------------------------------------------------
(* The response path of main.mko and the timeout path of sip_dialog.mko *)

\* What a response with a 2xx code does to the group of its branch
Wins(b) ==
    IF b \in ctx.branch /\ ctx.selected = NoBranch
    THEN LET gone == ToCancel(ctx, b)
         IN ctx' = Cancelled(Select(ctx, b), gone) /\ SendCancels(gone)
    ELSE UNCHANGED <<ctx, cancelTxn, cancelSent>>

\* 2xx of a branch: forwarded at once, the first one cancels the others
Success(b) ==
    /\ Handling /\ answer[b] = 200
    /\ txn' = txn \ {b}
    /\ Wins(b)
    /\ upstream' = upstream \cup {<<b[1], 200>>}
    /\ UNCHANGED <<attempt, stage, next, sent, answer, acked, wantCancel, cancelMark, late>>

\* 4xx-6xx of a branch.  It ends the client transaction; a 6xx cancels the
\* other branches; the collected best is forwarded unless it is held back,
\* and only then is the response acknowledged, if its transaction was live.
Failure(b) ==
    /\ Handling /\ answer[b] >= 300
    /\ LET gone   == IF answer[b] >= 600 THEN ToCancel(ctx, b) ELSE {}
           before == Cancelled(ctx, gone)
           after  == Collect(before, b, answer[b])
       IN IF b \in ctx.branch
          THEN /\ SendCancels(gone) /\ ctx' = after
               /\ IF Held(before, b, answer[b])
                  THEN UNCHANGED <<acked, upstream>>
                  ELSE /\ upstream' = upstream \cup {<<after.best[1], after.resp[after.best]>>}
                       /\ acked' = IF b \in txn THEN acked \cup {b} ELSE acked
          ELSE /\ upstream' = upstream \cup {<<b[1], answer[b]>>}
               /\ acked' = IF b \in txn THEN acked \cup {b} ELSE acked
               /\ UNCHANGED <<ctx, cancelTxn, cancelSent>>
    /\ txn' = txn \ {b}
    /\ UNCHANGED <<attempt, stage, next, sent, answer, wantCancel, cancelMark, late>>

\* 200 to a CANCEL: consumed while its transaction lives; afterwards it is
\* taken for a 2xx of the branch, since only the branch is looked at
CancelAnswered(b) ==
    /\ Handling /\ b \in cancelSent
    /\ IF b \in cancelTxn
       THEN cancelTxn' = cancelTxn \ {b} /\ UNCHANGED <<ctx, cancelSent>>
       ELSE Wins(b)
    /\ UNCHANGED <<attempt, stage, next, sent, txn, answer, acked, wantCancel, cancelMark,
                   upstream, late>>

\* The transaction of a CANCEL expires silently
CancelExpires(b) ==
    /\ Handling /\ b \in cancelTxn
    /\ cancelTxn' = cancelTxn \ {b}
    /\ UNCHANGED <<attempt, stage, next, sent, ctx, txn, cancelSent, answer, acked,
                   wantCancel, cancelMark, upstream, late>>

\* The transaction of a branch expires: 408, or 487 once after a CANCEL
Timeout(b) ==
    /\ Handling /\ b \in txn
    /\ txn' = txn \ {b}
    /\ cancelMark' = FALSE
    /\ LET code  == IF cancelMark THEN 487 ELSE 408
           after == Collect(ctx, b, code)
       IN IF b \in ctx.branch
          THEN /\ ctx' = after
               /\ upstream' = IF Held(ctx, b, code) THEN upstream
                              ELSE upstream \cup {<<after.best[1], after.resp[after.best]>>}
          ELSE UNCHANGED ctx /\ upstream' = upstream \cup {<<b[1], code>>}
    /\ UNCHANGED <<attempt, stage, next, sent, cancelTxn, cancelSent, answer, acked,
                   wantCancel, late>>

Branch(b) ==
    \/ Answer(b) \/ Success(b) \/ Failure(b) \/ Timeout(b)
    \/ CancelAnswered(b) \/ CancelExpires(b)

Next ==
    \/ SendRequest \/ CommitBranch \/ OpenContext \/ CallerCancels
    \/ \E b \in Branches : Branch(b)

\* Nothing is assumed fair: a branch may stay silent and never time out, since
\* a worker may count itself idle (ClientTxn) and answers may be lost.
Spec == Init /\ [][Next]_vars

---------------------------------------------------------------------------
(* Properties *)

\* The response context of the group, the branches on their way and the
\* answers sent upstream are well formed.
TypeOK ==
    /\ attempt \in 0 .. Attempts /\ stage \in {"idle", "committing", "open"}
    /\ next \in 1 .. Width + 1
    /\ sent \subseteq Branches /\ ctx \in ContextType
    /\ txn \subseteq sent /\ cancelTxn \subseteq cancelSent /\ cancelSent \subseteq sent
    /\ answer \in [Branches -> Codes \cup {NoCode}] /\ acked \subseteq sent
    /\ wantCancel \in BOOLEAN /\ cancelMark \in BOOLEAN
    /\ upstream \subseteq (1 .. Attempts) \X (Codes \cup {503})
    /\ late \subseteq Branches

\* Whatever the order in which the finals of the branches arrive, are repeated
\* or are made up by timeouts, fork_best_branch| names one of the branches that
\* ended, and none of them ended with a better code (6xx first, then lowest).
BestIsBest ==
    /\ (ctx.best = NoBranch) = (Ended = {})
    /\ ctx.best # NoBranch => \A b \in Ended :
          /\ ctx.best \in Ended
          /\ ctx.resp[ctx.best] >= 600 \/ ctx.resp[b] < 600
          /\ (ctx.resp[ctx.best] >= 600) = (ctx.resp[b] >= 600)
                => ctx.resp[ctx.best] <= ctx.resp[b]

\* sip_forwarding.mko: "after a fork produces a 2xx, cancel all still-pending
\* branches".  With another worker in the context, branches of later requests
\* and any number of targets: what a 2xx leaves pending, other than its own
\* branch, was registered after it or did not fit into fork_branches|.
CancelledUnlessLate ==
    ctx.selected # NoBranch
       => ctx.pending \cap ctx.list \subseteq {ctx.selected} \cup late

\* rfc.mko holds finals back until "every sent branch has terminated": once
\* each branch of the request has had its final or its timeout the caller has
\* one too, whatever overtook the registration of the branches, was repeated
\* or cancelled.  (That a timeout comes at all is for ClientTxn to say.)
GroupAnswered ==
    stage = "open" /\ txn \cap Current = {}
       => \E code \in Codes \cup {503} : <<attempt, code>> \in upstream

=============================================================================
