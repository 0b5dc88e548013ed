------------------------- MODULE ForkContextProofs -------------------------
(***************************************************************************)
(* Proofs about ForkContext for any number of requests and targets, any    *)
(* status codes, and with or without concurrent workers.                   *)
(***************************************************************************)
EXTENDS ForkContext, FiniteSetTheorems, TLAPS

\* BestIsBest of a context value
Outranks(x, y) ==
    /\ x >= 600 \/ y < 600
    /\ (x >= 600) = (y >= 600) => x <= y
BestOf(c) ==
    /\ c.best = NoBranch => \A b \in Branches : c.resp[b] = NoCode
    /\ c.best # NoBranch =>
          /\ c.best \in Branches /\ c.resp[c.best] # NoCode
          /\ \A b \in Branches : c.resp[b] # NoCode => Outranks(c.resp[c.best], c.resp[b])

\* The inductive invariant: a CANCEL only goes out on a listed branch, which
\* was sent, and a forwarded best always names a branch.
IInv ==
    /\ TypeOK
    /\ stage # "idle" => attempt >= 1
    /\ ctx.list \subseteq sent
    /\ BestOf(ctx)

\* The mark for no branch is not a branch.
LEMMA NoBranchNew == NoBranch \notin Branches
  BY DEF NoBranch, Branches

\* Final codes are those of SIP, and the mark for none is not one of them.
LEMMA CodesNat == Codes \subseteq 200 .. 699 /\ NoCode \notin Codes
  BY FinalsAssumption DEF Codes, NoCode

\* BestIsBest in terms of the group it speaks of.
LEMMA BestIsBestOf ==
  ASSUME ctx \in ContextType
  PROVE  BestOf(ctx) => BestIsBest
  BY NoBranchNew DEF BestOf, BestIsBest, Ended, Outranks

\* sip_fork_mark_cancelled, sip_fork_mark_selected and
\* sip_fork_register_branch leave the collected finals alone
LEMMA MarksKeep ==
  ASSUME NEW c \in ContextType, BestOf(c), NEW b \in Branches, NEW gone
  PROVE  /\ Cancelled(c, gone) \in ContextType /\ BestOf(Cancelled(c, gone))
         /\ Cancelled(c, gone).list = c.list
         /\ Select(c, b) \in ContextType /\ BestOf(Select(c, b))
         /\ Select(c, b).list = c.list
         /\ Register(c, b) \in ContextType /\ BestOf(Register(c, b))
         /\ Register(c, b).list \subseteq c.list \cup {b}
  <1>1. /\ Cancelled(c, gone) \in ContextType /\ Cancelled(c, gone).list = c.list
        /\ Cancelled(c, gone).resp = c.resp /\ Cancelled(c, gone).best = c.best
    BY DEF Cancelled, ContextType
  <1>2. /\ Select(c, b) \in ContextType /\ Select(c, b).list = c.list
        /\ Select(c, b).resp = c.resp /\ Select(c, b).best = c.best
    BY DEF Select, ContextType
  <1>3. /\ Register(c, b) \in ContextType /\ Register(c, b).list \subseteq c.list \cup {b}
        /\ Register(c, b).resp = c.resp /\ Register(c, b).best = c.best
    BY DEF Register, ContextType
  <1> QED BY <1>1, <1>2, <1>3 DEF BestOf

\* sip_fork_response_better chooses between two codes
LEMMA BetterOutranks ==
  ASSUME NEW x \in Codes, NEW y \in Codes
  PROVE  /\ Better(x, y) => Outranks(x, y)
         /\ ~Better(x, y) => Outranks(y, x)
  BY CodesNat DEF Better, Outranks, NoCode

\* The preference of sip_fork_response_better is transitive.
LEMMA OutranksTransitive ==
  ASSUME NEW x \in Codes, NEW y \in Codes, NEW z \in Codes, Outranks(x, y), Outranks(y, z)
  PROVE  Outranks(x, z)
  BY CodesNat DEF Outranks

\* Every code is as good as itself.
LEMMA OutranksSelf == ASSUME NEW x \in Codes PROVE Outranks(x, x)
  BY CodesNat DEF Outranks

\* sip_fork_collect_response keeps the best of what was collected
LEMMA CollectKeepsBest ==
  ASSUME NEW c \in ContextType, BestOf(c), NEW b \in Branches, NEW code \in Codes
  PROVE  /\ Collect(c, b, code) \in ContextType
         /\ BestOf(Collect(c, b, code))
         /\ Collect(c, b, code).list = c.list
         /\ Collect(c, b, code).best \in Branches
         /\ Collect(c, b, code).resp[Collect(c, b, code).best] \in Codes
  <1> DEFINE d == Collect(c, b, code)
  <1>1. CASE c.resp[b] # NoCode
    <2>1. d = c
      BY <1>1 DEF Collect
    <2>2. c.best # NoBranch
      BY <1>1 DEF BestOf
    <2>3. c.best \in Branches /\ c.resp[c.best] \in Codes
      BY <2>2 DEF BestOf, ContextType
    <2> QED BY <2>1, <2>3
  <1>2. CASE c.resp[b] = NoCode
    <2> DEFINE wins == Better(code, BestCode(c))
               best1 == IF wins THEN b ELSE c.best
               resp1 == [c.resp EXCEPT ![b] = code]
    <2>1. d.resp = resp1 /\ d.best = best1 /\ d.list = c.list
      BY <1>2 DEF Collect, ContextType
    <2>2. c.best = NoBranch => best1 = b
      BY DEF BestCode, Better
    <2>3. best1 \in Branches
      BY <2>2 DEF ContextType
    <2>4. d \in ContextType
      <3> DEFINE flag1 == IF c.done + 1 >= c.expected \/ code >= 600 THEN "1" ELSE c.flag
      <3>1. d = [branch |-> c.branch, list |-> c.list, pending |-> c.pending \ {b},
                 resp |-> resp1, best |-> best1, selected |-> c.selected,
                 done |-> c.done + 1, expected |-> c.expected, flag |-> flag1]
        BY <1>2 DEF Collect, ContextType
      <3>2. resp1 \in [Branches -> Codes \cup {NoCode}]
        BY DEF ContextType
      <3>3. c.done + 1 \in Nat /\ flag1 \in {"absent", "0", "1"}
        BY DEF ContextType
      <3> HIDE DEF flag1, resp1, best1
      <3> QED BY <2>3, <3>1, <3>2, <3>3 DEF ContextType
    <2>5. resp1 \in [Branches -> Codes \cup {NoCode}] /\ resp1[b] = code
      BY DEF ContextType
    <2>6. ASSUME NEW a \in Branches, a # b PROVE resp1[a] = c.resp[a]
      BY <2>6 DEF ContextType
    <2>7. CASE wins
      <3>1. ASSUME NEW a \in Branches, resp1[a] # NoCode
            PROVE  Outranks(resp1[b], resp1[a])
        <4>1. CASE a = b
          BY <4>1, <2>5, OutranksSelf
        <4>2. CASE a # b
          <5>1. c.resp[a] \in Codes /\ resp1[a] = c.resp[a]
            BY <2>6, <3>1, <4>2 DEF ContextType
          <5>2. c.best # NoBranch
            BY <5>1, CodesNat DEF BestOf
          <5>3. c.resp[c.best] \in Codes /\ Outranks(c.resp[c.best], c.resp[a])
            BY <5>1, <5>2, CodesNat DEF BestOf, ContextType
          <5>4. Outranks(code, c.resp[c.best])
            BY <2>7, <5>2, <5>3, BetterOutranks DEF BestCode
          <5> QED BY <5>1, <5>3, <5>4, <2>5, OutranksTransitive
        <4> QED BY <4>1, <4>2
      <3>2. best1 = b /\ resp1[b] # NoCode
        BY <2>7, <2>5, CodesNat
      <3>3. b # NoBranch
        BY NoBranchNew
      <3> HIDE DEF best1, resp1, wins, d
      <3> QED BY <2>1, <2>4, <2>5, <3>1, <3>2, <3>3 DEF BestOf, d
    <2>8. CASE ~wins
      <3>1. c.best # NoBranch /\ best1 = c.best
        BY <2>8 DEF BestCode, Better
      <3>2. c.best \in Branches /\ c.resp[c.best] \in Codes
        BY <3>1 DEF BestOf, ContextType
      <3>3. c.best # b
        BY <1>2, <3>2, CodesNat
      <3>4. resp1[c.best] = c.resp[c.best]
        BY <2>6, <3>2, <3>3
      <3>5. Outranks(c.resp[c.best], code)
        BY <2>8, <3>1, <3>2, BetterOutranks DEF BestCode
      <3>6. ASSUME NEW a \in Branches, resp1[a] # NoCode
            PROVE  Outranks(resp1[c.best], resp1[a])
        BY <2>5, <2>6, <3>1, <3>4, <3>5, <3>6 DEF BestOf
      <3>7. resp1[c.best] # NoCode
        BY <3>2, <3>4, CodesNat
      <3> HIDE DEF best1, resp1, wins, d
      <3> QED BY <2>1, <2>4, <3>1, <3>2, <3>4, <3>6, <3>7 DEF BestOf, d
    <2> QED BY <2>7, <2>8
  <1> QED BY <1>1, <1>2

\* sip_send_fork_cancels: CANCELs go out on branches that were sent
LEMMA CancelsSent ==
  ASSUME IInv, NEW gone, gone \subseteq ctx.list, SendCancels(gone), sent' = sent
  PROVE  cancelTxn' \subseteq cancelSent' /\ cancelSent' \subseteq sent'
  BY DEF IInv, TypeOK, SendCancels

\* A 2xx, or what is taken for one
LEMMA WinsKeeps ==
  ASSUME IInv, NEW b \in Branches, Wins(b), sent' = sent
  PROVE  /\ ctx' \in ContextType /\ BestOf(ctx') /\ ctx'.list = ctx.list
         /\ cancelTxn' \subseteq cancelSent' /\ cancelSent' \subseteq sent'
  <1>1. ctx \in ContextType /\ BestOf(ctx)
    BY DEF IInv, TypeOK
  <1>2. CASE b \in ctx.branch /\ ctx.selected = NoBranch
    <2> DEFINE gone == ToCancel(ctx, b)
    <2>1. ctx' = Cancelled(Select(ctx, b), gone) /\ SendCancels(gone)
      BY <1>2 DEF Wins
    <2>2. gone \subseteq ctx.list
      BY DEF ToCancel
    <2> HIDE DEF gone
    <2> QED BY <1>1, <2>1, <2>2, MarksKeep, CancelsSent
  <1>3. CASE ~(b \in ctx.branch /\ ctx.selected = NoBranch)
    BY <1>1, <1>3 DEF Wins, IInv, TypeOK
  <1> QED BY <1>2, <1>3

\* A final of a branch, from its server or made up by its timeout
LEMMA ForwardedBest ==
  ASSUME NEW c \in ContextType, BestOf(c), NEW b \in Branches, NEW code \in Codes
  PROVE  LET d == Collect(c, b, code)
         IN  <<d.best[1], d.resp[d.best]>> \in (1 .. Attempts) \X (Codes \cup {503})
  BY CollectKeepsBest DEF Branches

\* A failure of a branch keeps the invariant.
LEMMA FailureKeeps ==
  ASSUME IInv, NEW b \in Branches, Failure(b)
  PROVE  IInv'
  <1> DEFINE gone   == IF answer[b] >= 600 THEN ToCancel(ctx, b) ELSE {}
             before == Cancelled(ctx, gone)
             after  == Collect(before, b, answer[b])
             Up     == (1 .. Attempts) \X (Codes \cup {503})
  <1>1. /\ UNCHANGED <<attempt, stage, next, sent, answer, wantCancel, cancelMark, late>>
        /\ txn' = txn \ {b}
    BY DEF Failure
  <1>2. ctx \in ContextType /\ BestOf(ctx) /\ gone \subseteq ctx.list /\ answer[b] \in Codes
    BY CodesNat DEF Failure, IInv, TypeOK, NoCode, ToCancel
  <1>3. acked' \subseteq sent
    BY DEF Failure, IInv, TypeOK
  <1>4. CASE b \in ctx.branch
    <2>1. SendCancels(gone) /\ ctx' = after
          /\ upstream' \in {upstream, upstream \cup {<<after.best[1], after.resp[after.best]>>}}
      BY <1>4 DEF Failure
    <2>2. before \in ContextType /\ BestOf(before) /\ before.list = ctx.list
      BY <1>2, MarksKeep
    <2> HIDE DEF gone, before
    <2>3. after \in ContextType /\ BestOf(after) /\ after.list = ctx.list
      BY <1>2, <2>2, CollectKeepsBest
    <2>4. <<after.best[1], after.resp[after.best]>> \in Up
      BY <1>2, <2>2, ForwardedBest
    <2> HIDE DEF after, Up
    <2>5. cancelTxn' \subseteq cancelSent' /\ cancelSent' \subseteq sent'
      BY <1>1, <1>2, <2>1, CancelsSent
    <2>6. upstream \subseteq Up
      BY DEF IInv, TypeOK, Up
    <2>7. upstream' \subseteq Up
      BY <2>1, <2>4, <2>6
    <2> QED BY <1>1, <1>3, <2>1, <2>3, <2>5, <2>7 DEF IInv, TypeOK, Up
  <1>5. CASE b \notin ctx.branch
    <2>1. /\ upstream' = upstream \cup {<<b[1], answer[b]>>}
          /\ UNCHANGED <<ctx, cancelTxn, cancelSent>>
      BY <1>5 DEF Failure
    <2>2. <<b[1], answer[b]>> \in Up
      BY <1>2 DEF Branches
    <2> QED BY <1>1, <1>3, <2>1, <2>2 DEF IInv, TypeOK
  <1> QED BY <1>4, <1>5

\* A timeout of a branch keeps the invariant.
LEMMA TimeoutKeeps ==
  ASSUME IInv, NEW b \in Branches, Timeout(b)
  PROVE  IInv'
  <1> DEFINE code  == IF cancelMark THEN 487 ELSE 408
             after == Collect(ctx, b, code)
             Up    == (1 .. Attempts) \X (Codes \cup {503})
  <1>1. /\ UNCHANGED <<attempt, stage, next, sent, cancelTxn, cancelSent, answer, acked,
                       wantCancel, late>>
        /\ txn' = txn \ {b} /\ cancelMark' = FALSE
    BY DEF Timeout
  <1>2. ctx \in ContextType /\ BestOf(ctx) /\ code \in Codes /\ upstream \subseteq Up
    BY DEF IInv, TypeOK, Codes
  <1>3. after \in ContextType /\ BestOf(after) /\ after.list = ctx.list
    BY <1>2, CollectKeepsBest
  <1>4. <<after.best[1], after.resp[after.best]>> \in Up /\ <<b[1], code>> \in Up
    BY <1>2, ForwardedBest DEF Branches
  <1>5. /\ ctx' \in {ctx, after}
        /\ \/ upstream' = upstream
           \/ upstream' = upstream \cup {<<after.best[1], after.resp[after.best]>>}
           \/ upstream' = upstream \cup {<<b[1], code>>}
    BY DEF Timeout
  <1> HIDE DEF code, after, Up
  <1>6. ctx' \in ContextType /\ BestOf(ctx') /\ ctx'.list = ctx.list /\ upstream' \subseteq Up
    BY <1>2, <1>3, <1>4, <1>5
  <1> QED BY <1>1, <1>6 DEF IInv, TypeOK, Up

\* Sending the branches, opening their group and the CANCEL of the caller keep
\* the invariant.
LEMMA RequestKeeps ==
  ASSUME IInv, SendRequest \/ CommitBranch \/ OpenContext \/ CallerCancels
  PROVE  IInv'
  <1>1. CASE SendRequest
    <2>1. attempt + 1 \in 1 .. Attempts
      BY <1>1, AttemptsAssumption DEF SendRequest, IInv, TypeOK
    <2>2. PICK out \in SUBSET ({attempt + 1} \X (1 .. Width)) :
             sent' = sent \cup out /\ txn' = txn \cup out
      BY <1>1 DEF SendRequest
    <2>3. out \subseteq Branches
      BY <2>1 DEF Branches
    <2>4. 1 \in 1 .. Width + 1
      BY WidthAssumption
    <2>5. attempt' = attempt + 1 /\ attempt' \in 0 .. Attempts /\ attempt' >= 1
      BY <1>1, <2>1, AttemptsAssumption DEF SendRequest
    <2>6. /\ stage' = "committing" /\ next' = 1 /\ wantCancel' = FALSE
          /\ UNCHANGED <<ctx, cancelTxn, cancelSent, answer, acked, cancelMark, upstream, late>>
      BY <1>1 DEF SendRequest
    <2>7. /\ sent' \subseteq Branches /\ txn' \subseteq sent' /\ sent \subseteq sent'
      BY <2>2, <2>3 DEF IInv, TypeOK
    <2>8. TypeOK'
      BY <2>4, <2>5, <2>6, <2>7 DEF IInv, TypeOK
    <2>9. BestOf(ctx)' /\ ctx'.list \subseteq sent'
      BY <2>6, <2>7 DEF IInv, BestOf
    <2> QED BY <2>5, <2>8, <2>9 DEF IInv
  <1>2. CASE CommitBranch
    <2>1. next + 1 \in 1 .. Width + 1
      BY <1>2, WidthAssumption DEF CommitBranch, IInv, TypeOK
    <2>2. ctx \in ContextType /\ BestOf(ctx)
      BY DEF IInv, TypeOK
    <2>3. ctx' \in ContextType /\ BestOf(ctx') /\ ctx'.list \subseteq sent
      <3>1. CASE <<attempt, next>> \in sent
        <4>1. <<attempt, next>> \in Branches
          BY <3>1 DEF IInv, TypeOK
        <4>2. ctx' = Register(ctx, <<attempt, next>>)
          BY <1>2, <3>1 DEF CommitBranch
        <4> QED BY <2>2, <3>1, <4>1, <4>2, MarksKeep DEF IInv
      <3>2. CASE <<attempt, next>> \notin sent
        BY <1>2, <2>2, <3>2 DEF CommitBranch, IInv
      <3> QED BY <3>1, <3>2
    <2>4. late' \subseteq Branches
      BY <1>2 DEF CommitBranch, IInv, TypeOK
    <2> QED BY <1>2, <2>1, <2>3, <2>4 DEF CommitBranch, IInv, TypeOK
  <1>3. CASE OpenContext
    <2> DEFINE committed == ctx.list \cap Current
    <2>1. ctx \in ContextType /\ BestOf(ctx) /\ attempt \in 1 .. Attempts
      BY <1>3 DEF OpenContext, IInv, TypeOK
    <2>2. CASE committed = {}
      BY <1>3, <2>1, <2>2 DEF OpenContext, IInv, TypeOK
    <2>3. CASE committed # {}
      <3>1. ctx' = [ctx EXCEPT !.expected = Cardinality(committed), !.done = 0, !.flag = "0"]
            /\ upstream' = upstream
        BY <1>3, <2>3 DEF OpenContext
      <3>2. Cardinality(committed) \in Nat
        <4>1. committed \subseteq Branches
          BY <2>1 DEF Current
        <4>2. IsFiniteSet(Branches)
          <5>1. IsFiniteSet(1 .. Attempts) /\ IsFiniteSet(1 .. Width)
            BY WidthAssumption, AttemptsAssumption, FS_Interval
          <5> QED BY <5>1, FS_Product DEF Branches
        <4> QED BY <4>1, <4>2, FS_Subset, FS_CardinalityType
      <3> HIDE DEF committed
      <3>3. /\ ctx' \in ContextType /\ ctx'.list = ctx.list
            /\ ctx'.resp = ctx.resp /\ ctx'.best = ctx.best
        BY <2>1, <3>1, <3>2 DEF ContextType
      <3>4. BestOf(ctx')
        BY <2>1, <3>3 DEF BestOf
      <3> QED BY <1>3, <3>1, <3>3, <3>4 DEF OpenContext, IInv, TypeOK
    <2> QED BY <2>2, <2>3
  <1>4. CASE CallerCancels
    <2> DEFINE gone == ToCancel(ctx, NoBranch)
    <2>1. ctx' = Cancelled(ctx, gone) /\ SendCancels(gone) /\ sent' = sent
      BY <1>4 DEF CallerCancels
    <2>2. gone \subseteq ctx.list
      BY DEF ToCancel
    <2> HIDE DEF gone
    <2>3. ctx \in ContextType /\ BestOf(ctx)
      BY DEF IInv, TypeOK
    <2>4. <<1, 1>> \in Branches
      BY WidthAssumption, AttemptsAssumption DEF Branches
    <2>5. ctx' \in ContextType /\ BestOf(ctx') /\ ctx'.list = ctx.list
      BY <2>1, <2>3, <2>4, MarksKeep
    <2>6. cancelTxn' \subseteq cancelSent' /\ cancelSent' \subseteq sent'
      BY <2>1, <2>2, CancelsSent
    <2> QED BY <1>4, <2>5, <2>6 DEF CallerCancels, IInv, TypeOK
  <1> QED BY <1>1, <1>2, <1>3, <1>4

\* Whatever happens on a branch, the invariant is kept.
LEMMA BranchKeeps ==
  ASSUME IInv, NEW b \in Branches, Branch(b)
  PROVE  IInv'
  <1>1. CASE Answer(b)
    BY <1>1 DEF Answer, IInv, TypeOK, Codes
  <1>2. CASE Success(b)
    <2>1. Wins(b) /\ sent' = sent
      BY <1>2 DEF Success
    <2>2. <<b[1], 200>> \in (1 .. Attempts) \X (Codes \cup {503})
      BY DEF Branches, Codes
    <2> QED BY <1>2, <2>1, <2>2, WinsKeeps DEF Success, IInv, TypeOK
  <1>3. CASE Failure(b)
    BY <1>3, FailureKeeps
  <1>4. CASE Timeout(b)
    BY <1>4, TimeoutKeeps
  <1>5. CASE CancelAnswered(b)
    <2>1. CASE b \in cancelTxn
      BY <1>5, <2>1 DEF CancelAnswered, IInv, TypeOK
    <2>2. CASE b \notin cancelTxn
      <3>1. Wins(b) /\ sent' = sent
        BY <1>5, <2>2 DEF CancelAnswered
      <3> QED BY <1>5, <3>1, WinsKeeps DEF CancelAnswered, IInv, TypeOK
    <2> QED BY <2>1, <2>2
  <1>6. CASE CancelExpires(b)
    BY <1>6 DEF CancelExpires, IInv, TypeOK
  <1> QED BY <1>1, <1>2, <1>3, <1>4, <1>5, <1>6 DEF Branch

\* The inductive invariant holds in every reachable state.
LEMMA InvariantAlways == Spec => []IInv
  <1>1. Init => IInv
    <2> SUFFICES ASSUME Init PROVE IInv
      OBVIOUS
    <2>1. ctx \in ContextType /\ BestOf(ctx) /\ ctx.list = {}
      BY DEF Init, NoContext, ContextType, BestOf
    <2>2. 1 \in 1 .. Width + 1 /\ 0 \in 0 .. Attempts
      BY WidthAssumption, AttemptsAssumption
    <2> QED BY <2>1, <2>2 DEF Init, IInv, TypeOK
  <1>2. IInv /\ [Next]_vars => IInv'
    <2> SUFFICES ASSUME IInv, [Next]_vars PROVE IInv'
      OBVIOUS
    <2>1. CASE UNCHANGED vars
      BY <2>1 DEF vars, IInv, TypeOK, BestOf
    <2>2. CASE Next
      BY <2>2, RequestKeeps, BranchKeeps DEF Next
    <2> QED BY <2>1, <2>2
  <1> QED BY <1>1, <1>2, PTL DEF Spec

\* The state is always well formed: no CANCEL goes out on a branch that was
\* never sent and every final the caller gets is one some branch ended with.
THEOREM TypeCorrect == Spec => []TypeOK
  <1>1. IInv => TypeOK
    BY DEF IInv
  <1> QED BY <1>1, InvariantAlways, PTL

\* For any number of requests and branches and any order, repetition and
\* loss of their finals, also while another worker still commits branches,
\* sip_fork_collect_response keeps the best final of the group.
THEOREM BestAlways == Spec => []BestIsBest
  <1>1. IInv => BestIsBest
    BY BestIsBestOf DEF IInv, TypeOK
  <1> QED BY <1>1, InvariantAlways, PTL

---------------------------------------------------------------------------
(* The losers are cancelled, for any number of requests and workers: the   *)
(* selection cancels every pending branch of the list, and only a branch   *)
(* registered after it can be pending again.                               *)

\* sip_fork_mark_cancelled ends the waiting for branches.
LEMMA CancelledMarks ==
  ASSUME NEW c \in ContextType, NEW gone
  PROVE  /\ Cancelled(c, gone).pending = c.pending \ gone
         /\ Cancelled(c, gone).list = c.list /\ Cancelled(c, gone).selected = c.selected
  BY DEF Cancelled, ContextType

\* sip_fork_collect_response leaves list and winner alone.
LEMMA CollectMarks ==
  ASSUME NEW c \in ContextType, NEW b \in Branches, NEW code
  PROVE  /\ Collect(c, b, code).pending \subseteq c.pending
         /\ Collect(c, b, code).list = c.list /\ Collect(c, b, code).selected = c.selected
  <1>1. CASE c.resp[b] # NoCode
    BY <1>1 DEF Collect
  <1>2. CASE c.resp[b] = NoCode
    <2>1. Collect(c, b, code) =
             [c EXCEPT !.resp[b] = code,
                       !.pending = c.pending \ {b},
                       !.done = c.done + 1,
                       !.best = IF Better(code, BestCode(c)) THEN b ELSE c.best,
                       !.flag = IF c.done + 1 >= c.expected \/ code >= 600 THEN "1" ELSE c.flag]
      BY <1>2 DEF Collect
    <2> QED BY <2>1 DEF ContextType
  <1> QED BY <1>1, <1>2

\* sip_fork_mark_selected names a winner once.
LEMMA SelectMarks ==
  ASSUME NEW c \in ContextType, NEW b
  PROVE  /\ Select(c, b).pending = c.pending /\ Select(c, b).list = c.list
         /\ Select(c, b).selected = IF c.selected = NoBranch THEN b ELSE c.selected
  BY DEF Select, ContextType

\* sip_fork_register_branch makes one branch pending, and lists no other.
LEMMA RegisterMarks ==
  ASSUME NEW c \in ContextType, NEW b
  PROVE  /\ Register(c, b).pending = c.pending \cup {b}
         /\ Register(c, b).list \subseteq c.list \cup {b}
         /\ Register(c, b).selected = c.selected
  BY DEF Register, ContextType

\* Fewer pending branches, in the same list with the same winner.
LEMMA FewerPending ==
  ASSUME CancelledUnlessLate, late' = late, ctx'.pending \subseteq ctx.pending,
         ctx'.list = ctx.list, ctx'.selected = ctx.selected
  PROVE  CancelledUnlessLate'
  BY DEF CancelledUnlessLate

\* The first 2xx selects its branch and cancels every other that is listed.
LEMMA WinsCancels ==
  ASSUME IInv, CancelledUnlessLate, NEW b \in Branches, Wins(b), late' = late
  PROVE  CancelledUnlessLate'
  <1> DEFINE gone == ToCancel(ctx, b)
  <1>1. ctx \in ContextType
    BY DEF IInv, TypeOK
  <1>2. CASE b \in ctx.branch /\ ctx.selected = NoBranch
    <2>1. ctx' = Cancelled(Select(ctx, b), gone)
      BY <1>2 DEF Wins
    <2>2. Select(ctx, b) \in ContextType
      BY <1>1, MarksKeep DEF IInv
    <2>3. /\ ctx'.pending = ctx.pending \ gone /\ ctx'.list = ctx.list
          /\ ctx'.selected = b
      BY <1>1, <1>2, <2>1, <2>2, CancelledMarks, SelectMarks
    <2>4. (ctx.pending \ gone) \cap ctx.list \subseteq {b}
      BY DEF ToCancel
    <2> QED BY <2>3, <2>4 DEF CancelledUnlessLate
  <1>3. CASE ~(b \in ctx.branch /\ ctx.selected = NoBranch)
    BY <1>3, FewerPending DEF Wins
  <1> QED BY <1>2, <1>3

\* Every step keeps the losers cancelled.
LEMMA NextCancelled ==
  ASSUME IInv, CancelledUnlessLate, [Next]_vars
  PROVE  CancelledUnlessLate'
  <1>0. ctx \in ContextType
    BY DEF IInv, TypeOK
  <1>1. CASE SendRequest
    BY <1>1, FewerPending DEF SendRequest
  <1>2. CASE CommitBranch
    <2> DEFINE b == <<attempt, next>>
    <2>1. CASE b \in sent
      <3>1. /\ ctx' = Register(ctx, b)
            /\ late' = IF ctx.selected = NoBranch THEN late ELSE late \cup {b}
        BY <1>2, <2>1 DEF CommitBranch
      <3> HIDE DEF b
      <3>2. /\ ctx'.pending = ctx.pending \cup {b} /\ ctx'.list \subseteq ctx.list \cup {b}
            /\ ctx'.selected = ctx.selected
        BY <1>0, <3>1, RegisterMarks
      <3>3. ASSUME ctx.selected # NoBranch,
                   NEW a \in Branches, a \in ctx'.pending, a \in ctx'.list
            PROVE  a \in {ctx'.selected} \cup late'
        BY <3>1, <3>2, <3>3 DEF CancelledUnlessLate
      <3>4. ctx'.pending \subseteq Branches
        BY <2>1, <3>2, <1>0 DEF IInv, TypeOK, ContextType
      <3> QED BY <3>2, <3>3, <3>4 DEF CancelledUnlessLate
    <2>2. CASE b \notin sent
      BY <1>2, <2>2, FewerPending DEF CommitBranch
    <2> QED BY <2>1, <2>2
  <1>3. CASE OpenContext
    <2>1. ctx'.list = ctx.list /\ ctx'.pending = ctx.pending /\ ctx'.selected = ctx.selected
      BY <1>0, <1>3 DEF OpenContext, ContextType
    <2> QED BY <1>3, <2>1, FewerPending DEF OpenContext
  <1>4. CASE CallerCancels
    <2>1. ctx' = Cancelled(ctx, ToCancel(ctx, NoBranch)) /\ late' = late
      BY <1>4 DEF CallerCancels
    <2>2. ctx'.pending \subseteq ctx.pending /\ ctx'.list = ctx.list /\ ctx'.selected = ctx.selected
      BY <1>0, <2>1, CancelledMarks
    <2> QED BY <2>1, <2>2, FewerPending
  <1>5. ASSUME NEW b \in Branches, Success(b) PROVE CancelledUnlessLate'
    BY <1>5, WinsCancels DEF Success
  <1>6. ASSUME NEW b \in Branches, Failure(b) PROVE CancelledUnlessLate'
    <2> DEFINE gone == IF answer[b] >= 600 THEN ToCancel(ctx, b) ELSE {}
               before == Cancelled(ctx, gone)
    <2>1. late' = late /\ (ctx' = Collect(before, b, answer[b]) \/ ctx' = ctx)
      BY <1>6 DEF Failure
    <2> HIDE DEF gone
    <2>2. before \in ContextType
      BY <1>0, MarksKeep DEF IInv
    <2>3. /\ before.pending \subseteq ctx.pending /\ before.list = ctx.list
          /\ before.selected = ctx.selected
      BY <1>0, CancelledMarks
    <2> HIDE DEF before
    <2>4. /\ Collect(before, b, answer[b]).pending \subseteq before.pending
          /\ Collect(before, b, answer[b]).list = before.list
          /\ Collect(before, b, answer[b]).selected = before.selected
      BY <2>2, CollectMarks
    <2>5. ctx'.pending \subseteq ctx.pending /\ ctx'.list = ctx.list /\ ctx'.selected = ctx.selected
      BY <2>1, <2>3, <2>4
    <2> QED BY <2>1, <2>5, FewerPending
  <1>7. ASSUME NEW b \in Branches, Timeout(b) PROVE CancelledUnlessLate'
    <2>1. /\ late' = late
          /\ (ctx' = Collect(ctx, b, IF cancelMark THEN 487 ELSE 408) \/ ctx' = ctx)
      BY <1>7 DEF Timeout
    <2>2. ctx'.pending \subseteq ctx.pending /\ ctx'.list = ctx.list /\ ctx'.selected = ctx.selected
      BY <1>0, <2>1, CollectMarks
    <2> QED BY <2>1, <2>2, FewerPending
  <1>8. ASSUME NEW b \in Branches, CancelAnswered(b) PROVE CancelledUnlessLate'
    <2>1. late' = late /\ (ctx' = ctx \/ Wins(b))
      BY <1>8 DEF CancelAnswered
    <2> QED BY <2>1, WinsCancels, FewerPending
  <1>9. ASSUME NEW b \in Branches, Answer(b) \/ CancelExpires(b) PROVE CancelledUnlessLate'
    <2>1. UNCHANGED <<ctx, late>>
      BY <1>9 DEF Answer, CancelExpires
    <2> QED BY <2>1, FewerPending
  <1>10. CASE UNCHANGED vars
    BY <1>10, FewerPending DEF vars
  <1> QED BY <1>1, <1>2, <1>3, <1>4, <1>5, <1>6, <1>7, <1>8, <1>9, <1>10 DEF Next, Branch

\* sip_forwarding.mko: "after a fork produces a 2xx, cancel all still-pending
\* branches".  For any number of requests and targets and with other workers
\* in the context, what stays pending in the list was registered afterwards.
THEOREM CancelledUnlessLateAlways == Spec => []CancelledUnlessLate
  <1>1. Init => CancelledUnlessLate
    BY DEF Init, NoContext, CancelledUnlessLate
  <1>2. IInv /\ CancelledUnlessLate /\ [Next]_vars => CancelledUnlessLate'
    BY NextCancelled
  <1> QED BY <1>1, <1>2, InvariantAlways, PTL DEF Spec

=============================================================================
