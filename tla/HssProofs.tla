----------------------------- MODULE HssProofs -----------------------------
(***************************************************************************)
(* Proofs about Hss, for any number of connections, slots, subscribers,    *)
(* requests and changes.                                                   *)
(*                                                                         *)
(* The inductive invariant behind Honest: what the table says now of the   *)
(* identities of a request at work has been seen; the state of the object  *)
(* the request found has been seen, although the object may have left the  *)
(* table; and an object that is still in the table is there under          *)
(* identities the request asked for, so that who changes it in place       *)
(* changes what the request sees.                                          *)
(***************************************************************************)
EXTENDS Hss, TLAPS, FiniteSetTheorems, SequenceTheorems

Past == Handling \ {"lookup", "check"}

SeenNow(t) == req[t] # None => Look(req[t]) \subseteq seen[t]
RefSeen(t) == ref[t] # None => State(ref[t]) \in seen[t]
RefNamed(t) ==
    ref[t] # None => \A k \in Keys : items[k] = ref[t] => Named(req[t].public, Private(req[t]), k)
SeenEnabled(t) ==
    /\ req[t] # None /\ req[t].cmd \in Cx
    /\ pc[t] \in Past \/ (ans[t] # None /\ ans[t].result = "success")
    => \E v \in seen[t] : v.enabled
SeenServer(t) ==
    ans[t] # None /\ ans[t].server # None /\ req[t] # None
       => \E v \in seen[t] : v.server = ans[t].server
Told(t) == SeenNow(t) /\ RefSeen(t) /\ RefNamed(t) /\ SeenEnabled(t) /\ SeenServer(t)

\* no two pairs share an object
Apart == \A k, m \in Keys : items[k] # None /\ items[k] = items[m] => k = m

Inv == TypeOK /\ Stages /\ Apart /\ \A t \in Threads : Told(t)

---------------------------------------------------------------------------
(* The store *)

\* the places of a thread and their parts
LEMMA PlacesKnown ==
    /\ Handling \subseteq Places /\ InService \subseteq Places
    /\ Handling \subseteq InService
    /\ {"handshake", "read", "send", "leaving", "closed"} \subseteq Places
BY DEF Places, InService, Handling

\* what find returns is of a pair that was asked for
LEMMA FindNamed ==
    ASSUME StoreTypeOK, NEW public \in Publics, NEW private \in Privates \cup {None},
           NEW o \in find(public, private)
    PROVE /\ o \in Objs \cup {None}
          /\ o # None => \E k \in Keys : items[k] = o /\ Named(public, private, k)
<1>1. CASE private # None
  <2>1. <<public, private>> \in Keys /\ o = items[<<public, private>>]
    BY <1>1 DEF find, Keys
  <2> QED BY <1>1, <2>1 DEF Named, StoreTypeOK
<1>2. CASE private = None
  <2>1. CASE Oldest(public) = {}
    BY <1>2, <2>1 DEF find
  <2>2. CASE Oldest(public) # {}
    <3>1. PICK k \in Oldest(public) : o = items[k]
      BY <1>2, <2>2 DEF find
    <3>2. k \in Keys /\ k[1] = public
      BY <3>1 DEF Oldest, First, StoreTypeOK
    <3> QED BY <1>2, <3>1, <3>2 DEF Named, StoreTypeOK
  <2> QED BY <2>1, <2>2
<1> QED BY <1>1, <1>2

\* every operation of the store keeps it well formed
LEMMA StoreTypes ==
    ASSUME StoreTypeOK
    PROVE /\ \A d \in DocumentType : \A inUse : provision(d, inUse) => StoreTypeOK'
          /\ \A public \in Publics : remove(public) => StoreTypeOK'
          /\ \A public \in Publics, v \in BOOLEAN : set_enabled(public, v) => StoreTypeOK'
          /\ \A public \in Publics, u \in Updates : update(public, u) => StoreTypeOK'
<1>1. ASSUME NEW d \in DocumentType, NEW inUse, provision(d, inUse) PROVE StoreTypeOK'
  <2>1. <<d.public, d.private>> \in Keys /\ d.server \in Servers /\ d.enabled \in BOOLEAN
           /\ d.profile \in SUBSET ProfileKeys
    BY DEF DocumentType, Keys
  <2>2. Lowest(Unused(inUse)) \subseteq Objs
    BY DEF Lowest, Unused
  <2> QED BY <1>1, <2>1, <2>2 DEF provision, StoreTypeOK
<1>2. ASSUME NEW public \in Publics, remove(public) PROVE StoreTypeOK'
  <2>1. PICK i \in First(public) : /\ items' = [items EXCEPT ![order[i]] = None]
                                   /\ order' = RemoveAt(order, i)
    BY <1>2 DEF remove
  <2>2. i \in 1 .. Len(order) /\ order[i] \in Keys
    BY <2>1 DEF First, StoreTypeOK
  <2>3. SubSeq(order, 1, i - 1) \in Seq(Keys) /\ SubSeq(order, i + 1, Len(order)) \in Seq(Keys)
    BY <2>2, SubSeqProperties DEF StoreTypeOK
  <2>4. order' \in Seq(Keys)
    BY <2>1, <2>3, ConcatProperties DEF RemoveAt
  <2> QED BY <1>2, <2>1, <2>2, <2>4 DEF remove, StoreTypeOK
<1>3. ASSUME NEW public \in Publics, NEW v \in BOOLEAN, set_enabled(public, v) PROVE StoreTypeOK'
  BY <1>3, FindNamed DEF set_enabled, StoreTypeOK
<1>4. ASSUME NEW public \in Publics, NEW u \in Updates, update(public, u) PROVE StoreTypeOK'
  <2>1. /\ Given(u.server) => u.server \in Servers
        /\ Given(u.profile) => u.profile \in SUBSET ProfileKeys
        /\ Given(u.enabled) => u.enabled \in BOOLEAN
    BY InputsAssumption DEF Given
  <2> QED BY <1>4, <2>1, FindNamed DEF update, StoreTypeOK
<1> QED BY <1>1, <1>2, <1>3, <1>4

---------------------------------------------------------------------------
(* Steps of one thread, which leave the table as it is *)

Staged(t) ==
    /\ pc[t] \in Handling => req[t] # None
    /\ pc[t] \in Past => ref[t] # None
    /\ ref[t] # None => req[t] # None
    /\ ans[t] # None => pc[t] = "send"
    /\ req[t] # None => pc[t] \in Handling \cup {"send"}

\* Stages, thread by thread
LEMMA StagesParts == Stages <=> \A t \in Threads : Staged(t)
BY DEF Stages, Staged, Past

\* what the table says depends on items, server and enabled alone
LEMMA LookSame ==
    ASSUME items' = items, server' = server, enabled' = enabled
    PROVE \A r : Look(r)' = Look(r)
BY DEF Look, Visible, Provisioned, State

SameThread(s) ==
    /\ pc'[s] = pc[s] /\ req'[s] = req[s] /\ ref'[s] = ref[s] /\ ans'[s] = ans[s]
    /\ seen'[s] = seen[s]

\* what a thread knows is not touched by the steps of the others
LEMMA OthersKept ==
    ASSUME Inv, NEW t, items' = items, server' = server, enabled' = enabled,
           \A s \in Threads \ {t} : SameThread(s),
           t \in Threads => Told(t)' /\ Staged(t)'
    PROVE Stages' /\ Apart' /\ \A s \in Threads : Told(s)'
<1>1. ASSUME NEW s \in Threads, s # t PROVE Told(s)' /\ Staged(s)'
  <2> USE <1>1
  <2>0. Told(s) /\ Staged(s) /\ SameThread(s)
    BY StagesParts DEF Inv
  <2>1. SeenNow(s)'
    BY <2>0, LookSame DEF Told, SeenNow, SameThread
  <2>2. RefSeen(s)' /\ RefNamed(s)'
    BY <2>0 DEF Told, RefSeen, RefNamed, State, SameThread, Named, Private
  <2>3. SeenEnabled(s)' /\ SeenServer(s)'
    BY <2>0 DEF Told, SeenEnabled, SeenServer, SameThread
  <2>4. Staged(s)'
    BY <2>0 DEF Staged, SameThread
  <2> QED BY <2>1, <2>2, <2>3, <2>4 DEF Told
<1>2. \A s \in Threads : Told(s)' /\ Staged(s)'
  BY <1>1
<1>3. Stages'
  BY <1>2 DEF Stages, Staged, Past
<1>4. Apart'
  BY DEF Inv, Apart
<1> QED BY <1>2, <1>3, <1>4

\* the fields of a request have their types
LEMMA FieldTypes ==
    ASSUME NEW r \in RequestType
    PROVE /\ r.public \in Publics /\ Private(r) \in Privates \cup {None}
          /\ r.private \in Privates \cup {None} /\ r.auts \in Rands \cup {None, Bad}
          /\ r.keys \in {None, Bad} \cup SUBSET ProfileKeys
BY DEF RequestType, Private

\* what the table says is a set of states
LEMMA LookType ==
    ASSUME StoreTypeOK, NEW r \in RequestType
    PROVE Look(r) \subseteq States
<1>1. \A k \in Provisioned : State(items[k]) \in States
  BY DEF Provisioned, StoreTypeOK, State, States
<1> QED BY <1>1 DEF Look, Visible

\* a step that leaves the store alone keeps it well formed
LEMMA StoreUnchanged == StoreTypeOK /\ UNCHANGED storeVars => StoreTypeOK'
BY DEF StoreTypeOK, storeVars

\* the steps of a connection between two requests
LEMMA BetweenSteps ==
    ASSUME Inv, NEW t \in Conns, Accept(t) \/ Join(t) \/ Leave(t) \/ ReadFails(t) \/ Malformed(t)
    PROVE Inv'
<1>0. t \in Threads
  BY DEF Threads
<1>1. PICK place \in {"handshake", "leaving", "read", "closed"} :
         /\ pc' = [pc EXCEPT ![t] = place]
         /\ pc[t] \in {"closed", "handshake", "leaving", "read"}
         /\ UNCHANGED <<storeVars, req, ref, ans, iter, seen>>
  BY DEF Accept, Join, Leave, ReadFails, Malformed, Goto, LoopOrLeave
<1>2. Staged(t) /\ Told(t)
  BY <1>0, StagesParts DEF Inv
<1>3. req[t] = None /\ ref[t] = None /\ ans[t] = None
  BY <1>1, <1>2 DEF Staged, Handling
<1>4. Staged(t)' /\ Told(t)'
  <2>1. req'[t] = None /\ ref'[t] = None /\ ans'[t] = None /\ pc'[t] = place
    BY <1>0, <1>1, <1>3 DEF Inv, TypeOK, ThreadTypeOK
  <2>2. Staged(t)'
    BY <2>1 DEF Staged, Handling, Past
  <2>3. Told(t)'
    BY <2>1 DEF Told, SeenNow, RefSeen, RefNamed, SeenEnabled, SeenServer
  <2> QED BY <2>2, <2>3
<1>5. Stages' /\ Apart' /\ \A s \in Threads : Told(s)'
  <2>1. \A s \in Threads \ {t} : SameThread(s)
    BY <1>1 DEF SameThread, Inv, TypeOK, ThreadTypeOK
  <2>2. items' = items /\ server' = server /\ enabled' = enabled
    BY <1>1 DEF storeVars
  <2> QED BY <1>4, <2>1, <2>2, OthersKept
<1>6. StoreTypeOK' /\ ThreadTypeOK'
  <2>1. place \in Places
    BY PlacesKnown, <1>1
  <2> QED BY <1>0, <1>1, <2>1, StoreUnchanged DEF Inv, TypeOK, ThreadTypeOK
<1>7. AppTypeOK'
  <2>1. UNCHANGED <<appVars, bounds, stop>>
    BY DEF Accept, Join, Leave, ReadFails, Malformed, serverVars
  <2>2. slots' \in Nat
    BY DEF Accept, Join, Leave, ReadFails, Malformed, serverVars, HasSlot, Inv, TypeOK, AppTypeOK
  <2>3. peers' \subseteq Conns
    BY DEF Accept, Join, Leave, ReadFails, Malformed, serverVars, Inv, TypeOK, AppTypeOK
  <2>4. push' \in {None} \cup SUBSET Conns
    BY DEF Accept, Join, Leave, ReadFails, Malformed, Inv, TypeOK, AppTypeOK
  <2> QED BY <2>1, <2>2, <2>3, <2>4 DEF Inv, TypeOK, AppTypeOK, appVars, bounds
<1> QED BY <1>5, <1>6, <1>7 DEF Inv, TypeOK

\* a request goes on to its next stage or gets its answer
LEMMA MoveStep ==
    ASSUME Inv, NEW t \in Threads, NEW place, NEW a,
           pc[t] \in Handling \ {"lookup"},
           pc' = [pc EXCEPT ![t] = place], ans' = [ans EXCEPT ![t] = a],
           UNCHANGED <<items, order, server, enabled, req, ref, seen>>,
           profile' \in [Objs -> SUBSET ProfileKeys],
           iter' \in [Threads -> {None} \cup SUBSET ProfileKeys],
           AppTypeOK',
           \/ place \in Past /\ a = None /\ ref[t] # None
           \/ place = "send" /\ a \in Answers,
           (place \in Past \/ a.result = "success") /\ pc[t] = "check" /\ req[t].cmd \in Cx
              => ref[t] # None /\ enabled[ref[t]],
           a # None /\ a.server # None => ref[t] # None /\ a.server = server[ref[t]]
    PROVE Inv'
<1>0. Staged(t) /\ Told(t) /\ TypeOK
  BY StagesParts DEF Inv
<1>1. pc'[t] = place /\ ans'[t] = a
  BY <1>0 DEF TypeOK, ThreadTypeOK
<1>2. \A s \in Threads \ {t} : SameThread(s)
  BY <1>0 DEF SameThread, TypeOK, ThreadTypeOK
<1>3. Staged(t)'
  BY <1>0, <1>1 DEF Staged, Past, Handling
<1>4. Told(t)'
  <2>1. SeenNow(t)'
    BY <1>0, LookSame DEF Told, SeenNow
  <2>2. RefSeen(t)' /\ RefNamed(t)'
    BY <1>0 DEF Told, RefSeen, RefNamed, State, Named, Private
  <2>3. SeenEnabled(t)'
    <3>1. SUFFICES ASSUME req[t] # None, req[t].cmd \in Cx,
                          place \in Past \/ (a # None /\ a.result = "success")
                   PROVE \E v \in seen[t] : v.enabled
      BY <1>1 DEF SeenEnabled
    <3>2. CASE pc[t] = "check"
      <4>1. ref[t] # None /\ enabled[ref[t]]
        BY <3>1, <3>2
      <4>2. State(ref[t]) \in seen[t] /\ State(ref[t]).enabled
        BY <4>1, <1>0 DEF Told, RefSeen, State
      <4> QED BY <4>2
    <3>3. CASE pc[t] # "check"
      BY <3>1, <3>3, <1>0 DEF Told, SeenEnabled, Past
    <3> QED BY <3>2, <3>3
  <2>4. SeenServer(t)'
    <3>1. SUFFICES ASSUME a # None, a.server # None PROVE \E v \in seen[t] : v.server = a.server
      BY <1>1 DEF SeenServer
    <3>2. State(ref[t]) \in seen[t] /\ State(ref[t]).server = a.server
      BY <3>1, <1>0 DEF Told, RefSeen, State
    <3> QED BY <3>2
  <2> QED BY <2>1, <2>2, <2>3, <2>4 DEF Told
<1>5. Stages' /\ Apart' /\ \A s \in Threads : Told(s)'
  BY <1>2, <1>3, <1>4, OthersKept
<1>6. StoreTypeOK'
  BY <1>0 DEF TypeOK, StoreTypeOK
<1>7. ThreadTypeOK'
  <2>1. place \in Places /\ a \in {None} \cup Answers
    BY PlacesKnown DEF Past
  <2> QED BY <2>1, <1>0 DEF TypeOK, ThreadTypeOK
<1> QED BY <1>5, <1>6, <1>7 DEF Inv, TypeOK

LEMMA ResultTypes ==
    /\ \A r \in {"success", "unknown", "unsupported"} :
          Result(r) \in Answers /\ Result(r).server = None /\ Result(r).result = r
    /\ \A s \in Servers : WithServer(s) \in Answers /\ WithServer(s).server = s
BY DEF Result, WithServer, Answers

LEMMA CheckSteps ==
    ASSUME Inv, NEW t \in Threads, Check(t) \/ Match(t) \/ AnswerServer(t)
    PROVE Inv'
<1>0. Staged(t) /\ TypeOK
  BY StagesParts DEF Inv
<1>1. UNCHANGED <<items, order, server, enabled, profile, req, ref, seen, iter>>
  BY DEF Check, Match, AnswerServer, storeVars
<1>2. AppTypeOK'
  BY <1>0 DEF Check, Match, AnswerServer, serverVars, appVars, bounds, AppTypeOK, TypeOK
<1>3. profile' \in [Objs -> SUBSET ProfileKeys] /\ iter' \in [Threads -> {None} \cup SUBSET ProfileKeys]
  BY <1>0, <1>1 DEF TypeOK, StoreTypeOK, ThreadTypeOK
<1>4. CASE Check(t)
  <2>1. CASE Served(t)
    <3>1. /\ pc' = [pc EXCEPT ![t] = "match"] /\ ans' = [ans EXCEPT ![t] = None]
          /\ pc[t] = "check" /\ "match" \in Past
      BY <1>4, <2>1, <1>0 DEF Check, Goto, Staged, TypeOK, ThreadTypeOK, Past, Handling
    <3> QED BY <3>1, <2>1, <1>1, <1>2, <1>3, MoveStep DEF Served, Handling
  <2>2. CASE ~ Served(t)
    <3>1. /\ pc' = [pc EXCEPT ![t] = "send"] /\ ans' = [ans EXCEPT ![t] = Result("unknown")]
          /\ pc[t] = "check" /\ "send" \notin Past
      BY <1>4, <2>2 DEF Check, Finish, Goto, Past, Handling
    <3> QED BY <3>1, <1>1, <1>2, <1>3, MoveStep, ResultTypes DEF Handling
  <2> QED BY <2>1, <2>2
<1>5. CASE Match(t)
  <2>0. pc[t] = "match" /\ pc[t] \in Handling \ {"lookup"} /\ ref[t] # None /\ ans[t] = None
    BY <1>5, <1>0 DEF Match, Staged, Past, Handling
  <2>1. CASE Mismatch(t)
    <3>1. /\ pc' = [pc EXCEPT ![t] = "send"] /\ ans' = [ans EXCEPT ![t] = Result("unknown")]
      BY <1>5, <2>1 DEF Match, Finish, Goto
    <3> QED BY <2>0, <3>1, <1>1, <1>2, <1>3, MoveStep, ResultTypes
  <2>2. CASE ~ Mismatch(t)
    <3>1. /\ pc' = [pc EXCEPT ![t] = "answer"] /\ ans' = [ans EXCEPT ![t] = None]
          /\ "answer" \in Past
      BY <1>5, <2>2, <2>0, <1>0 DEF Match, Goto, TypeOK, ThreadTypeOK, Past, Handling
    <3> QED BY <2>0, <3>1, <1>1, <1>2, <1>3, MoveStep
  <2> QED BY <2>1, <2>2
<1>6. CASE AnswerServer(t)
  <2>0. pc[t] = "answer" /\ pc[t] \in Handling \ {"lookup"} /\ ref[t] # None
    BY <1>6, <1>0 DEF AnswerServer, Staged, Past, Handling
  <2>1. /\ pc' = [pc EXCEPT ![t] = "send"] /\ ans' = [ans EXCEPT ![t] = WithServer(server[ref[t]])]
    BY <1>6 DEF AnswerServer, Finish, Goto
  <2>2. server[ref[t]] \in Servers
    BY <2>0, <1>0 DEF TypeOK, ThreadTypeOK, StoreTypeOK
  <2> QED BY <2>0, <2>1, <2>2, <1>1, <1>2, <1>3, MoveStep, ResultTypes
<1> QED BY <1>4, <1>5, <1>6

LEMMA MarSteps ==
    ASSUME Inv, NEW t \in Threads, AnswerMar(t) \/ Resync(t) \/ Issue(t)
    PROVE Inv'
<1>0. Staged(t) /\ TypeOK
  BY StagesParts DEF Inv
<1>1. UNCHANGED <<items, order, server, enabled, profile, req, ref, seen, iter>>
  BY DEF AnswerMar, Resync, Issue, storeVars
<1>2. /\ pc[t] \in Handling \ {"lookup", "check"} /\ ref[t] # None /\ ans[t] = None
      /\ req[t] \in RequestType
  BY <1>0 DEF AnswerMar, Resync, Issue, Staged, Past, Handling, TypeOK, ThreadTypeOK
<1>3. profile' \in [Objs -> SUBSET ProfileKeys] /\ iter' \in [Threads -> {None} \cup SUBSET ProfileKeys]
  BY <1>0, <1>1 DEF TypeOK, StoreTypeOK, ThreadTypeOK
<1>4. AppTypeOK'
  <2>1. CASE AnswerMar(t) \/ Resync(t)
    BY <2>1, <1>0 DEF AnswerMar, Resync, serverVars, appVars, bounds, AppTypeOK, TypeOK
  <2>2. CASE Issue(t)
    <3>1. /\ lastRand' \in [Privates -> Rands \cup {None}]
          /\ issued' \in [Privates -> SUBSET Rands]
      BY <2>2, <1>0, <1>2, FieldTypes DEF Issue, AppTypeOK, TypeOK
    <3> QED BY <2>2, <3>1, <1>0 DEF Issue, serverVars, bounds, AppTypeOK, TypeOK
  <2> QED BY <2>1, <2>2
<1>5. ASSUME pc' = [pc EXCEPT ![t] = "issue"] \/ pc' = [pc EXCEPT ![t] = "resync"], ans' = ans
      PROVE Inv'
  <2>1. "issue" \in Past /\ "resync" \in Past /\ ans' = [ans EXCEPT ![t] = None]
    BY <1>0, <1>2, <1>5 DEF Past, Handling, TypeOK, ThreadTypeOK
  <2> QED BY <2>1, <1>1, <1>2, <1>3, <1>4, <1>5, MoveStep
<1>6. ASSUME NEW a \in Answers, a.server = None,
             pc' = [pc EXCEPT ![t] = "send"], ans' = [ans EXCEPT ![t] = a]
      PROVE Inv'
  BY <1>1, <1>2, <1>3, <1>4, <1>6, MoveStep
<1>7. CASE AnswerMar(t) \/ Resync(t)
  BY <1>5, <1>6, <1>7, ResultTypes DEF AnswerMar, Resync, Goto, Finish
<1>8. CASE Issue(t)
  <2> DEFINE a == [Result("success") EXCEPT !.auts = req[t].auts]
  <2>1. a \in Answers /\ a.server = None
    BY <1>2, FieldTypes DEF Result, Answers
  <2>2. pc' = [pc EXCEPT ![t] = "send"] /\ ans' = [ans EXCEPT ![t] = a]
    BY <1>8 DEF Issue, Finish, Goto
  <2> HIDE DEF a
  <2> QED BY <2>1, <2>2, <1>6
<1> QED BY <1>7, <1>8

LEMMA ShSteps ==
    ASSUME Inv, NEW t \in Threads, AnswerUdr(t) \/ AnswerPur(t) \/ AnswerSnr(t)
    PROVE Inv'
<1>0. Staged(t) /\ TypeOK
  BY StagesParts DEF Inv
<1>1. UNCHANGED <<items, order, server, enabled, req, ref, seen>>
  BY DEF AnswerUdr, AnswerPur, AnswerSnr, storeVars
<1>2. /\ pc[t] \in Handling \ {"lookup", "check"} /\ ref[t] \in Objs /\ ref[t] # None
      /\ req[t] \in RequestType /\ ans[t] = None
  BY <1>0 DEF AnswerUdr, AnswerPur, AnswerSnr, Staged, Past, Handling, TypeOK, ThreadTypeOK
<1>3. CASE AnswerUdr(t)
  <2>1. profile' \in [Objs -> SUBSET ProfileKeys]
    BY <1>3, <1>0 DEF AnswerUdr, storeVars, TypeOK, StoreTypeOK
  <2>2. iter' \in [Threads -> {None} \cup SUBSET ProfileKeys]
    BY <1>3, <1>0, <1>2 DEF AnswerUdr, TypeOK, StoreTypeOK, ThreadTypeOK
  <2>3. AppTypeOK'
    BY <1>3, <1>0 DEF AnswerUdr, serverVars, appVars, bounds, AppTypeOK, TypeOK
  <2>4. /\ pc' = [pc EXCEPT ![t] = "iterate"] /\ ans' = [ans EXCEPT ![t] = None]
        /\ "iterate" \in Past
    BY <1>0, <1>2, <1>3 DEF AnswerUdr, Goto, Past, Handling, TypeOK, ThreadTypeOK
  <2> QED BY <2>1, <2>2, <2>3, <2>4, <1>1, <1>2, MoveStep
<1>4. CASE AnswerPur(t)
  <2>1. profile' \in [Objs -> SUBSET ProfileKeys]
    <3>1. CASE req[t].keys \in {None, Bad}
      BY <1>4, <3>1, <1>0 DEF AnswerPur, TypeOK, StoreTypeOK
    <3>2. CASE req[t].keys \in SUBSET ProfileKeys /\ req[t].keys \notin {None, Bad}
      BY <1>4, <3>2, <1>0, <1>2 DEF AnswerPur, MergeProfile, TypeOK, StoreTypeOK
    <3> QED BY <3>1, <3>2, <1>2, FieldTypes
  <2>2. iter' \in [Threads -> {None} \cup SUBSET ProfileKeys]
    BY <1>4, <1>0 DEF AnswerPur, TypeOK, ThreadTypeOK
  <2>3. AppTypeOK'
    BY <1>4, <1>0 DEF AnswerPur, serverVars, appVars, bounds, AppTypeOK, TypeOK
  <2>4. PICK r \in {"success", "unsupported", "unknown"} :
           pc' = [pc EXCEPT ![t] = "send"] /\ ans' = [ans EXCEPT ![t] = Result(r)]
    BY <1>4 DEF AnswerPur, Goto, Finish
  <2> QED BY <2>1, <2>2, <2>3, <2>4, <1>1, <1>2, MoveStep, ResultTypes
<1>5. CASE AnswerSnr(t)
  <2>1. profile' \in [Objs -> SUBSET ProfileKeys]
    BY <1>5, <1>0 DEF AnswerSnr, storeVars, TypeOK, StoreTypeOK
  <2>2. iter' \in [Threads -> {None} \cup SUBSET ProfileKeys]
    BY <1>5, <1>0 DEF AnswerSnr, TypeOK, ThreadTypeOK
  <2>3. AppTypeOK'
    BY <1>5, <1>0, <1>2, FieldTypes DEF AnswerSnr, serverVars, bounds, AppTypeOK, TypeOK
  <2>4. pc' = [pc EXCEPT ![t] = "send"] /\ ans' = [ans EXCEPT ![t] = Result("success")]
    BY <1>5 DEF AnswerSnr, Goto, Finish
  <2> QED BY <2>1, <2>2, <2>3, <2>4, <1>1, <1>2, MoveStep, ResultTypes
<1> QED BY <1>3, <1>4, <1>5

\* a request comes: what the table says of it is seen
LEMMA BeginSteps ==
    ASSUME Inv, NEW t \in Threads, NEW r \in RequestType, r # None,
           Receive(t, r) \/ \E supplied \in Supplied : Authorize(t, r, supplied)
    PROVE Inv'
<1>0. Staged(t) /\ TypeOK
  BY StagesParts DEF Inv
<1>1. /\ pc[t] \in {"read", "closed"} /\ requests < MaxRequests
      /\ pc' = [pc EXCEPT ![t] = "lookup"] /\ req' = [req EXCEPT ![t] = r]
      /\ seen' = [seen EXCEPT ![t] = Look(r)] /\ requests' = requests + 1
      /\ UNCHANGED <<storeVars, ref, ans, iter, serverVars, appVars, push, edits>>
  BY DEF Receive, Authorize, Goto
<1>2. req[t] = None /\ ref[t] = None /\ ans[t] = None
  BY <1>0, <1>1 DEF Staged, Handling
<1>3. /\ pc'[t] = "lookup" /\ req'[t] = r /\ seen'[t] = Look(r) /\ ref'[t] = None /\ ans'[t] = None
      /\ \A s \in Threads \ {t} : SameThread(s)
  BY <1>0, <1>1, <1>2 DEF TypeOK, ThreadTypeOK, SameThread
<1>4. items' = items /\ server' = server /\ enabled' = enabled
  BY <1>1 DEF storeVars
<1>5. Staged(t)'
  BY <1>3 DEF Staged, Handling, Past
<1>6. Told(t)'
  <2>1. SeenNow(t)'
    BY <1>3, <1>4, LookSame DEF SeenNow
  <2> QED BY <2>1, <1>3 DEF Told, RefSeen, RefNamed, SeenEnabled, SeenServer, Past, Handling
<1>7. Stages' /\ Apart' /\ \A s \in Threads : Told(s)'
  BY <1>3, <1>4, <1>5, <1>6, OthersKept
<1>8. StoreTypeOK' /\ ThreadTypeOK'
  <2>1. Look(r) \in SUBSET States /\ "lookup" \in Places
    BY <1>0, LookType, PlacesKnown DEF TypeOK, Handling
  <2>2. StoreTypeOK'
    BY <1>0, <1>1, StoreUnchanged DEF TypeOK
  <2> QED BY <2>1, <2>2, <1>0, <1>1 DEF TypeOK, ThreadTypeOK
<1>9. AppTypeOK'
  BY <1>0, <1>1, HssAssumption DEF TypeOK, AppTypeOK, serverVars, appVars
<1> QED BY <1>7, <1>8, <1>9 DEF Inv, TypeOK

\* what is found was in the table under identities asked for, so it was seen
LEMMA LookupStep ==
    ASSUME Inv, NEW t \in Threads, Lookup(t)
    PROVE Inv'
<1>0. Staged(t) /\ Told(t) /\ TypeOK /\ Apart
  BY StagesParts DEF Inv
<1>1. req[t] # None /\ req[t] \in RequestType /\ pc[t] = "lookup" /\ ans[t] = None
  BY <1>0 DEF Lookup, Staged, Handling, TypeOK, ThreadTypeOK
<1>2. PICK o \in find(req[t].public, Private(req[t])) : ref' = [ref EXCEPT ![t] = o]
  BY DEF Lookup
<1>3. /\ o \in Objs \cup {None}
      /\ o # None => \E k \in Keys : items[k] = o /\ Named(req[t].public, Private(req[t]), k)
  BY <1>0, <1>1, <1>2, FieldTypes, FindNamed DEF TypeOK
<1>4. /\ pc' = [pc EXCEPT ![t] = "check"]
      /\ UNCHANGED <<storeVars, req, ans, iter, serverVars, appVars, push, seen, bounds>>
  BY DEF Lookup, Goto
<1>5. /\ pc'[t] = "check" /\ ref'[t] = o /\ req'[t] = req[t] /\ ans'[t] = None /\ seen'[t] = seen[t]
      /\ \A s \in Threads \ {t} : SameThread(s)
  BY <1>0, <1>1, <1>2, <1>4 DEF TypeOK, ThreadTypeOK, SameThread
<1>6. items' = items /\ server' = server /\ enabled' = enabled
  BY <1>4 DEF storeVars
<1>7. Staged(t)'
  BY <1>1, <1>5 DEF Staged, Handling, Past
<1>8. Told(t)'
  <2>1. SeenNow(t)'
    BY <1>0, <1>5, <1>6, LookSame DEF SeenNow, Told
  <2>2. RefSeen(t)' /\ RefNamed(t)'
    <3>1. CASE o = None
      BY <3>1, <1>5 DEF RefSeen, RefNamed
    <3>2. CASE o # None
      <4>1. PICK k \in Keys : items[k] = o /\ Named(req[t].public, Private(req[t]), k)
        BY <3>2, <1>3
      <4>2. State(o) \in Look(req[t])
        BY <3>2, <4>1 DEF Look, Visible, Provisioned
      <4>3. State(o) \in seen[t] /\ State(o)' = State(o)
        BY <4>2, <1>0, <1>1, <1>6 DEF Told, SeenNow, State
      <4>4. \A m \in Keys : items[m] = o => m = k
        BY <3>2, <4>1, <1>0 DEF Apart
      <4>5. RefSeen(t)'
        BY <4>3, <1>5 DEF RefSeen, State
      <4>6. RefNamed(t)'
        BY <4>1, <4>4, <1>5, <1>6 DEF RefNamed, Named, Private
      <4> QED BY <4>5, <4>6
    <3> QED BY <3>1, <3>2
  <2>3. SeenEnabled(t)' /\ SeenServer(t)'
    BY <1>5 DEF SeenEnabled, SeenServer, Past
  <2> QED BY <2>1, <2>2, <2>3 DEF Told
<1>9. Stages' /\ Apart' /\ \A s \in Threads : Told(s)'
  BY <1>5, <1>6, <1>7, <1>8, OthersKept
<1>10. StoreTypeOK' /\ ThreadTypeOK'
  <2>1. "check" \in Places
    BY PlacesKnown DEF Handling
  <2>2. StoreTypeOK'
    BY <1>0, <1>4, StoreUnchanged DEF TypeOK
  <2> QED BY <2>1, <2>2, <1>0, <1>2, <1>3, <1>4 DEF TypeOK, ThreadTypeOK
<1>11. AppTypeOK'
  BY <1>0, <1>4 DEF TypeOK, AppTypeOK, serverVars, appVars, bounds
<1> QED BY <1>9, <1>10, <1>11 DEF Inv, TypeOK

\* the answers that are not about a subscriber
LEMMA NoSubscriberStep ==
    ASSUME Inv, NEW t \in Threads, NEW result \in {"success", "unsupported", "unknown"}, NoSubscriber(t, result)
    PROVE Inv'
<1>0. Staged(t) /\ TypeOK
  BY StagesParts DEF Inv
<1>1. /\ pc[t] = "read" /\ pc' = [pc EXCEPT ![t] = "send"]
      /\ ans' = [ans EXCEPT ![t] = Result(result)]
      /\ UNCHANGED <<storeVars, req, ref, iter, serverVars, appVars, push, seen, bounds>>
  BY DEF NoSubscriber, Goto
<1>2. req[t] = None /\ ref[t] = None
  BY <1>0, <1>1 DEF Staged, Handling
<1>3. /\ pc'[t] = "send" /\ req'[t] = None /\ ref'[t] = None
      /\ \A s \in Threads \ {t} : SameThread(s)
  BY <1>0, <1>1, <1>2 DEF TypeOK, ThreadTypeOK, SameThread
<1>4. Staged(t)' /\ Told(t)'
  BY <1>3 DEF Staged, Handling, Past, Told, SeenNow, RefSeen, RefNamed, SeenEnabled, SeenServer
<1>5. items' = items /\ server' = server /\ enabled' = enabled
  BY <1>1 DEF storeVars
<1>6. Stages' /\ Apart' /\ \A s \in Threads : Told(s)'
  BY <1>3, <1>4, <1>5, OthersKept
<1>7. StoreTypeOK' /\ ThreadTypeOK'
  <2>1. StoreTypeOK' /\ "send" \in Places /\ Result(result) \in Answers
    BY <1>0, <1>1, StoreUnchanged, PlacesKnown, ResultTypes DEF TypeOK
  <2> QED BY <2>1, <1>0, <1>1 DEF TypeOK, ThreadTypeOK
<1>8. AppTypeOK'
  BY <1>0, <1>1 DEF TypeOK, AppTypeOK, serverVars, appVars, bounds
<1> QED BY <1>6, <1>7, <1>8 DEF Inv, TypeOK

\* the ends of a request
LEMMA EndSteps ==
    ASSUME Inv, NEW t \in Threads, Send(t) \/ Respond(t) \/ Iterate(t)
    PROVE Inv'
<1>0. Staged(t) /\ TypeOK
  BY StagesParts DEF Inv
<1>1. UNCHANGED <<storeVars, serverVars, appVars, push, bounds>>
  BY DEF Send, Respond, Iterate
<1>2. AppTypeOK'
  BY <1>0, <1>1 DEF TypeOK, AppTypeOK, serverVars, appVars, bounds
<1>3. iter' \in [Threads -> {None} \cup SUBSET ProfileKeys]
  BY <1>0 DEF Send, Respond, Iterate, TypeOK, ThreadTypeOK
<1>4. CASE Iterate(t) /\ ~ Grown(t)
  <2>1. /\ pc[t] = "iterate" /\ pc' = [pc EXCEPT ![t] = "send"]
        /\ ans' = [ans EXCEPT ![t] = Result("success")] /\ UNCHANGED <<req, ref, seen>>
    BY <1>4 DEF Iterate, Finish, Goto
  <2>2. profile' \in [Objs -> SUBSET ProfileKeys]
    BY <1>0, <1>1 DEF TypeOK, StoreTypeOK, storeVars
  <2>3. UNCHANGED <<items, order, server, enabled>>
    BY <1>1 DEF storeVars
  <2> QED BY <2>1, <2>2, <2>3, <1>2, <1>3, MoveStep, ResultTypes DEF Handling
<1>5. CASE Send(t) \/ Respond(t) \/ (Iterate(t) /\ Grown(t))
  <2>1. PICK place \in {"read", "leaving", "closed"} :
           /\ pc' = [pc EXCEPT ![t] = place]
           /\ req' = [req EXCEPT ![t] = None] /\ ref' = [ref EXCEPT ![t] = None]
           /\ seen' = [seen EXCEPT ![t] = {}]
    BY <1>5 DEF Send, Respond, Iterate, Goto, LoopOrLeave
  <2>2. ans' = [ans EXCEPT ![t] = None]
    BY <1>5, <1>0 DEF Send, Respond, Iterate, Staged, TypeOK, ThreadTypeOK
  <2>3. /\ pc'[t] = place /\ req'[t] = None /\ ref'[t] = None /\ ans'[t] = None
        /\ \A s \in Threads \ {t} : SameThread(s)
    BY <1>0, <2>1, <2>2 DEF TypeOK, ThreadTypeOK, SameThread
  <2>4. Staged(t)' /\ Told(t)'
    BY <2>3 DEF Staged, Handling, Past, Told, SeenNow, RefSeen, RefNamed, SeenEnabled, SeenServer
  <2>5. items' = items /\ server' = server /\ enabled' = enabled
    BY <1>1 DEF storeVars
  <2>6. Stages' /\ Apart' /\ \A s \in Threads : Told(s)'
    BY <2>3, <2>4, <2>5, OthersKept
  <2>7. StoreTypeOK' /\ place \in Places
    BY <1>0, <1>1, StoreUnchanged, PlacesKnown DEF TypeOK
  <2>8. ThreadTypeOK'
    BY <2>1, <2>2, <2>7, <1>0, <1>3 DEF TypeOK, ThreadTypeOK
  <2> QED BY <2>6, <2>7, <2>8, <1>2 DEF Inv, TypeOK
<1> QED BY <1>4, <1>5

---------------------------------------------------------------------------
(* Changes of the table *)

\* an object that a request holds stays as it is, or is changed where it is in
\* the table; and it never comes into the table again
Held(t) ==
    ref[t] # None =>
       /\ State(ref[t])' = State(ref[t]) \/ \E k \in Keys : items[k] = ref[t] /\ items'[k] = ref[t]
       /\ \A k \in Keys : items'[k] = ref[t] => items[k] = ref[t]

LEMMA EditSteps ==
    ASSUME Inv, Edit, Watch, StoreTypeOK', Apart',
           iter' \in [Threads -> {None} \cup SUBSET ProfileKeys],
           \A t \in Threads : Held(t)
    PROVE Inv'
<1>1. TypeOK /\ UNCHANGED <<pc, req, ref, ans>>
  BY DEF Inv, Edit
<1>2. ASSUME NEW t \in Threads PROVE Told(t)' /\ seen'[t] \subseteq States
  <2> USE <1>2
  <2>0. Told(t) /\ Staged(t) /\ Held(t)
    BY StagesParts DEF Inv
  <2>1. seen'[t] = IF req[t] = None THEN seen[t] ELSE seen[t] \cup Look(req[t])'
    BY DEF Watch
  <2>2. SeenNow(t)'
    BY <1>1, <2>1 DEF SeenNow
  <2>3. RefSeen(t)' /\ RefNamed(t)'
    <3>1. CASE ref[t] = None
      BY <3>1, <1>1 DEF RefSeen, RefNamed
    <3>2. CASE ref[t] # None
      <4>1. req[t] # None /\ State(ref[t]) \in seen[t]
        BY <3>2, <2>0 DEF Staged, Told, RefSeen
      <4>2. RefNamed(t)'
        BY <3>2, <2>0, <1>1 DEF Told, RefNamed, Held, Named, Private
      <4>3. State(ref[t])' \in seen'[t]
        <5>1. CASE State(ref[t])' = State(ref[t])
          BY <5>1, <4>1, <2>1
        <5>2. CASE \E k \in Keys : items[k] = ref[t] /\ items'[k] = ref[t]
          <6>1. PICK k \in Keys : items[k] = ref[t] /\ items'[k] = ref[t]
            BY <5>2
          <6>2. Named(req[t].public, Private(req[t]), k)
            BY <3>2, <6>1, <2>0 DEF Told, RefNamed
          <6>3. State(ref[t])' \in Look(req[t])'
            BY <3>2, <6>1, <6>2, <1>1 DEF Look, Visible, Provisioned, Named, Private, State
          <6> QED BY <6>3, <4>1, <2>1
        <5> QED BY <5>1, <5>2, <3>2, <2>0 DEF Held
      <4>4. RefSeen(t)'
        BY <4>3 DEF RefSeen
      <4> QED BY <4>2, <4>4
    <3> QED BY <3>1, <3>2
  <2>4. seen[t] \subseteq seen'[t]
    BY <2>1
  <2>5. SeenEnabled(t)' /\ SeenServer(t)'
    BY <2>0, <2>4, <1>1 DEF Told, SeenEnabled, SeenServer
  <2>6. Told(t)'
    BY <2>2, <2>3, <2>5 DEF Told
  <2>7. Look(req[t])' \subseteq States
    <3>1. \A k \in Provisioned' : State(items[k])' \in States
      BY DEF Provisioned, StoreTypeOK, State, States
    <3> QED BY <3>1 DEF Look, Visible
  <2> QED BY <2>1, <2>6, <2>7, <1>1 DEF TypeOK, ThreadTypeOK
<1>3. ThreadTypeOK'
  <2>1. seen' \in [Threads -> SUBSET States]
    BY <1>2 DEF Watch
  <2> QED BY <1>1, <2>1 DEF TypeOK, ThreadTypeOK
<1>4. AppTypeOK'
  BY <1>1, HssAssumption DEF Edit, TypeOK, AppTypeOK, serverVars, appVars
<1>5. Stages'
  BY <1>1 DEF Inv, Stages
<1> QED BY <1>2, <1>3, <1>4, <1>5 DEF Inv, TypeOK

LEMMA AdminSteps ==
    ASSUME Inv, NEW supplied,
           \/ \E d \in Documents, provisioning \in BOOLEAN : PostSubscriber(d, provisioning, supplied)
           \/ \E public \in Publics, value \in BOOLEAN : PostEnable(public, value, supplied)
           \/ \E public \in Publics, u \in Updates : PutSubscriber(public, u, supplied)
           \/ \E public \in Publics : DeleteSubscriber(public, supplied)
    PROVE Inv'
<1>0. TypeOK /\ StoreTypeOK /\ ThreadTypeOK /\ Apart
  BY DEF Inv, TypeOK
<1>1. ASSUME NEW d \in Documents, NEW provisioning \in BOOLEAN,
             PostSubscriber(d, provisioning, supplied)
      PROVE Inv'
  <2> DEFINE inUse == {ref[t] : t \in Threads}
             k == <<d.public, d.private>>
  <2>1. /\ Edit /\ Watch /\ provision(d, inUse) /\ iter' = iter
        /\ d \in DocumentType /\ k \in Keys
    BY <1>1, InputsAssumption DEF PostSubscriber, DocumentType, Keys
  <2>2. StoreTypeOK'
    BY <2>1, <1>0, StoreTypes
  <2>3. PICK o \in Lowest(Unused(inUse)) :
           /\ items' = [items EXCEPT ![k] = o]
           /\ server' = [server EXCEPT ![o] = d.server]
           /\ enabled' = [enabled EXCEPT ![o] = d.enabled]
    BY <2>1 DEF provision
  <2>4. o \in Objs /\ (\A t \in Threads : ref[t] # o) /\ \A m \in Keys : items[m] # o
    BY DEF Lowest, Unused
  <2> HIDE DEF inUse, k
  <2>5. \A m \in Keys : items'[m] = IF m = k THEN o ELSE items[m]
    BY <2>1, <2>3, <1>0 DEF StoreTypeOK
  <2>6. Apart'
    BY <2>4, <2>5, <1>0 DEF Apart
  <2>7. \A t \in Threads : Held(t)
    <3>1. SUFFICES ASSUME NEW t \in Threads, ref[t] # None PROVE Held(t)
      BY DEF Held
    <3>2. ref[t] \in Objs /\ ref[t] # o
      BY <3>1, <2>4, <1>0 DEF ThreadTypeOK
    <3>3. /\ server' = [x \in Objs |-> IF x = o THEN d.server ELSE server[x]]
          /\ enabled' = [x \in Objs |-> IF x = o THEN d.enabled ELSE enabled[x]]
      BY <2>3, <2>4, <1>0 DEF StoreTypeOK
    <3>4. server'[ref[t]] = server[ref[t]] /\ enabled'[ref[t]] = enabled[ref[t]] /\ ref' = ref
      BY <3>2, <3>3, <2>1 DEF Edit
    <3>5. State(ref[t])' = State(ref[t])
      BY <3>4 DEF State
    <3> QED BY <3>2, <3>5, <2>5 DEF Held
  <2> QED BY <2>1, <2>2, <2>6, <2>7, <1>0, EditSteps DEF ThreadTypeOK
<1>2. ASSUME NEW public \in Publics, NEW value \in BOOLEAN, PostEnable(public, value, supplied)
      PROVE Inv'
  <2>1. Edit /\ Watch /\ set_enabled(public, value) /\ iter' = iter
    BY <1>2 DEF PostEnable
  <2>2. StoreTypeOK' /\ Apart'
    BY <2>1, <1>0, StoreTypes DEF Apart, set_enabled
  <2>3. PICK o \in find(public, None) \ {None} : enabled' = [enabled EXCEPT ![o] = value]
    BY <2>1 DEF set_enabled
  <2>4. o \in Objs /\ \E k \in Keys : items[k] = o
    BY <1>0, FindNamed
  <2>5. ASSUME NEW t \in Threads PROVE Held(t)
    <3>1. CASE ref[t] = o
      BY <3>1, <2>1, <2>4 DEF Held, set_enabled
    <3>2. CASE ref[t] # o /\ ref[t] # None
      <4>1. ref[t] \in Objs /\ enabled'[ref[t]] = enabled[ref[t]]
        BY <2>3, <2>4, <2>5, <3>2, <1>0 DEF StoreTypeOK, ThreadTypeOK
      <4> QED BY <4>1, <2>1 DEF Held, State, set_enabled, Edit
    <3> QED BY <3>1, <3>2 DEF Held
  <2> QED BY <2>1, <2>2, <2>5, <1>0, EditSteps DEF ThreadTypeOK
<1>3. ASSUME NEW public \in Publics, NEW u \in Updates, PutSubscriber(public, u, supplied)
      PROVE Inv'
  <2>1. Edit /\ Watch /\ update(public, u)
    BY <1>3 DEF PutSubscriber
  <2>2. iter' \in [Threads -> {None} \cup SUBSET ProfileKeys]
    BY <1>3, <1>0 DEF PutSubscriber, ThreadTypeOK
  <2>3. StoreTypeOK' /\ Apart'
    BY <2>1, <1>0, StoreTypes DEF Apart, update
  <2>4. PICK o \in find(public, None) \ {None} :
           /\ \A x \in Objs \ {o} : enabled'[x] = enabled[x] /\ server'[x] = server[x]
    BY <2>1, <1>0 DEF update, StoreTypeOK
  <2>5. o \in Objs /\ \E k \in Keys : items[k] = o
    BY <1>0, FindNamed
  <2>6. ASSUME NEW t \in Threads PROVE Held(t)
    <3>1. CASE ref[t] = o
      BY <3>1, <2>1, <2>5 DEF Held, update
    <3>2. CASE ref[t] # o /\ ref[t] # None
      <4>1. ref[t] \in Objs
        BY <2>6, <3>2, <1>0 DEF ThreadTypeOK
      <4> QED BY <4>1, <3>2, <2>1, <2>4 DEF Held, State, update, Edit
    <3> QED BY <3>1, <3>2 DEF Held
  <2> QED BY <2>1, <2>2, <2>3, <2>6, EditSteps
<1>4. ASSUME NEW public \in Publics, DeleteSubscriber(public, supplied) PROVE Inv'
  <2>1. Edit /\ Watch /\ remove(public) /\ iter' = iter
    BY <1>4 DEF DeleteSubscriber
  <2>2. PICK i \in First(public) : items' = [items EXCEPT ![order[i]] = None]
    BY <2>1 DEF remove
  <2>3. \A m \in Keys : items'[m] \in {items[m], None}
    BY <2>2, <1>0 DEF StoreTypeOK
  <2>4. StoreTypeOK' /\ Apart'
    BY <2>1, <2>3, <1>0, StoreTypes DEF Apart
  <2>5. \A t \in Threads : Held(t)
    BY <2>1, <2>3 DEF Held, State, remove, Edit
  <2> QED BY <2>1, <2>4, <2>5, <1>0, EditSteps DEF ThreadTypeOK
<1> QED BY <1>1, <1>2, <1>3, <1>4

\* pushes and the end of the server touch no request
LEMMA PushSteps ==
    ASSUME Inv, UNCHANGED <<storeVars, threadVars, seen>>, AppTypeOK'
    PROVE Inv'
<1>1. PICK t : t \notin Threads
  BY NoSetContainsEverything
<1>2. Stages' /\ Apart' /\ \A s \in Threads : Told(s)'
  <2>1. items' = items /\ server' = server /\ enabled' = enabled
    BY DEF storeVars
  <2>2. \A s \in Threads \ {t} : SameThread(s)
    BY DEF SameThread, threadVars
  <2> QED BY <1>1, <2>1, <2>2, OthersKept
<1>3. StoreTypeOK' /\ ThreadTypeOK'
  BY StoreUnchanged DEF Inv, TypeOK, ThreadTypeOK, threadVars
<1> QED BY <1>2, <1>3 DEF Inv, TypeOK

---------------------------------------------------------------------------

LEMMA InitInv == Init => Inv
<1> SUFFICES ASSUME Init PROVE Inv
  OBVIOUS
<1>1. /\ DOMAIN Seeds = 1 .. Len(Seeds) /\ DOMAIN order = DOMAIN Seeds
      /\ DOMAIN Seeds \subseteq Objs /\ 1 \in DOMAIN Seeds
      /\ \A i \in DOMAIN Seeds : Seeds[i] \in DocumentType
  BY SeedsAssumption, StoreAssumption DEF Init, Objs
<1>2. \A i \in DOMAIN Seeds : /\ <<Seeds[i].public, Seeds[i].private>> \in Keys
                              /\ Seeds[i].server \in Servers /\ Seeds[i].enabled \in BOOLEAN
                              /\ Seeds[i].profile \in SUBSET ProfileKeys
  BY <1>1 DEF DocumentType, Keys
<1>3. order \in Seq(Keys)
  <2>1. order = [i \in 1 .. Len(Seeds) |-> <<Seeds[i].public, Seeds[i].private>>]
    BY <1>1 DEF Init
  <2>2. order \in [1 .. Len(Seeds) -> Keys] /\ Len(Seeds) \in Nat
    BY <1>1, <1>2, <2>1, SeedsAssumption
  <2> QED BY <2>2, SeqDef
<1>4. \A k \in Keys : /\ items[k] # None => items[k] \in DOMAIN order /\ order[items[k]] = k
                      /\ items[k] \in Objs \cup {None}
  BY <1>1, StoreAssumption DEF Init
<1>5. StoreTypeOK
  <2>1. items \in [Keys -> Objs \cup {None}]
    BY <1>4 DEF Init
  <2> QED BY <1>1, <1>2, <1>3, <2>1 DEF Init, StoreTypeOK
<1>6. Apart
  BY <1>4 DEF Apart
<1>7. ThreadTypeOK
  BY PlacesKnown DEF Init, ThreadTypeOK
<1>8. AppTypeOK
  <2>1. push \in {None} \cup SUBSET Conns
    BY DEF Init
  <2>2. slots \in Nat /\ requests \in 0 .. MaxRequests /\ edits \in 0 .. MaxEdits
    BY HssAssumption DEF Init
  <2>3. lastRand \in [Privates -> Rands \cup {None}] /\ issued \in [Privates -> SUBSET Rands]
    BY DEF Init
  <2> QED BY <2>1, <2>2, <2>3 DEF Init, AppTypeOK
<1>9. Stages /\ \A t \in Threads : Told(t)
  BY DEF Init, Stages, Handling, Told, SeenNow, RefSeen, RefNamed, SeenEnabled, SeenServer
<1> QED BY <1>5, <1>6, <1>7, <1>8, <1>9 DEF Inv, TypeOK

LEMMA HandleSteps ==
    ASSUME Inv, NEW t \in Threads, Handle(t)
    PROVE Inv'
BY LookupStep, CheckSteps, MarSteps, ShSteps, EndSteps DEF Handle

LEMMA NextInv ==
    ASSUME Inv, [Next]_vars
    PROVE Inv'
<1>1. ASSUME NEW t \in Conns, Accept(t) \/ ConnStep(t) PROVE Inv'
  <2>1. t \in Threads
    BY DEF Threads
  <2>2. CASE Accept(t) \/ Join(t) \/ Leave(t) \/ ReadFails(t) \/ Malformed(t)
    BY <2>2, BetweenSteps
  <2>3. CASE \E result \in {"success", "unsupported", "unknown"} : NoSubscriber(t, result)
    BY <2>1, <2>3, NoSubscriberStep
  <2>4. CASE \E r \in Requests : Receive(t, r)
    BY <2>1, <2>4, BeginSteps, InputsAssumption
  <2>5. CASE Handle(t) \/ Send(t)
    BY <2>1, <2>5, HandleSteps, EndSteps
  <2> QED BY <1>1, <2>2, <2>3, <2>4, <2>5 DEF ConnStep
<1>2. ASSUME NEW t \in Https, HttpStep(t) PROVE Inv'
  <2>1. t \in Threads
    BY DEF Threads
  <2>2. CASE \E r \in Authorizes, supplied \in Supplied : Authorize(t, r, supplied)
    BY <2>1, <2>2, BeginSteps, InputsAssumption
  <2>3. CASE Handle(t) \/ Respond(t)
    BY <2>1, <2>3, HandleSteps, EndSteps
  <2> QED BY <1>2, <2>2, <2>3 DEF HttpStep
<1>3. ASSUME NEW supplied \in Supplied, Admin(supplied) PROVE Inv'
  <2>1. CASE PushStart(supplied)
    <3>1. AppTypeOK'
      BY <2>1, HssAssumption DEF PushStart, Inv, TypeOK, AppTypeOK, serverVars, appVars
    <3> QED BY <2>1, <3>1, PushSteps DEF PushStart
  <2> QED BY <1>3, <2>1, AdminSteps DEF Admin
<1>4. ASSUME NEW t \in Conns, PushSend(t) PROVE Inv'
  <2>1. AppTypeOK'
    BY <1>4 DEF PushSend, Inv, TypeOK, AppTypeOK, serverVars, appVars, bounds
  <2> QED BY <1>4, <2>1, PushSteps DEF PushSend
<1>5. CASE PushEnds
  <2>1. AppTypeOK'
    BY <1>5 DEF PushEnds, Inv, TypeOK, AppTypeOK, serverVars, appVars, bounds
  <2> QED BY <1>5, <2>1, PushSteps DEF PushEnds
<1>6. CASE Close
  <2>1. AppTypeOK'
    BY <1>6 DEF Close, Inv, TypeOK, AppTypeOK, appVars, bounds
  <2> QED BY <1>6, <2>1, PushSteps DEF Close
<1>7. CASE UNCHANGED vars
  <2>1. AppTypeOK'
    BY <1>7 DEF vars, Inv, TypeOK, AppTypeOK, serverVars, appVars, bounds
  <2> QED BY <1>7, <2>1, PushSteps DEF vars
<1> QED BY <1>1, <1>2, <1>3, <1>4, <1>5, <1>6, <1>7 DEF Next

\* The inductive invariant holds in every reachable state: a thread at work has
\* the object it found, and what it compared, refused or answered was true of
\* the table at some time since its request came.
THEOREM Invariance == Spec => []Inv
BY InitInv, NextInv, PTL DEF Spec

\* Threads, the table and the histories keep their types.
THEOREM TypeCorrect == Spec => []TypeOK
<1>1. Inv => TypeOK
  BY DEF Inv
<1> QED BY Invariance, <1>1, PTL

\* Nothing of one request is left when a thread takes the next: request, object
\* and answer are there exactly in the stages of handle that use them.
THEOREM StagesHold == Spec => []Stages
<1>1. Inv => Stages
  BY DEF Inv
<1> QED BY Invariance, <1>1, PTL

\* Whatever administrators change between the steps of handle, the answer of a
\* Cx command tells of a subscriber that was enabled, and of a server that was
\* assigned, at a moment when the request was at work.
THEOREM HonestHolds == Spec => []Honest
<1>1. Inv => Honest
  BY DEF Inv, Told, SeenEnabled, SeenServer, Honest
<1> QED BY Invariance, <1>1, PTL

---------------------------------------------------------------------------
(* Slots *)

\* handle never takes a thread out of service
LEMMA HandleServes ==
    ASSUME NEW t, Handle(t)
    PROVE /\ pc[t] \in InService /\ \E place \in InService : pc' = [pc EXCEPT ![t] = place]
          /\ UNCHANGED <<slots, peers>>
<1>1. pc[t] \in Handling
  BY DEF Handle, Lookup, Check, Match, AnswerServer, AnswerMar, Resync, Issue, AnswerUdr,
         Iterate, AnswerPur, AnswerSnr, Handling
<1>2. \E place \in Handling \cup {"send", "leaving"} : pc' = [pc EXCEPT ![t] = place]
  BY DEF Handle, Lookup, Check, Match, AnswerServer, AnswerMar, Resync, Issue, AnswerUdr,
         Iterate, AnswerPur, AnswerSnr, Finish, Goto, Handling
<1>3. UNCHANGED <<slots, peers>>
  BY DEF Handle, Lookup, Check, Match, AnswerServer, AnswerMar, Resync, Issue, AnswerUdr,
         Iterate, AnswerPur, AnswerSnr, serverVars
<1> QED BY <1>1, <1>2, <1>3 DEF InService

LEMMA ServingFinite == IsFiniteSet(Serving) /\ Cardinality(Serving) \in Nat
BY HssAssumption, FS_Subset, FS_CardinalityType DEF Serving

\* a step that takes nobody into service or out of it
LEMMA SlotsSame ==
    ASSUME SlotsCounted, slots' = slots, peers' = peers,
           \A s \in Conns : pc'[s] \in InService <=> pc[s] \in InService
    PROVE SlotsCounted'
<1>1. Serving' = Serving
  BY DEF Serving
<1> QED BY <1>1 DEF SlotsCounted

LEMMA SlotsNext ==
    ASSUME TypeOK, SlotsCounted, [Next]_vars
    PROVE SlotsCounted'
<1>0. pc \in [Threads -> Places] /\ Conns \subseteq Threads /\ "closed" \notin InService
  BY DEF TypeOK, ThreadTypeOK, Threads, InService, Handling
<1>a. ASSUME NEW t, NEW place, pc' = [pc EXCEPT ![t] = place], pc[t] \in InService,
             place \in InService, slots' = slots, peers' = peers
      PROVE SlotsCounted'
  BY <1>0, <1>a, SlotsSame
<1>1. ASSUME NEW t \in Conns, Accept(t) PROVE SlotsCounted'
  <2>1. pc' = [pc EXCEPT ![t] = "handshake"] /\ pc[t] = "closed" /\ peers' = peers
           /\ slots' = slots - 1
    BY <1>1 DEF Accept, Goto
  <2>2. Serving' = Serving \cup {t} /\ t \notin Serving
    BY <2>1, <1>0 DEF Serving, InService
  <2>3. Cardinality(Serving') = Cardinality(Serving) + 1
    BY <2>2, ServingFinite, FS_AddElement
  <2> QED BY <2>1, <2>2, <2>3, ServingFinite, HssAssumption DEF SlotsCounted, TypeOK, AppTypeOK
<1>2. ASSUME NEW t \in Conns, Leave(t) PROVE SlotsCounted'
  <2>1. pc' = [pc EXCEPT ![t] = "closed"] /\ pc[t] = "leaving" /\ peers' = peers \ {t}
           /\ slots' = slots + 1
    BY <1>2 DEF Leave, Goto
  <2>2. Serving' = Serving \ {t} /\ t \in Serving
    BY <2>1, <1>0 DEF Serving, InService
  <2>3. Cardinality(Serving') = Cardinality(Serving) - 1
    BY <2>2, ServingFinite, FS_RemoveElement
  <2> QED BY <2>1, <2>2, <2>3, ServingFinite, HssAssumption DEF SlotsCounted, TypeOK, AppTypeOK
<1>3. ASSUME NEW t \in Conns, Join(t) PROVE SlotsCounted'
  <2>1. PICK place \in {"leaving", "read"} : pc' = [pc EXCEPT ![t] = place]
    BY <1>3 DEF Join, Goto, LoopOrLeave
  <2>2. pc[t] = "handshake" /\ slots' = slots /\ peers' \subseteq peers \cup {t}
    BY <1>3 DEF Join
  <2>3. Serving' = Serving /\ t \in Serving
    BY <2>1, <2>2, <1>0 DEF Serving, InService
  <2> QED BY <2>2, <2>3 DEF SlotsCounted
<1>4. ASSUME NEW t \in Conns,
             \/ ReadFails(t) \/ Malformed(t) \/ Send(t)
             \/ \E result \in {"success", "unsupported", "unknown"} : NoSubscriber(t, result)
             \/ \E r \in Requests : Receive(t, r)
      PROVE SlotsCounted'
  <2>1. PICK place \in {"leaving", "read", "send", "lookup"} : pc' = [pc EXCEPT ![t] = place]
    BY <1>4 DEF ReadFails, Malformed, Send, NoSubscriber, Receive, Goto, LoopOrLeave
  <2>2. pc[t] \in {"read", "send"} /\ UNCHANGED <<slots, peers>>
    BY <1>4 DEF ReadFails, Malformed, Send, NoSubscriber, Receive, serverVars
  <2> QED BY <2>1, <2>2, <1>a DEF InService, Handling
<1>5. ASSUME NEW t \in Threads, Handle(t) PROVE SlotsCounted'
  BY <1>5, <1>a, HandleServes
<1>6. ASSUME NEW t \in Https,
             \/ \E r \in Authorizes, supplied \in Supplied : Authorize(t, r, supplied)
             \/ Respond(t)
      PROVE SlotsCounted'
  <2>1. (\A s \in Conns : pc'[s] = pc[s]) /\ UNCHANGED <<slots, peers>>
    BY <1>6, <1>0, HssAssumption DEF Authorize, Respond, Goto, serverVars
  <2> QED BY <2>1, SlotsSame
<1>7. ASSUME UNCHANGED <<pc, slots, peers>> PROVE SlotsCounted'
  BY <1>7, SlotsSame
<1>8. ASSUME NEW supplied \in Supplied, Admin(supplied) PROVE SlotsCounted'
  <2>1. UNCHANGED <<pc, slots, peers>>
    BY <1>8 DEF Admin, PostSubscriber, PostEnable, PutSubscriber, DeleteSubscriber, PushStart, Edit,
                serverVars, threadVars
  <2> QED BY <2>1, <1>7
<1>9. CASE \/ \E t \in Conns : PushSend(t)
           \/ PushEnds \/ Close \/ UNCHANGED vars
  BY <1>9, <1>7 DEF PushSend, PushEnds, Close, vars, threadVars, serverVars
<1> QED
  BY <1>1, <1>2, <1>3, <1>4, <1>5, <1>6, <1>8, <1>9 DEF Next, ConnStep, HttpStep, Threads

\* Every slot is free or held by one connection, however a connection ends, and
\* only connections in service are listed for pushes.
THEOREM SlotsCountedHolds == Spec => []SlotsCounted
<1>1. Init => SlotsCounted
  <2> SUFFICES ASSUME Init PROVE SlotsCounted
    OBVIOUS
  <2>1. Serving = {}
    BY DEF Init, Serving, InService, Handling, Threads
  <2> QED BY <2>1, FS_EmptySet, HssAssumption DEF Init, SlotsCounted
<1> QED BY <1>1, SlotsNext, TypeCorrect, PTL DEF Spec

---------------------------------------------------------------------------
(* Resynchronisation *)

LastIssued == \A i \in Privates : lastRand[i] # None => lastRand[i] \in issued[i]

\* who is past the test of a RAND has had it issued, and so has its answer
AutsKnown(t) ==
    /\ pc[t] = "issue" /\ req[t].auts # None
          => req[t].private # None /\ req[t].auts \in issued[req[t].private]
    /\ ans[t] # None /\ ans[t].auts # None
          => req[t] # None /\ req[t].private # None /\ ans[t].auts \in issued[req[t].private]

AutsInv == LastIssued /\ \A t \in Threads : AutsKnown(t)

\* no step but the issue of vectors touches what was issued
LEMMA AutsKept ==
    ASSUME TypeOK, AutsInv, NEW t, UNCHANGED <<lastRand, issued>>,
           \A s \in Threads \ {t} : pc'[s] = pc[s] /\ req'[s] = req[s] /\ ans'[s] = ans[s],
           t \in Threads => AutsKnown(t)'
    PROVE AutsInv'
BY DEF AutsInv, LastIssued, AutsKnown

LEMMA AutsNext == Inv /\ AutsInv /\ [Next]_vars => AutsInv'
<1> SUFFICES ASSUME Inv, AutsInv, [Next]_vars PROVE AutsInv'
  OBVIOUS
<1>0. TypeOK /\ Stages /\ ThreadTypeOK /\ AppTypeOK
  BY DEF Inv, TypeOK
<1>a. \A t \in Threads : Staged(t) /\ AutsKnown(t)
  BY <1>0, StagesParts DEF AutsInv
<1>b. \A r : Result(r).auts = None
  BY DEF Result
<1>c. \A s : WithServer(s).auts = None
  BY DEF WithServer
\* a thread with no answer, or one without AUTS, and not about to issue
<1>d. ASSUME NEW t \in Threads, NEW place, NEW a, place # "issue",
             a = None \/ a.auts = None,
             pc' = [pc EXCEPT ![t] = place], ans' = [ans EXCEPT ![t] = a],
             \A s \in Threads \ {t} : req'[s] = req[s],
             UNCHANGED <<lastRand, issued>>
      PROVE AutsInv'
  <2>1. \A s \in Threads \ {t} : pc'[s] = pc[s] /\ req'[s] = req[s] /\ ans'[s] = ans[s]
    BY <1>0, <1>d DEF ThreadTypeOK
  <2>2. AutsKnown(t)'
    BY <1>0, <1>d DEF ThreadTypeOK, AutsKnown
  <2> QED BY <2>1, <2>2, <1>0, <1>d, AutsKept
<1>e. ASSUME NEW t \in Threads, pc[t] # "send", ans' = ans
      PROVE ans' = [ans EXCEPT ![t] = None]
  BY <1>0, <1>a, <1>e DEF Staged, ThreadTypeOK
<1>1. ASSUME NEW t \in Conns,
             Accept(t) \/ Join(t) \/ Leave(t) \/ ReadFails(t) \/ Malformed(t)
      PROVE AutsInv'
  <2>1. PICK place \in {"handshake", "leaving", "read", "closed"} :
           pc' = [pc EXCEPT ![t] = place] /\ UNCHANGED <<req, ans>>
    BY <1>1 DEF Accept, Join, Leave, ReadFails, Malformed, Goto, LoopOrLeave
  <2>2. t \in Threads /\ pc[t] # "send" /\ UNCHANGED <<lastRand, issued>>
    BY <1>1 DEF Accept, Join, Leave, ReadFails, Malformed, Threads, appVars
  <2> QED BY <2>1, <2>2, <1>d, <1>e
<1>2. ASSUME NEW t \in Threads,
             \/ Send(t) \/ Respond(t)
             \/ \E result \in {"success", "unsupported", "unknown"} : NoSubscriber(t, result)
      PROVE AutsInv'
  <2>1. PICK place \in {"leaving", "read", "closed", "send"} : pc' = [pc EXCEPT ![t] = place]
    BY <1>2 DEF Send, Respond, NoSubscriber, Goto, LoopOrLeave
  <2>2. PICK a : ans' = [ans EXCEPT ![t] = a] /\ (a = None \/ a.auts = None)
    BY <1>2, <1>b DEF Send, Respond, NoSubscriber
  <2>3. (\A s \in Threads \ {t} : req'[s] = req[s]) /\ UNCHANGED <<lastRand, issued>>
    BY <1>0, <1>2 DEF Send, Respond, NoSubscriber, ThreadTypeOK, appVars
  <2> QED BY <2>1, <2>2, <2>3, <1>d
<1>3. ASSUME NEW t \in Threads, NEW r,
             Receive(t, r) \/ \E supplied \in Supplied : Authorize(t, r, supplied)
      PROVE AutsInv'
  <2>1. /\ pc' = [pc EXCEPT ![t] = "lookup"] /\ pc[t] # "send" /\ ans' = ans
        /\ UNCHANGED <<lastRand, issued>>
    BY <1>3 DEF Receive, Authorize, Goto, appVars
  <2>2. \A s \in Threads \ {t} : req'[s] = req[s]
    BY <1>0, <1>3 DEF Receive, Authorize, ThreadTypeOK
  <2> QED BY <2>1, <2>2, <1>d, <1>e
<1>4. ASSUME NEW t \in Threads,
             Lookup(t) \/ Check(t) \/ Match(t) \/ AnswerServer(t) \/ AnswerUdr(t) \/ Iterate(t)
             \/ AnswerPur(t) \/ AnswerSnr(t)
      PROVE AutsInv'
  <2>1. PICK place \in {"check", "match", "answer", "iterate", "send", "leaving"} :
           pc' = [pc EXCEPT ![t] = place]
    BY <1>4 DEF Lookup, Check, Match, AnswerServer, AnswerUdr, Iterate, AnswerPur, AnswerSnr,
                Finish, Goto
  <2>2. pc[t] # "send"
    BY <1>4 DEF Lookup, Check, Match, AnswerServer, AnswerUdr, Iterate, AnswerPur, AnswerSnr
  <2>3. ans' = ans \/ \E a : ans' = [ans EXCEPT ![t] = a] /\ a.auts = None
    BY <1>4, <1>b, <1>c DEF Lookup, Check, Match, AnswerServer, AnswerUdr, Iterate, AnswerPur,
                            AnswerSnr, Finish
  <2>4. \A s \in Threads \ {t} : req'[s] = req[s]
    BY <1>0, <1>4 DEF Lookup, Check, Match, AnswerServer, AnswerUdr, Iterate, AnswerPur, AnswerSnr,
                      ThreadTypeOK
  <2>5. UNCHANGED <<lastRand, issued>>
    BY <1>4 DEF Lookup, Check, Match, AnswerServer, AnswerUdr, Iterate, AnswerPur, AnswerSnr, appVars
  <2> QED BY <2>1, <2>2, <2>3, <2>4, <2>5, <1>d, <1>e
<1>5. ASSUME NEW t \in Threads, AnswerMar(t) PROVE AutsInv'
  <2>1. CASE req[t].auts = Bad
    BY <1>5, <2>1, <1>b, <1>d DEF AnswerMar, Finish, Goto, appVars
  <2>2. CASE req[t].auts # Bad /\ req[t].auts # None
    BY <1>5, <2>2, <1>d, <1>e DEF AnswerMar, Goto, appVars
  <2>3. CASE req[t].auts = None /\ req[t].auts # Bad
    <3>1. /\ pc' = [pc EXCEPT ![t] = "issue"] /\ UNCHANGED <<req, ans, lastRand, issued>>
          /\ ans[t] = None
      BY <1>5, <2>3, <1>a DEF AnswerMar, Goto, appVars, Staged
    <3>2. AutsKnown(t)'
      BY <3>1, <2>3 DEF AutsKnown
    <3>3. \A s \in Threads \ {t} : pc'[s] = pc[s] /\ req'[s] = req[s] /\ ans'[s] = ans[s]
      BY <3>1, <1>0 DEF ThreadTypeOK
    <3> QED BY <3>1, <3>2, <3>3, <1>0, AutsKept
  <2> QED BY <2>1, <2>2, <2>3
<1>6. ASSUME NEW t \in Threads, Resync(t) PROVE AutsInv'
  <2>0. req[t] \in RequestType /\ ans[t] = None
    BY <1>6, <1>0, <1>a DEF Resync, ThreadTypeOK, Staged, Handling
  <2>1. CASE ~ (req[t].private # None /\ Expected(t))
    BY <1>6, <2>1, <1>b, <1>d DEF Resync, Finish, Goto, appVars
  <2>2. CASE req[t].private # None /\ Expected(t)
    <3>1. /\ pc' = [pc EXCEPT ![t] = "issue"] /\ UNCHANGED <<req, ans, lastRand, issued>>
      BY <1>6, <2>2 DEF Resync, Goto, appVars
    <3>2. req[t].private \in Privates /\ lastRand[req[t].private] = req[t].auts
      BY <2>0, <2>2, FieldTypes DEF Expected
    <3>3. AutsKnown(t)'
      BY <2>0, <3>1, <3>2, <2>2 DEF AutsKnown, AutsInv, LastIssued
    <3>4. \A s \in Threads \ {t} : pc'[s] = pc[s] /\ req'[s] = req[s] /\ ans'[s] = ans[s]
      BY <3>1, <1>0 DEF ThreadTypeOK
    <3> QED BY <3>1, <3>3, <3>4, <1>0, AutsKept
  <2> QED BY <2>1, <2>2
<1>7. ASSUME NEW t \in Threads, Issue(t) PROVE AutsInv'
  <2>0. /\ req[t] \in RequestType /\ req[t] # None /\ ans[t] = None /\ pc[t] = "issue"
        /\ req[t].private \in Privates \cup {None} /\ AutsKnown(t)
    BY <1>7, <1>0, <1>a, FieldTypes DEF Issue, ThreadTypeOK, Staged, Handling
  <2>1. /\ \A i \in Privates : issued[i] \subseteq issued'[i]
        /\ LastIssued'
    <3>1. CASE req[t].private = None
      BY <1>7, <3>1 DEF Issue, AutsInv, LastIssued
    <3>2. CASE req[t].private \in Privates /\ req[t].private # None
      BY <1>7, <3>2, <1>0 DEF Issue, AutsInv, LastIssued, AppTypeOK
    <3> QED BY <2>0, <3>1, <3>2
  <2> DEFINE a == [Result("success") EXCEPT !.auts = req[t].auts]
  <2>2. a.auts = req[t].auts
    BY DEF Result
  <2>3. pc' = [pc EXCEPT ![t] = "send"] /\ ans' = [ans EXCEPT ![t] = a] /\ req' = req
    BY <1>7 DEF Issue, Finish, Goto
  <2> HIDE DEF a
  <2>4. AutsKnown(t)'
    BY <2>0, <2>1, <2>2, <2>3, <1>0 DEF AutsKnown, ThreadTypeOK
  <2>5. ASSUME NEW s \in Threads \ {t} PROVE AutsKnown(s)'
    <3>1. pc'[s] = pc[s] /\ req'[s] = req[s] /\ ans'[s] = ans[s] /\ AutsKnown(s)
      BY <2>3, <2>5, <1>0, <1>a DEF ThreadTypeOK
    <3>2. req[s] # None => req[s].private \in Privates \cup {None}
      BY <1>0, <2>5, FieldTypes DEF ThreadTypeOK
    <3>3. pc[s] = "issue" => req[s] # None
      BY <1>a, <2>5 DEF Staged, Handling
    <3> QED BY <2>1, <3>1, <3>2, <3>3 DEF AutsKnown
  <2> QED BY <2>1, <2>4, <2>5 DEF AutsInv
<1>8. ASSUME UNCHANGED <<pc, req, ans, lastRand, issued>> PROVE AutsInv'
  BY <1>8 DEF AutsInv, LastIssued, AutsKnown
<1>9. ASSUME NEW supplied \in Supplied, Admin(supplied) PROVE AutsInv'
  <2>1. UNCHANGED <<pc, req, ans, lastRand, issued>>
    BY <1>9 DEF Admin, PostSubscriber, PostEnable, PutSubscriber, DeleteSubscriber, PushStart, Edit,
                appVars, threadVars
  <2> QED BY <2>1, <1>8
<1>10. CASE (\E t \in Conns : PushSend(t)) \/ PushEnds \/ Close \/ UNCHANGED vars
  BY <1>8, <1>10 DEF PushSend, PushEnds, Close, vars, threadVars, appVars
<1>11. ASSUME NEW t \in Threads, Handle(t) PROVE AutsInv'
  BY <1>4, <1>5, <1>6, <1>7, <1>11 DEF Handle
<1>12. Conns \subseteq Threads /\ Https \subseteq Threads
  BY DEF Threads
<1> QED
  BY <1>1, <1>2, <1>3, <1>9, <1>10, <1>11, <1>12 DEF Next, ConnStep, HttpStep

\* A resynchronisation that was accepted names a RAND issued to that identity.
THEOREM AutsIssuedHolds == Spec => []AutsIssued
<1>1. Init => AutsInv
  BY DEF Init, AutsInv, LastIssued, AutsKnown
<1>2. AutsInv => AutsIssued
  BY DEF AutsInv, AutsKnown, AutsIssued
<1> QED BY <1>1, <1>2, AutsNext, Invariance, PTL DEF Spec

---------------------------------------------------------------------------
(* The table *)

Listed(s) == {s[i] : i \in DOMAIN s}
Once(s) == \A i, j \in DOMAIN s : s[i] = s[j] => i = j

LEMMA ProvisionedFinite == IsFiniteSet(Provisioned) /\ Cardinality(Provisioned) \in Nat
<1>1. IsFiniteSet(Keys)
  BY StoreAssumption, FS_Product DEF Keys
<1> QED BY <1>1, FS_Subset, FS_CardinalityType DEF Provisioned

LEMMA ProvisionWhole ==
    ASSUME StoreTypeOK, StoreWhole, NEW d \in DocumentType, NEW inUse, provision(d, inUse), Apart'
    PROVE StoreWhole'
<1> DEFINE k == <<d.public, d.private>>
<1>1. k \in Keys /\ HasRoom(k)
  BY DEF DocumentType, Keys, provision
<1>2. PICK o \in Lowest(Unused(inUse)) : items' = [items EXCEPT ![k] = o]
  BY DEF provision
<1>3. order' = IF items[k] = None THEN Append(order, k) ELSE order
  BY DEF provision
<1>4. o \in Objs /\ o # None
  BY StoreAssumption DEF Lowest, Unused
<1> HIDE DEF k
<1>5. Provisioned' = Provisioned \cup {k}
  BY <1>1, <1>2, <1>4 DEF Provisioned, StoreTypeOK
<1>6. CASE items[k] = None
  <2>1. k \notin Provisioned /\ Cardinality(Provisioned) < MaxSubscribers
    BY <1>1, <1>6 DEF HasRoom, Provisioned
  <2>2. Cardinality(Provisioned') <= MaxSubscribers
    <3>1. Cardinality(Provisioned \cup {k}) = Cardinality(Provisioned) + 1
      BY <2>1, ProvisionedFinite, FS_AddElement
    <3>2. MaxSubscribers \in Nat
      BY StoreAssumption
    <3>3. Cardinality(Provisioned') = Cardinality(Provisioned) + 1
      BY <1>5, <3>1
    <3> QED BY <2>1, <3>2, <3>3, ProvisionedFinite
  <2>3. order \in Seq(Keys) /\ order' = Append(order, k) /\ k \notin Listed(order)
    BY <1>3, <1>6, <2>1 DEF StoreTypeOK, StoreWhole, Listed
  <2>4. /\ DOMAIN order = 1 .. Len(order) /\ Len(order) \in Nat
        /\ DOMAIN order' = 1 .. Len(order) + 1
        /\ \A i \in DOMAIN order' : order'[i] = IF i = Len(order) + 1 THEN k ELSE order[i]
    BY <1>1, <2>3
  <2>5. Listed(order') = Listed(order) \cup {k}
    <3>1. \A i \in DOMAIN order : i \in DOMAIN order' /\ order'[i] = order[i]
      BY <2>4
    <3>2. Len(order) + 1 \in DOMAIN order' /\ order'[Len(order) + 1] = k
      BY <2>4
    <3>3. \A i \in DOMAIN order' : i = Len(order) + 1 \/ i \in DOMAIN order
      BY <2>4
    <3> QED BY <3>1, <3>2, <3>3, <2>4 DEF Listed
  <2>6. Once(order')
    <3>1. \A i \in DOMAIN order : order[i] # k
      BY <2>3 DEF Listed
    <3> QED BY <2>4, <3>1 DEF Once, StoreWhole
  <2> QED BY <1>5, <2>2, <2>5, <2>6 DEF StoreWhole, Listed, Once, Apart
<1>7. CASE items[k] # None
  <2>1. Provisioned' = Provisioned /\ order' = order
    BY <1>1, <1>3, <1>5, <1>7 DEF Provisioned
  <2> QED BY <2>1 DEF StoreWhole, Apart
<1> QED BY <1>6, <1>7

LEMMA RemoveWhole ==
    ASSUME StoreTypeOK, StoreWhole, NEW public \in Publics, remove(public), Apart'
    PROVE StoreWhole'
<1>1. PICK i \in First(public) : /\ items' = [items EXCEPT ![order[i]] = None]
                                 /\ order' = RemoveAt(order, i)
  BY DEF remove
<1>2. order \in Seq(Keys) /\ i \in 1 .. Len(order) /\ order[i] \in Keys /\ Len(order) \in Nat
  BY DEF First, StoreTypeOK
<1>3. Provisioned' = Provisioned \ {order[i]}
  BY <1>1, <1>2 DEF Provisioned, StoreTypeOK
<1>4. Cardinality(Provisioned') <= MaxSubscribers
  <2>1. Cardinality(Provisioned \ {order[i]}) <= Cardinality(Provisioned)
    BY ProvisionedFinite, FS_Subset
  <2>2. Cardinality(Provisioned) <= MaxSubscribers /\ MaxSubscribers \in Nat
    BY StoreAssumption DEF StoreWhole
  <2>3. Cardinality(Provisioned \ {order[i]}) \in Nat
    BY ProvisionedFinite, FS_RemoveElement, FS_CardinalityType
  <2>4. Cardinality(Provisioned') = Cardinality(Provisioned \ {order[i]})
    BY <1>3
  <2> QED BY <2>1, <2>2, <2>3, <2>4, ProvisionedFinite
<1>5. /\ DOMAIN order' = 1 .. Len(order) - 1
      /\ \A j \in DOMAIN order' : order'[j] = IF j < i THEN order[j] ELSE order[j + 1]
  <2> DEFINE a == SubSeq(order, 1, i - 1)
             b == SubSeq(order, i + 1, Len(order))
  <2>1. /\ a \in Seq(Keys) /\ Len(a) = i - 1 /\ \A j \in 1 .. i - 1 : a[j] = order[j]
    BY <1>2
  <2>2. /\ b \in Seq(Keys) /\ Len(b) = Len(order) - i
        /\ \A j \in 1 .. Len(order) - i : b[j] = order[j + i]
    BY <1>2
  <2>3. order' = a \o b
    BY <1>1 DEF RemoveAt
  <2> HIDE DEF a, b
  <2>4. /\ DOMAIN (a \o b) = 1 .. Len(order) - 1
        /\ \A j \in DOMAIN (a \o b) : (a \o b)[j] = IF j < i THEN a[j] ELSE b[j - i + 1]
    BY <2>1, <2>2, <1>2
  <2>5. DOMAIN order' = 1 .. Len(order) - 1
    BY <2>3, <2>4
  <2>6. ASSUME NEW j \in 1 .. Len(order) - 1
        PROVE order'[j] = IF j < i THEN order[j] ELSE order[j + 1]
    <3>1. CASE j < i
      BY <3>1, <1>2, <2>1, <2>3, <2>4
    <3>2. CASE ~ (j < i)
      <4>0. j \in DOMAIN (a \o b)
        BY <2>4
      <4>1. order'[j] = b[j - i + 1] /\ j - i + 1 \in 1 .. Len(order) - i
        <5>1. (a \o b)[j] = b[j - i + 1]
          BY <3>2, <4>0, <2>4
        <5>2. j - i + 1 \in 1 .. Len(order) - i
          BY <3>2, <1>2
        <5> QED BY <5>1, <5>2, <2>3
      <4>2. b[j - i + 1] = order[j - i + 1 + i] /\ j - i + 1 + i = j + 1
        BY <4>1, <1>2, <2>2
      <4> QED BY <3>2, <4>1, <4>2
    <3> QED BY <3>1, <3>2
  <2> QED BY <2>5, <2>6
<1>6. Listed(order') = Listed(order) \ {order[i]}
  <2>1. \A j \in DOMAIN order' : \E h \in DOMAIN order : h # i /\ order'[j] = order[h]
    BY <1>2, <1>5
  <2>2. ASSUME NEW h \in DOMAIN order, h # i PROVE \E j \in DOMAIN order' : order'[j] = order[h]
    <3>1. CASE h < i
      BY <1>2, <1>5, <2>2, <3>1
    <3>2. CASE h > i
      <4>1. h - 1 \in DOMAIN order' /\ order'[h - 1] = order[h]
        BY <1>2, <1>5, <2>2, <3>2
      <4> QED BY <4>1
    <3> QED BY <3>1, <3>2, <2>2, <1>2
  <2>3. \A h \in DOMAIN order : h # i => order[h] # order[i]
    BY <1>2 DEF StoreWhole
  <2> QED BY <2>1, <2>2, <2>3 DEF Listed
<1>7. Once(order')
  <2>1. Once(order) /\ DOMAIN order = 1 .. Len(order)
    BY <1>2 DEF Once, StoreWhole
  <2> QED BY <1>2, <1>5, <2>1 DEF Once
<1> QED BY <1>3, <1>4, <1>6, <1>7 DEF StoreWhole, Listed, Once, Apart

LEMMA WholeNext == Inv /\ Inv' /\ StoreWhole /\ [Next]_vars => StoreWhole'
<1> SUFFICES ASSUME Inv, Inv', StoreWhole, [Next]_vars PROVE StoreWhole'
  OBVIOUS
<1>0. StoreTypeOK /\ Apart'
  BY DEF Inv, TypeOK
<1>1. CASE UNCHANGED <<items, order>>
  BY <1>1 DEF StoreWhole, Provisioned
<1>2. ASSUME NEW t, Handle(t) PROVE UNCHANGED <<items, order>>
  BY <1>2 DEF Handle, Lookup, Check, Match, AnswerServer, AnswerMar, Resync, Issue, AnswerUdr,
              Iterate, AnswerPur, AnswerSnr, storeVars
<1>3. ASSUME NEW t \in Conns, Accept(t) \/ ConnStep(t) PROVE UNCHANGED <<items, order>>
  BY <1>2, <1>3 DEF ConnStep, Accept, Join, Leave, ReadFails, Malformed, NoSubscriber, Receive, Send,
                    storeVars
<1>4. ASSUME NEW t \in Https, HttpStep(t) PROVE UNCHANGED <<items, order>>
  BY <1>2, <1>4 DEF HttpStep, Authorize, Respond, storeVars
<1>5. ASSUME NEW supplied \in Supplied, Admin(supplied) PROVE StoreWhole'
  <2>1. CASE \E d \in Documents, provisioning \in BOOLEAN :
                PostSubscriber(d, provisioning, supplied)
    BY <2>1, <1>0, ProvisionWhole, InputsAssumption DEF PostSubscriber
  <2>2. CASE \E public \in Publics : DeleteSubscriber(public, supplied)
    BY <2>2, <1>0, RemoveWhole DEF DeleteSubscriber
  <2>3. CASE \/ \E public \in Publics, value \in BOOLEAN : PostEnable(public, value, supplied)
             \/ \E public \in Publics, u \in Updates : PutSubscriber(public, u, supplied)
             \/ PushStart(supplied)
    BY <2>3, <1>1 DEF PostEnable, PutSubscriber, PushStart, set_enabled, update, storeVars
  <2> QED BY <1>5, <2>1, <2>2, <2>3 DEF Admin
<1>6. CASE (\E t \in Conns : PushSend(t)) \/ PushEnds \/ Close \/ UNCHANGED vars
  BY <1>1, <1>6 DEF PushSend, PushEnds, Close, vars, storeVars
<1> QED BY <1>1, <1>3, <1>4, <1>5, <1>6 DEF Next

LEMMA InitWhole == Init => StoreWhole
<1> SUFFICES ASSUME Init PROVE StoreWhole
  OBVIOUS
<1>0. StoreTypeOK /\ Apart
  BY InitInv DEF Inv, TypeOK
<1>1. /\ DOMAIN Seeds = 1 .. Len(Seeds) /\ DOMAIN order = 1 .. Len(Seeds)
      /\ Len(Seeds) \in Nat /\ Len(Seeds) <= MaxSubscribers /\ 1 .. Len(Seeds) \subseteq Objs
  BY SeedsAssumption, StoreAssumption DEF Init, Objs
<1>2. \A i \in DOMAIN order : order[i] = <<Seeds[i].public, Seeds[i].private>> /\ order[i] \in Keys
  BY <1>0, <1>1 DEF Init, StoreTypeOK
<1>3. Once(order)
  BY <1>1, <1>2, SeedsAssumption DEF Once
<1>4. Listed(order) = Provisioned
  <2>1. \A k \in Keys : items[k] # None <=> \E i \in DOMAIN order : order[i] = k
    BY <1>1, StoreAssumption DEF Init
  <2> QED BY <1>2, <2>1 DEF Listed, Provisioned
<1>5. Cardinality(Provisioned) <= MaxSubscribers
  <2>1. order \in Surjection(1 .. Len(Seeds), Provisioned)
    <3>1. order \in [1 .. Len(Seeds) -> Provisioned]
      BY <1>1, <1>2, <1>4 DEF Listed, Init
    <3>2. \A k \in Provisioned : \E i \in 1 .. Len(Seeds) : order[i] = k
      BY <1>1, <1>4 DEF Listed
    <3> QED BY <3>1, <3>2 DEF Surjection
  <2>2. Cardinality(Provisioned) <= Len(Seeds)
    BY <2>1, <1>1, FS_SurjCardinalityBound DEF ExistsSurjection
  <2> QED BY <2>2, <1>1, ProvisionedFinite, StoreAssumption
<1> QED BY <1>0, <1>3, <1>4, <1>5 DEF StoreWhole, Listed, Once, Apart

\* The table stays within max_subscribers and lists every pair once, through
\* replacements, removals and provisioning by both ways in.
THEOREM StoreWholeHolds == Spec => []StoreWhole
BY InitWhole, WholeNext, Invariance, PTL DEF Spec
=============================================================================
