----------------------------- MODULE CallState -----------------------------
(***************************************************************************)
(* The worker's table of calls and dialogs: the CMap `calls`, its bounding *)
(* ring and its per-call index of dialog keys (rfc.mko), as the message    *)
(* handlers of main.mko and the timeout path of sip_dialog.mko use them.   *)
(*                                                                         *)
(* A message is handled by one worker in one step: what it does to the     *)
(* table is the composition of the rfc.mko helpers in the handler's order. *)
(* The values stored under the keys are not read back by the code that     *)
(* manages the table, so a key is only present or absent.                  *)
(***************************************************************************)
EXTENDS Integers, FiniteSets

CONSTANTS
    Cids,       \* Call-IDs
    Tags,       \* To-tags; the From-tag of a call is fixed
    Capacity,   \* sip_call_state_capacity(): slots of the ring, records admitted
    MaxListed,  \* dialog keys that fit the 2048 bytes of a dialog_keys| entry
    NoKey       \* an empty ring slot

ASSUME CapacityAssumption == Capacity \in Nat \ {0}
ASSUME MaxListedAssumption == MaxListed \in Nat

VARIABLE calls  \* the table, see TableType

Slots == 0 .. (Capacity - 1)

\* The keys the ring bounds: calls[cid], "dialog|cid" and "dialog|id", where
\* the id orders the two tags, so each To-tag has a forward and a reverse key.
CallKey(c) == <<c, "call", "-">>
Untagged(c) == <<c, "dialog", "-">>
Tagged(c, t, dir) == <<c, t, dir>>
Directions == {"fwd", "rev"}
DialogKeys(c) == {Untagged(c)} \cup {Tagged(c, t, dir) : t \in Tags, dir \in Directions}
KeysOf(c) == {CallKey(c)} \cup DialogKeys(c)
Keys == UNION {KeysOf(c) : c \in Cids}
Reverse(k) == <<k[1], k[2], IF k[3] = "fwd" THEN "rev" ELSE IF k[3] = "rev" THEN "fwd" ELSE "-">>

ASSUME NoKeyAssumption == NoKey \notin Keys

\* rec: ring-bounded records; list: the dialog_keys|cid entries, absent when
\* empty; ring, seq: call_state_ring| and call_state_seq, the latter only as
\* the slot it selects.
TableType == [rec  : SUBSET Keys,
              list : [Cids -> SUBSET Keys],
              ring : [Slots -> Keys \cup {NoKey}],
              seq  : Slots]

Empty == [rec |-> {}, list |-> [c \in Cids |-> {}],
          ring |-> [i \in Slots |-> NoKey], seq |-> 0]

\* cmap_len(calls): the index entries are counted with the records
Size(s) == Cardinality(s.rec) + Cardinality({c \in Cids : s.list[c] # {}})

---------------------------------------------------------------------------
(* The helpers of rfc.mko *)

\* Mutation: the displaced key keeps its record
BoundedSetKeepsOld(s, k) ==
    IF k \in s.rec THEN s
    ELSE LET slot == (s.seq + 1) % Capacity
         IN [s EXCEPT !.seq = slot, !.ring[slot] = k, !.rec = @ \cup {k}]

\* rfc_bounded_state_set: a new key takes the next slot and the key the slot
\* held before loses its record.
BoundedSet(s, k) ==
    IF k \in s.rec THEN s
    ELSE LET slot == (s.seq + 1) % Capacity
             old  == s.ring[slot]
         IN [rec  |-> (IF old = k THEN s.rec ELSE s.rec \ {old}) \cup {k},
             list |-> s.list,
             ring |-> [s.ring EXCEPT ![slot] = k],
             seq  |-> slot]

\* sip_call_state_set refuses a new key when the table is full
Refused(s, k) == k \notin s.rec /\ Size(s) >= Capacity

\* Mutation: the capacity check is lost, only the ring bounds the table
CallStateSetUnchecked(s, k) == BoundedSet(s, k)

CallStateSet(s, k) == IF Refused(s, k) THEN s ELSE BoundedSet(s, k)

\* sip_call_state_track_dialog; an overlong list is started afresh
TrackDialog(s, c, k) ==
    [s EXCEPT !.list[c] = IF k \in @ THEN @
                          ELSE (IF Cardinality(@) > MaxListed THEN {} ELSE @) \cup {k}]

\* Mutation: the index is not consulted at all
CleanupOwnDialog(s, c, k) ==
    [s EXCEPT !.rec = @ \ {CallKey(c), Untagged(c), k, Reverse(k)}]

\* sip_call_state_cleanup: k is the dialog key of the message that ends the call
Cleanup(s, c, k) ==
    [rec  |-> s.rec \ ({CallKey(c), Untagged(c), k, Reverse(k)} \cup s.list[c]),
     list |-> [s.list EXCEPT ![c] = {}],
     ring |-> s.ring,
     seq  |-> s.seq]

\* sip_dialog_observe, in the two ways it ends: the record stays ("trying",
\* "confirmed") or the whole call is cleaned up ("terminated", "failed")
ObserveOpen(s, c, k) == TrackDialog(CallStateSet(s, k), c, k)
ObserveClosed(s, c, k) == Cleanup(ObserveOpen(s, c, k), c, k)

---------------------------------------------------------------------------
(* The message handlers *)

Init == calls = Empty

\* Initial INVITE that is routed: the call record is stored and 100 is sent
InviteAdmitted(c, k) ==
    /\ ~Refused(calls, CallKey(c))
    /\ calls' = ObserveOpen(CallStateSet(calls, CallKey(c)), c, k)

\* Initial INVITE that is stored but then finds no route (3xx-6xx reply)
InviteUnrouted(c, k) ==
    /\ ~Refused(calls, CallKey(c))
    /\ calls' = ObserveClosed(CallStateSet(calls, CallKey(c)), c, k)

\* Initial INVITE at the limit: 503 Server Busy
InviteBusy(c, k) ==
    /\ Refused(calls, CallKey(c))
    /\ calls' = ObserveClosed(calls, c, k)

\* ACK, a request forwarded inside its dialog, a request answered 1xx/2xx here
RequestPasses(c, k) == calls' = ObserveOpen(calls, c, k)

\* Any request answered 3xx-6xx here: challenge, rate limit, 481, 491, ...
RequestRejected(c, k) == calls' = ObserveClosed(calls, c, k)

\* BYE and CANCEL: teardown of a known call, then the observation
ByeOrCancel(c, k) ==
    calls' = ObserveClosed(IF CallKey(c) \in calls.rec THEN Cleanup(calls, c, k) ELSE calls,
                           c, k)

\* Final response to a forwarded BYE or CANCEL
TeardownResponse(c, k) == calls' = Cleanup(calls, c, k)

\* The client transaction of the INVITE expires
InviteTimeout(c, k) == calls' = Cleanup(calls, c, k)

Handle(c) ==
    \E k \in DialogKeys(c) :
        \/ InviteAdmitted(c, k)
        \/ InviteUnrouted(c, k)
        \/ InviteBusy(c, k)
        \/ RequestPasses(c, k)
        \/ RequestRejected(c, k)
        \/ ByeOrCancel(c, k)
        \/ TeardownResponse(c, k)
        \/ InviteTimeout(c, k)

Next == \E c \in Cids : Handle(c)

Spec == Init /\ [][Next]_calls

---------------------------------------------------------------------------
(* Properties *)

\* The table is well formed and an index entry lists only dialogs of its call.
TypeOK ==
    /\ calls \in TableType
    /\ \A c \in Cids : calls.list[c] \subseteq DialogKeys(c)

\* Every record still occupies a ring slot, so wrap-around reaches it: no
\* record can escape the bound of rfc_bounded_state_set, even though slots
\* keep naming keys that were cleaned up and stored again elsewhere.
RingIndexed == \A k \in calls.rec : \E i \in Slots : calls.ring[i] = k

\* A BYE or CANCEL, the answer to one and an INVITE timeout leave nothing of
\* the call behind, whichever of its forked dialogs the message names.
TeardownComplete ==
    [][\A c \in Cids : \A k \in DialogKeys(c) :
          ByeOrCancel(c, k) \/ TeardownResponse(c, k) \/ InviteTimeout(c, k)
             => calls'.rec \cap KeysOf(c) = {} /\ calls'.list[c] = {}]_calls

\* A call turned away at the limit (503 Server Busy) costs no other call its
\* records.
BusyEvictsNothing ==
    [][\A c \in Cids : \A k \in DialogKeys(c) :
          InviteBusy(c, k) => calls.rec \ KeysOf(c) \subseteq calls'.rec]_calls

=============================================================================
