-------------------------- MODULE CallStateProofs --------------------------
(***************************************************************************)
(* Proofs about CallState for every number of calls, tags and slots: the   *)
(* helpers of rfc.mko keep the table well formed and every record indexed  *)
(* by the ring.  What a handler takes away then follows from what its      *)
(* helpers do to the records.                                              *)
(***************************************************************************)
EXTENDS CallState, TLAPS, FiniteSetTheorems

\* The two invariants on a table value, so that the helpers, which the
\* handlers compose, are treated one at a time.
WellFormed(s) == s \in TableType /\ \A c \in Cids : s.list[c] \subseteq DialogKeys(c)
Indexed(s) == \A k \in s.rec : \E i \in Slots : s.ring[i] = k
Sound(s) == WellFormed(s) /\ Indexed(s)

\* The slot after a slot, modulo the capacity, is a slot.
LEMMA SlotNext == ASSUME NEW n \in Slots PROVE (n + 1) % Capacity \in Slots
  BY CapacityAssumption DEF Slots

\* The keys of a call are keys of the table.
LEMMA KeyTypes ==
  ASSUME NEW c \in Cids
  PROVE  /\ CallKey(c) \in Keys
         /\ DialogKeys(c) \subseteq Keys
         /\ KeysOf(c) \subseteq Keys
  BY DEF Keys, KeysOf

\* rfc_bounded_state_set keeps the table sound: the one record that loses
\* its slot is the one that is removed.
LEMMA BoundedSetSound ==
  ASSUME NEW s, Sound(s), NEW k \in Keys
  PROVE  Sound(BoundedSet(s, k)) /\ BoundedSet(s, k).list = s.list
  <1>1. CASE k \in s.rec
    BY <1>1 DEF BoundedSet
  <1>2. CASE k \notin s.rec
    <2> DEFINE slot == (s.seq + 1) % Capacity
               old  == s.ring[slot]
               rec1 == (IF old = k THEN s.rec ELSE s.rec \ {old}) \cup {k}
               ring1 == [s.ring EXCEPT ![slot] = k]
               t == [rec |-> rec1, list |-> s.list, ring |-> ring1, seq |-> slot]
    <2>1. slot \in Slots
      BY SlotNext DEF Sound, WellFormed, TableType
    <2>2. BoundedSet(s, k) = t
      BY <1>2 DEF BoundedSet
    <2>3. t \in TableType
      BY <2>1 DEF Sound, WellFormed, TableType
    <2>4. ASSUME NEW r \in rec1 PROVE \E i \in Slots : ring1[i] = r
      <3>1. CASE r = k
        BY <3>1, <2>1 DEF Sound, WellFormed, TableType
      <3>2. CASE r # k
        <4>1. r \in s.rec /\ r # old
          BY <3>2, <1>2
        <4>2. PICK i \in Slots : s.ring[i] = r
          BY <4>1 DEF Sound, Indexed
        <4>3. i # slot
          BY <4>1, <4>2
        <4>4. ring1[i] = r
          BY <4>2, <4>3 DEF Sound, WellFormed, TableType
        <4> QED BY <4>4
      <3> QED BY <3>1, <3>2
    <2> HIDE DEF slot, old, rec1, ring1, t
    <2>5. t.list = s.list /\ t.rec = rec1 /\ t.ring = ring1
      BY DEF t
    <2> QED BY <2>2, <2>3, <2>4, <2>5 DEF Sound, WellFormed, Indexed
  <1> QED BY <1>1, <1>2

\* sip_call_state_set
LEMMA CallStateSetSound ==
  ASSUME NEW s, Sound(s), NEW k \in Keys
  PROVE  Sound(CallStateSet(s, k)) /\ CallStateSet(s, k).list = s.list
  BY BoundedSetSound DEF CallStateSet

\* sip_call_state_track_dialog touches only the index entry of its call
LEMMA TrackDialogSound ==
  ASSUME NEW s, Sound(s), NEW c \in Cids, NEW k \in DialogKeys(c)
  PROVE  Sound(TrackDialog(s, c, k))
  <1> DEFINE l == IF k \in s.list[c] THEN s.list[c]
                  ELSE (IF Cardinality(s.list[c]) > MaxListed THEN {} ELSE s.list[c]) \cup {k}
             t == TrackDialog(s, c, k)
  <1>1. t = [rec |-> s.rec, list |-> [s.list EXCEPT ![c] = l],
             ring |-> s.ring, seq |-> s.seq]
    BY DEF TrackDialog, Sound, WellFormed, TableType
  <1>2. l \subseteq DialogKeys(c)
    BY DEF Sound, WellFormed
  <1>3. k \in Keys
    BY KeyTypes
  <1> HIDE DEF l, t
  <1>4. l \subseteq Keys
    BY <1>2, KeyTypes
  <1> QED BY <1>1, <1>2, <1>4 DEF t, Sound, WellFormed, Indexed, TableType

\* sip_call_state_cleanup only removes records, so those left stay indexed
LEMMA CleanupSound ==
  ASSUME NEW s, Sound(s), NEW c \in Cids, NEW k
  PROVE  Sound(Cleanup(s, c, k))
  <1> DEFINE gone == {CallKey(c), Untagged(c), k, Reverse(k)} \cup s.list[c]
             t == Cleanup(s, c, k)
  <1>1. t = [rec |-> s.rec \ gone, list |-> [s.list EXCEPT ![c] = {}],
             ring |-> s.ring, seq |-> s.seq]
    BY DEF Cleanup, Sound, WellFormed, TableType
  <1> HIDE DEF gone, t
  <1> QED BY <1>1 DEF t, Sound, WellFormed, Indexed, TableType

\* sip_dialog_observe
LEMMA ObserveSound ==
  ASSUME NEW s, Sound(s), NEW c \in Cids, NEW k \in DialogKeys(c)
  PROVE  Sound(ObserveOpen(s, c, k)) /\ Sound(ObserveClosed(s, c, k))
  <1>1. k \in Keys
    BY KeyTypes
  <1>2. Sound(CallStateSet(s, k))
    BY <1>1, CallStateSetSound
  <1>3. Sound(ObserveOpen(s, c, k))
    BY <1>2, TrackDialogSound DEF ObserveOpen
  <1>4. Sound(ObserveClosed(s, c, k))
    BY <1>3, CleanupSound DEF ObserveClosed
  <1> QED BY <1>3, <1>4

\* Whatever message of a call is handled, the table stays sound.
LEMMA HandleSound ==
  ASSUME Sound(calls), NEW c \in Cids, Handle(c)
  PROVE  Sound(calls')
  <1> PICK k \in DialogKeys(c) :
        \/ InviteAdmitted(c, k) \/ InviteUnrouted(c, k) \/ InviteBusy(c, k)
        \/ RequestPasses(c, k) \/ RequestRejected(c, k) \/ ByeOrCancel(c, k)
        \/ TeardownResponse(c, k) \/ InviteTimeout(c, k)
    BY DEF Handle
  <1>0. Sound(CallStateSet(calls, CallKey(c)))
    BY CallStateSetSound, KeyTypes
  <1>1. CASE InviteAdmitted(c, k)
    BY <1>0, <1>1, ObserveSound DEF InviteAdmitted
  <1>2. CASE InviteUnrouted(c, k)
    BY <1>0, <1>2, ObserveSound DEF InviteUnrouted
  <1>3. CASE InviteBusy(c, k)
    BY <1>3, ObserveSound DEF InviteBusy
  <1>4. CASE RequestPasses(c, k)
    BY <1>4, ObserveSound DEF RequestPasses
  <1>5. CASE RequestRejected(c, k)
    BY <1>5, ObserveSound DEF RequestRejected
  <1>6. CASE ByeOrCancel(c, k)
    <2>1. Sound(IF CallKey(c) \in calls.rec THEN Cleanup(calls, c, k) ELSE calls)
      BY CleanupSound
    <2> QED BY <1>6, <2>1, ObserveSound DEF ByeOrCancel
  <1>7. CASE TeardownResponse(c, k)
    BY <1>7, CleanupSound DEF TeardownResponse
  <1>8. CASE InviteTimeout(c, k)
    BY <1>8, CleanupSound DEF InviteTimeout
  <1> QED BY <1>1, <1>2, <1>3, <1>4, <1>5, <1>6, <1>7, <1>8

\* The table is sound in every reachable state.
LEMMA SoundAlways == Spec => []Sound(calls)
  <1>1. Init => Sound(calls)
    <2> SUFFICES ASSUME Init PROVE Sound(calls)
      OBVIOUS
    <2>1. 0 \in Slots
      BY CapacityAssumption DEF Slots
    <2> QED BY <2>1 DEF Init, Empty, Sound, WellFormed, Indexed, TableType
  <1>2. Sound(calls) /\ [Next]_calls => Sound(calls)'
    BY HandleSound DEF Next
  <1> QED BY <1>1, <1>2, PTL DEF Spec

\* The table of calls is always well formed: whatever messages arrive, the
\* helpers of rfc.mko store only keys of the kinds they name and an index
\* entry lists only dialogs of its own call.
THEOREM TypeCorrect == Spec => []TypeOK
  <1>1. Sound(calls) => TypeOK
    BY DEF Sound, WellFormed, TypeOK
  <1> QED BY <1>1, SoundAlways, PTL

\* Every record stays indexed by call_state_ring|, whatever was cleaned up,
\* stored again or displaced: rfc_bounded_state_set never loses track of one.
THEOREM RingIndexedAlways == Spec => []RingIndexed
  <1>1. Sound(calls) => RingIndexed
    BY DEF Sound, Indexed, RingIndexed
  <1> QED BY <1>1, SoundAlways, PTL

---------------------------------------------------------------------------
(* A call turned away at the limit.                                        *)

\* The dialog key of a message and its reverse belong to the message's call.
LEMMA ReverseOwn ==
  ASSUME NEW c \in Cids, NEW k \in DialogKeys(c)
  PROVE  Reverse(k) \in DialogKeys(c)
  BY DEF DialogKeys, Reverse, Untagged, Tagged, Directions

\* sip_call_state_cleanup removes records of its call only.
LEMMA CleanupOwn ==
  ASSUME NEW s, Sound(s), NEW c \in Cids, NEW k \in DialogKeys(c)
  PROVE  s.rec \ KeysOf(c) \subseteq Cleanup(s, c, k).rec
  <1>1. Cleanup(s, c, k).rec = s.rec \ ({CallKey(c), Untagged(c), k, Reverse(k)} \cup s.list[c])
    BY DEF Cleanup
  <1>2. s.list[c] \subseteq DialogKeys(c)
    BY DEF Sound, WellFormed
  <1>3. {CallKey(c), Untagged(c), k, Reverse(k)} \subseteq KeysOf(c) /\ DialogKeys(c) \subseteq KeysOf(c)
    BY ReverseOwn DEF KeysOf, DialogKeys
  <1> QED BY <1>1, <1>2, <1>3

\* sip_call_state_track_dialog changes no record.
LEMMA TrackDialogRec ==
  ASSUME NEW s, Sound(s), NEW c, NEW k
  PROVE  TrackDialog(s, c, k).rec = s.rec
  BY DEF TrackDialog, Sound, WellFormed, TableType

\* A call answered 503 because the table is full costs no other call a record:
\* the table that refuses its call key refuses its dialog key too, so nothing
\* is displaced, and the cleanup that follows stays within the call.
THEOREM BusyEvictsNothingAlways == Spec => BusyEvictsNothing
  <1>1. ASSUME Sound(calls), NEW c \in Cids, NEW k \in DialogKeys(c), InviteBusy(c, k)
        PROVE  calls.rec \ KeysOf(c) \subseteq calls'.rec
    <2> DEFINE s == TrackDialog(calls, c, k)
    <2>1. CallStateSet(calls, k) = calls
      BY <1>1 DEF InviteBusy, Refused, CallStateSet, BoundedSet
    <2>2. calls' = Cleanup(s, c, k)
      BY <1>1, <2>1 DEF InviteBusy, ObserveClosed, ObserveOpen
    <2>3. Sound(s) /\ s.rec = calls.rec
      BY <1>1, TrackDialogSound, TrackDialogRec
    <2> HIDE DEF s
    <2> QED BY <2>2, <2>3, CleanupOwn
  <1>2. Sound(calls) => \A c \in Cids : \A k \in DialogKeys(c) :
           InviteBusy(c, k) => calls.rec \ KeysOf(c) \subseteq calls'.rec
    BY <1>1
  <1> QED BY <1>2, SoundAlways, PTL DEF BusyEvictsNothing

---------------------------------------------------------------------------
(* Teardown.  The index of a call must list all its dialogs, which needs   *)
(* room for them: when the list of a call outgrows its 2048 bytes it is    *)
(* started afresh, and dialogs drop out of it.                             *)

\* Every dialog record of a call is in the call's index entry
Tracked(s) == \A c \in Cids : s.rec \cap DialogKeys(c) \subseteq s.list[c]

\* The dialog keys of a call fit its index entry
Fits == \A c \in Cids : /\ IsFiniteSet(DialogKeys(c))
                        /\ Cardinality(DialogKeys(c)) <= MaxListed + 1

\* A key tells the call and the kind of record it belongs to.
LEMMA KeysApart ==
  ASSUME NEW c \in Cids, NEW d \in Cids
  PROVE  /\ CallKey(c) \notin DialogKeys(d)
         /\ c # d => DialogKeys(c) \cap DialogKeys(d) = {}
  BY DEF CallKey, DialogKeys, Untagged, Tagged, Directions

\* sip_call_state_set adds its key at most.
LEMMA CallStateSetRec ==
  ASSUME NEW s, NEW k
  PROVE  CallStateSet(s, k).rec \subseteq s.rec \cup {k}
  BY DEF CallStateSet, BoundedSet

\* A list that lacks a dialog key of its call is not overlong.
LEMMA ListShort ==
  ASSUME Fits, NEW c \in Cids, NEW k \in DialogKeys(c), NEW L, L \subseteq DialogKeys(c), k \notin L
  PROVE  ~(Cardinality(L) > MaxListed)
  <1> DEFINE D == DialogKeys(c)
  <1>1. IsFiniteSet(D) /\ Cardinality(D) <= MaxListed + 1 /\ Cardinality(D) \in Nat
    BY FS_CardinalityType DEF Fits
  <1>2. IsFiniteSet(L) /\ Cardinality(L) \in Nat
    BY <1>1, FS_Subset, FS_CardinalityType
  <1>3. Cardinality(L \cup {k}) = Cardinality(L) + 1
    BY <1>2, FS_AddElement
  <1>4. Cardinality(L \cup {k}) <= Cardinality(D)
    <2>1. L \cup {k} \subseteq D
      OBVIOUS
    <2> QED BY <1>1, <2>1, FS_Subset
  <1> QED BY <1>1, <1>2, <1>3, <1>4, MaxListedAssumption

\* sip_dialog_observe of a message that leaves its call open lists its dialog.
LEMMA ObserveOpenTracked ==
  ASSUME Fits, NEW s, Sound(s), Tracked(s), NEW c \in Cids, NEW k \in DialogKeys(c)
  PROVE  Tracked(ObserveOpen(s, c, k))
  <1> DEFINE u == CallStateSet(s, k)
             t == ObserveOpen(s, c, k)
  <1>1. Sound(u) /\ u.list = s.list /\ u.rec \subseteq s.rec \cup {k}
    BY CallStateSetSound, CallStateSetRec, KeyTypes
  <1>2. t = TrackDialog(u, c, k)
    BY DEF ObserveOpen
  <1> HIDE DEF u
  <1>3. u.list[c] \subseteq DialogKeys(c) /\ u.list \in [Cids -> SUBSET Keys]
    BY <1>1 DEF Sound, WellFormed, TableType
  <1>4. t.rec = u.rec
    BY <1>1, <1>2, TrackDialogRec
  <1>5. t.list = [u.list EXCEPT ![c] = u.list[c] \cup {k}]
    <2>1. t.list = [u.list EXCEPT ![c] = IF k \in u.list[c] THEN u.list[c]
                       ELSE (IF Cardinality(u.list[c]) > MaxListed THEN {} ELSE u.list[c]) \cup {k}]
      BY <1>1, <1>2 DEF TrackDialog, Sound, WellFormed, TableType
    <2>2. k \notin u.list[c] => ~(Cardinality(u.list[c]) > MaxListed)
      BY <1>3, ListShort
    <2>3. k \in u.list[c] => u.list[c] = u.list[c] \cup {k}
      OBVIOUS
    <2> QED BY <2>1, <2>2, <2>3
  <1> HIDE DEF t
  <1>6. ASSUME NEW d \in Cids PROVE t.rec \cap DialogKeys(d) \subseteq t.list[d]
    <2>1. s.rec \cap DialogKeys(d) \subseteq s.list[d]
      BY DEF Tracked
    <2>2. CASE d = c
      BY <1>1, <1>3, <1>4, <1>5, <2>1, <2>2
    <2>3. CASE d # c
      <3>1. k \notin DialogKeys(d)
        BY <2>3, KeysApart
      <3>2. t.list[d] = s.list[d]
        BY <1>1, <1>3, <1>5, <2>3
      <3> QED BY <1>1, <1>4, <2>1, <3>1, <3>2
    <2> QED BY <2>2, <2>3
  <1> QED BY <1>6 DEF Tracked, t

\* sip_call_state_cleanup of a call whose dialogs are listed leaves nothing of
\* it behind.
LEMMA CleanupTracked ==
  ASSUME NEW s, Sound(s), Tracked(s), NEW c \in Cids, NEW k
  PROVE  /\ Tracked(Cleanup(s, c, k))
         /\ Cleanup(s, c, k).rec \cap KeysOf(c) = {}
         /\ Cleanup(s, c, k).list[c] = {}
  <1> DEFINE t == Cleanup(s, c, k)
  <1>1. /\ t.rec = s.rec \ ({CallKey(c), Untagged(c), k, Reverse(k)} \cup s.list[c])
        /\ t.list = [s.list EXCEPT ![c] = {}]
    BY DEF Cleanup
  <1>2. s.list \in [Cids -> SUBSET Keys]
    BY DEF Sound, WellFormed, TableType
  <1> HIDE DEF t
  <1>3. t.rec \cap KeysOf(c) = {} /\ t.list[c] = {}
    BY <1>1, <1>2 DEF Tracked, KeysOf
  <1>4. Tracked(t)
    BY <1>1, <1>2, <1>3 DEF Tracked, KeysOf
  <1> QED BY <1>3, <1>4 DEF t

\* The call record does not count among the dialogs.
LEMMA CallKeyTracked ==
  ASSUME NEW s, Sound(s), Tracked(s), NEW c \in Cids
  PROVE  Tracked(CallStateSet(s, CallKey(c)))
  <1> DEFINE t == CallStateSet(s, CallKey(c))
  <1>1. t.list = s.list /\ t.rec \subseteq s.rec \cup {CallKey(c)}
    BY CallStateSetSound, CallStateSetRec, KeyTypes
  <1> HIDE DEF t
  <1>2. Tracked(t)
    BY <1>1, KeysApart DEF Tracked
  <1> QED BY <1>2 DEF t

\* Whatever message of a call is handled, dialogs stay listed.
LEMMA HandleTracked ==
  ASSUME Fits, Sound(calls), Tracked(calls), NEW c \in Cids, Handle(c)
  PROVE  Tracked(calls')
  <1> PICK k \in DialogKeys(c) :
        \/ InviteAdmitted(c, k) \/ InviteUnrouted(c, k) \/ InviteBusy(c, k)
        \/ RequestPasses(c, k) \/ RequestRejected(c, k) \/ ByeOrCancel(c, k)
        \/ TeardownResponse(c, k) \/ InviteTimeout(c, k)
    BY DEF Handle
  <1>1. ASSUME NEW s, Sound(s), Tracked(s)
        PROVE  Tracked(ObserveOpen(s, c, k)) /\ Tracked(ObserveClosed(s, c, k))
    <2>1. Sound(ObserveOpen(s, c, k)) /\ Tracked(ObserveOpen(s, c, k))
      BY <1>1, ObserveSound, ObserveOpenTracked
    <2> QED BY <2>1, CleanupTracked DEF ObserveClosed
  <1>2. /\ Sound(CallStateSet(calls, CallKey(c))) /\ Tracked(CallStateSet(calls, CallKey(c)))
    BY CallStateSetSound, CallKeyTracked, KeyTypes
  <1>3. Sound(Cleanup(calls, c, k)) /\ Tracked(Cleanup(calls, c, k))
    BY CleanupSound, CleanupTracked
  <1>4. CASE InviteAdmitted(c, k) \/ InviteUnrouted(c, k)
    BY <1>1, <1>2, <1>4 DEF InviteAdmitted, InviteUnrouted
  <1>5. CASE InviteBusy(c, k) \/ RequestPasses(c, k) \/ RequestRejected(c, k)
    BY <1>1, <1>5 DEF InviteBusy, RequestPasses, RequestRejected
  <1>6. CASE ByeOrCancel(c, k)
    BY <1>1, <1>3, <1>6 DEF ByeOrCancel
  <1>7. CASE TeardownResponse(c, k) \/ InviteTimeout(c, k)
    BY <1>3, <1>7 DEF TeardownResponse, InviteTimeout
  <1> QED BY <1>4, <1>5, <1>6, <1>7

\* A BYE or CANCEL, the answer to one and an INVITE timeout leave nothing of
\* their call in the table, whichever dialog the message names, as long as the
\* dialogs of a call fit its index entry.
THEOREM TeardownCompleteAlways ==
  ASSUME Fits
  PROVE  Spec => TeardownComplete
  <1>1. Init => Tracked(calls)
    BY DEF Init, Empty, Tracked
  <1>2. Sound(calls) /\ Tracked(calls) /\ [Next]_calls => Tracked(calls)'
    BY HandleTracked DEF Next
  <1>3. ASSUME Sound(calls), Tracked(calls), NEW c \in Cids, NEW k \in DialogKeys(c),
               ByeOrCancel(c, k) \/ TeardownResponse(c, k) \/ InviteTimeout(c, k)
        PROVE  calls'.rec \cap KeysOf(c) = {} /\ calls'.list[c] = {}
    <2>1. PICK s : Sound(s) /\ Tracked(s) /\ calls' = Cleanup(s, c, k)
      <3> DEFINE r == IF CallKey(c) \in calls.rec THEN Cleanup(calls, c, k) ELSE calls
      <3>1. Sound(r) /\ Tracked(r)
        BY <1>3, CleanupSound, CleanupTracked
      <3> HIDE DEF r
      <3>2. Sound(ObserveOpen(r, c, k)) /\ Tracked(ObserveOpen(r, c, k))
        BY <3>1, ObserveSound, ObserveOpenTracked
      <3>3. CASE ByeOrCancel(c, k)
        BY <3>2, <3>3 DEF ByeOrCancel, ObserveClosed, r
      <3>4. CASE TeardownResponse(c, k) \/ InviteTimeout(c, k)
        BY <1>3, <3>4 DEF TeardownResponse, InviteTimeout
      <3> QED BY <1>3, <3>3, <3>4
    <2> QED BY <2>1, CleanupTracked
  <1>4. Sound(calls) /\ Tracked(calls) => \A c \in Cids : \A k \in DialogKeys(c) :
           ByeOrCancel(c, k) \/ TeardownResponse(c, k) \/ InviteTimeout(c, k)
              => calls'.rec \cap KeysOf(c) = {} /\ calls'.list[c] = {}
    BY <1>3
  <1> QED BY <1>1, <1>2, <1>4, SoundAlways, PTL DEF Spec, TeardownComplete

=============================================================================
