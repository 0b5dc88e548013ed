------------------------------ MODULE NgCodec ------------------------------
(***************************************************************************)
(* The wire formats of the relay's control protocol (media/rtp_module.py): *)
(* bencoded payloads and the SDP they carry.  A payload is a sequence of   *)
(* tokens: an integer or a byte string is one token (or a bad one, when    *)
(* its digits or its length are refused), the markers of lists and of      *)
(* dictionaries are tokens of their own.  An SDP is a byte string made of  *)
(* lines, of which only connection and audio lines are told apart; host 0  *)
(* is an address that is unspecified or does not parse.                    *)
(***************************************************************************)
EXTENDS Integers, Sequences, FiniteSets, SequencesExt, FiniteSetsExt

CONSTANTS
    MaxDepth,  \* MAX_BENCODE_DEPTH
    MaxList,   \* items of a list
    MaxDict,   \* entries of a dictionary
    BadTexts   \* empty, too long or not printable ASCII

\* the values in a dictionary are read, and the two entries of a reply fit
ASSUME CodecAssumption == MaxDepth \in Nat \ {0} /\ MaxDict \in Nat \ {0, 1}

\* tokens; the first three are values as well, next to lists and dictionaries
Text(s) == [text |-> s]
Sdp(lines) == [sdp |-> lines]
Number(n) == [int |-> n]
Mark(m) == [mark |-> m]
List(items) == [list |-> items]
Dict(entries) == [dict |-> entries]
Entry(k, v) == [key |-> k, val |-> v]

IsText(v) == DOMAIN v = {"text"}
IsSdp(v) == DOMAIN v = {"sdp"}
IsList(v) == DOMAIN v = {"list"}
IsDict(v) == DOMAIN v = {"dict"}

\* what a decoder raises
Error == [error |-> TRUE]
Decoded(v, next) == [val |-> v, next |-> next]

---------------------------------------------------------------------------
(* Bencoding *)

\* the keys the relay uses, in the order of their bytes
KeyOrder == <<"call-id", "command", "error-reason", "from-tag", "result", "sdp", "to-tag">>
KeyRank(k) == CHOOSE i \in DOMAIN KeyOrder : KeyOrder[i] = k

\* the entries sorted by their keys
Arranged(entries, p) == [i \in DOMAIN entries |-> entries[p[i]]]
InKeyOrder(entries) ==
    CHOOSE es \in {Arranged(entries, p) : p \in Bijection(DOMAIN entries, DOMAIN entries)} :
       \A i, j \in DOMAIN es : i < j => KeyRank(es[i].key) <= KeyRank(es[j].key)

\* a list or a dictionary as its marks and what is in it; entries are sorted
Opened(v) ==
    CASE IsList(v) -> <<Mark("l")>> \o v.list \o <<Mark("e")>>
      [] IsDict(v) -> LET es == InKeyOrder(v.dict) IN
                      <<Mark("d")>>
                        \o FlattenSeq([i \in DOMAIN es |-> <<Text(es[i].key), es[i].val>>])
                        \o <<Mark("e")>>
      [] OTHER -> <<v>>

\* bound of the model: how deep the values are that are encoded, one level more
\* than the decoder takes
Nesting == MaxDepth + 2

\* _bencode: what is in a value is encoded in its place, level by level
OpenAll(s) == FlattenSeq([i \in DOMAIN s |-> Opened(s[i])])
_bencode(v) ==
    LET Level[n \in 0 .. Nesting] == IF n = 0 THEN <<v>> ELSE OpenAll(Level[n - 1])
    IN Level[Nesting]

\* _bdecode: a list is not too long, a dictionary is not too large and has no
\* key twice
ListOf(r) ==
    IF r = Error \/ Len(r.val) > MaxList THEN Error ELSE Decoded(List(r.val), r.next)
DictAccepted(entries) ==
    /\ Len(entries) <= MaxDict
    /\ IsInjective([i \in DOMAIN entries |-> entries[i].key])
DictOf(r) ==
    IF r = Error \/ ~ DictAccepted(r.val) THEN Error ELSE Decoded(Dict(r.val), r.next)

\* the loops of _bdecode over items and entries: one and those after it
ItemThen(item, rest) ==
    IF item = Error \/ rest = Error THEN Error
    ELSE Decoded(<<item.val>> \o rest.val, rest.next)
EntryThen(key, item, rest) ==
    IF key = Error \/ ~ IsText(key.val) \/ item = Error \/ rest = Error THEN Error
    ELSE Decoded(<<Entry(key.val.text, item.val)>> \o rest.val, rest.next)

\* _bdecode at a position: a value, or what is left of items or entries up to
\* the end mark, with the position after it.  At is what its calls return.
DecodeAt(data, At, what, i, depth) ==
    IF i > Len(data) \/ depth > MaxDepth THEN Error
    ELSE CASE what = "value" /\ data[i] = Mark("l") -> ListOf(At[<<"items", i + 1, depth>>])
           [] what = "value" /\ data[i] = Mark("d") -> DictOf(At[<<"entries", i + 1, depth>>])
           [] what = "value" /\ DOMAIN data[i] = {"mark"} /\ data[i] \notin {Mark("l"), Mark("d")} ->
                Error
           [] what = "value" /\ DOMAIN data[i] # {"mark"} -> Decoded(data[i], i + 1)
           [] what # "value" /\ data[i] = Mark("e") -> Decoded(<<>>, i + 1)
           [] what = "items" /\ data[i] # Mark("e") ->
                LET item == At[<<"value", i, depth + 1>>] IN
                ItemThen(item, At[<<"items", item.next, depth>>])
           [] what = "entries" /\ data[i] # Mark("e") ->
                LET key == At[<<"value", i, depth + 1>>]
                    item == At[<<"value", key.next, depth + 1>>]
                IN EntryThen(key, item, At[<<"entries", item.next, depth>>])

\* _bdecode: the value at the start
Place(data) == {"value", "items", "entries"} \X (1 .. (Len(data) + 1)) \X (0 .. (MaxDepth + 1))
_bdecode(data) ==
    LET At[x \in Place(data)] == DecodeAt(data, At, x[1], x[2], x[3])
    IN At[<<"value", 1, 0>>]

\* bdecode_dict: one dictionary and nothing after it
bdecode_dict(data) ==
    LET r == _bdecode(data) IN
    IF r = Error \/ r.next # Len(data) + 1 \/ ~ IsDict(r.val) THEN Error ELSE r.val

\* command.get of a decoded dictionary
Has(d, k) == \E i \in DOMAIN d.dict : d.dict[i].key = k
Get(d, k) == d.dict[CHOOSE i \in DOMAIN d.dict : d.dict[i].key = k].val

\* _text and _sdp_text: the lines of an SDP are control characters to the first
HasText(d, k) == Has(d, k) /\ IsText(Get(d, k)) /\ Get(d, k).text \notin BadTexts
HasSdp(d) == HasText(d, "sdp") \/ (Has(d, "sdp") /\ IsSdp(Get(d, "sdp")))
SdpOf(d) == IF IsSdp(Get(d, "sdp")) THEN Get(d, "sdp").sdp ELSE <<[kind |-> "text", at |-> 0]>>

---------------------------------------------------------------------------
(* SDP *)

\* the largest port a media line may have
MaxPort == 65535

Line(kind, at) == [kind |-> kind, at |-> at]
IsSequence(sdp) == Len(sdp) \in Nat /\ DOMAIN sdp = 1 .. Len(sdp)
Lines(sdp, kind) == {i \in DOMAIN sdp : sdp[i].kind = kind}

\* parse_sdp: one routable connection line, one audio line with its port; a
\* connection to an unspecified address (hold) is passed over
parse_sdp(sdp) ==
    LET conns == {i \in Lines(sdp, "c") : sdp[i].at # 0}
        audio == Lines(sdp, "m")
        valid == /\ sdp[1].kind = "v"
                 /\ Cardinality(conns) = 1 /\ Cardinality(audio) = 1
                 /\ \A i \in audio : sdp[i].at \in 1 .. MaxPort
    IN IF valid THEN [address |-> <<sdp[Max(conns)].at, sdp[Max(audio)].at>>] ELSE Error

\* Mutation: the media port is left as it was
rewrite_sdp_Port(sdp, ip, port) ==
    [i \in DOMAIN sdp |-> IF i = Min(Lines(sdp, "c")) THEN Line("c", ip) ELSE sdp[i]]

\* rewrite_sdp: the first connection line and the first audio line
rewrite_sdp(sdp, ip, port) ==
    [i \in DOMAIN sdp |-> CASE i = Min(Lines(sdp, "c")) -> Line("c", ip)
                            [] i = Min(Lines(sdp, "m")) -> Line("m", port)
                            [] OTHER -> sdp[i]]
=============================================================================
