------------------------------ MODULE HssStore ------------------------------
(***************************************************************************)
(* The subscribers of the lab HSS (class HssStore of lab/ims_hss.py).  The *)
(* table maps a pair of identities to a Subscriber object, in the order of *)
(* insertion; operations run under its lock.  Objects are shared: a reader *)
(* keeps the object it found, which is changed in place by updates and may *)
(* be replaced or removed from the table meanwhile.  The fields of object  *)
(* o are server[o], enabled[o] and the keys of its profile dictionary,     *)
(* profile[o].                                                             *)
(***************************************************************************)
EXTENDS Integers, Sequences, FiniteSets, SequencesExt

CONSTANTS
    Publics, Privates,  \* identities
    Servers,            \* assigned server names
    ProfileKeys,        \* fields a service profile may have
    MaxSubscribers,     \* max_subscribers
    MaxObjs,            \* objects kept apart: as many as can be referred to
    None,
    Bad                 \* a field the validation refuses

Keys == Publics \X Privates
Objs == 1 .. MaxObjs

ASSUME StoreAssumption ==
    /\ MaxSubscribers \in Nat \ {0} /\ MaxObjs \in Nat
    /\ IsFiniteSet(Publics) /\ IsFiniteSet(Privates)
    /\ None \notin Objs /\ None \notin Privates /\ None \notin Servers /\ None \notin BOOLEAN

VARIABLES
    items,    \* object of a pair of identities, None when not provisioned
    order,    \* the pairs in the table, oldest first
    server, enabled, profile

storeVars == <<items, order, server, enabled, profile>>

Provisioned == {k \in Keys : items[k] # None}

\* Mutation: the capacity is not tested
HasRoomAlways(k) == TRUE

\* provision: a new pair needs room, a known one is replaced in its place
HasRoom(k) == items[k] # None \/ Cardinality(Provisioned) < MaxSubscribers

Unused(inUse) == Objs \ (inUse \cup {items[k] : k \in Keys})
Lowest(S) == {o \in S : \A q \in S : o <= q}

\* provision of a document, as a new object; inUse are the objects still held
provision(d, inUse) ==
    LET k == <<d.public, d.private>> IN
    /\ HasRoom(k)
    /\ \E o \in Lowest(Unused(inUse)) :
          /\ items' = [items EXCEPT ![k] = o]
          /\ order' = IF items[k] = None THEN Append(order, k) ELSE order
          /\ server' = [server EXCEPT ![o] = d.server]
          /\ enabled' = [enabled EXCEPT ![o] = d.enabled]
          /\ profile' = [profile EXCEPT ![o] = d.profile]

\* the place of the oldest pair with this public identity
First(public) ==
    {i \in DOMAIN order : /\ order[i][1] = public
                          /\ \A j \in DOMAIN order : order[j][1] = public => i <= j}
Oldest(public) == {order[i] : i \in First(public)}

\* find: by both identities, or the oldest with the public one; the object
\* found, or None, as a set of one
find(public, private) ==
    IF private # None THEN {items[<<public, private>>]}
    ELSE IF Oldest(public) = {} THEN {None} ELSE {items[k] : k \in Oldest(public)}

\* remove: only the oldest pair of the public identity
remove(public) ==
    /\ \E i \in First(public) :
          /\ items' = [items EXCEPT ![order[i]] = None]
          /\ order' = RemoveAt(order, i)
    /\ UNCHANGED <<server, enabled, profile>>

\* set_enabled: only the oldest pair of the public identity
set_enabled(public, value) ==
    /\ \E o \in find(public, None) \ {None} : enabled' = [enabled EXCEPT ![o] = value]
    /\ UNCHANGED <<items, order, server, profile>>

\* a field of an update: absent, refused or new
Given(x) == x \notin {None, Bad}

\* update: the fields are taken one by one until one is refused, and those
\* taken before it stay
update(public, u) ==
    /\ \E o \in find(public, None) \ {None} :
          /\ server' = IF Given(u.server) THEN [server EXCEPT ![o] = u.server] ELSE server
          /\ profile' = IF u.server # Bad /\ Given(u.profile)
                        THEN [profile EXCEPT ![o] = u.profile] ELSE profile
          /\ enabled' = IF u.server # Bad /\ u.profile # Bad /\ Given(u.enabled)
                        THEN [enabled EXCEPT ![o] = u.enabled] ELSE enabled
    /\ UNCHANGED <<items, order>>

\* service_profile.update of an object, in the table or not
MergeProfile(o, keys) == profile' = [profile EXCEPT ![o] = @ \cup keys]

\* what the table says of the subscribers with these identities
State(o) == [server |-> server[o], enabled |-> enabled[o]]
Named(public, private, k) == k[1] = public /\ private \in {None, k[2]}
Visible(public, private) ==
    {State(items[k]) : k \in {m \in Provisioned : Named(public, private, m)}}

---------------------------------------------------------------------------
(* Properties *)

StoreTypeOK ==
    /\ items \in [Keys -> Objs \cup {None}]
    /\ order \in Seq(Keys)
    /\ server \in [Objs -> Servers]
    /\ enabled \in [Objs -> BOOLEAN]
    /\ profile \in [Objs -> SUBSET ProfileKeys]

\* The table never holds more subscribers than its limit, the order lists
\* exactly the provisioned pairs, each once, and no two pairs share an object.
StoreWhole ==
    /\ Cardinality(Provisioned) <= MaxSubscribers
    /\ {order[i] : i \in DOMAIN order} = Provisioned
    /\ \A i, j \in DOMAIN order : order[i] = order[j] => i = j
    /\ \A k, m \in Keys : items[k] # None /\ items[k] = items[m] => k = m
=============================================================================
