------------------------------- MODULE MCHss -------------------------------
(* One public identity with private ones, two slots and a third peer. *)
EXTENDS Hss

Symmetry == Permutations(Conns)

Req(cmd, private, srv) ==
    [cmd |-> cmd, public |-> "p", private |-> private, server |-> srv, auts |-> None, keys |-> None]

MCRequests ==
    {Req("UAR", "a", "s1"), Req("LIR", None, None), Req("SNR", None, None),
     [Req("MAR", "a", None) EXCEPT !.auts = "r1"], Req("MAR", "a", None),
     [Req("MAR", "b", None) EXCEPT !.auts = "r1"], Req("MAR", "b", None),
     Req("UDR", None, None), [Req("PUR", None, None) EXCEPT !.keys = {"uris", "ifc"}]}
MCAuthorizes == {Req("authorize", "a", "s1")}

Doc(private, srv) ==
    [public |-> "p", private |-> private, server |-> srv, enabled |-> TRUE, profile |-> {"uris"}]
MCSeeds == <<Doc("a", "s1"), Doc("b", "s2")>>
MCDocuments == {Doc("a", "s2"), Doc("c", "s1")}

MCUpdates ==
    {[server |-> "s2", profile |-> Bad, enabled |-> FALSE],
     [server |-> None, profile |-> {"ifc"}, enabled |-> FALSE]}
=============================================================================
