SPECIFICATION Spec
CONSTANTS
    Publics = {"p"}
    Privates = {"a", "b", "c"}
    Servers = {"s1", "s2"}
    ProfileKeys = {"uris", "ifc"}
    MaxSubscribers = 2
    MaxObjs = 3
    None = None
    Bad = Bad
    Conns = {d1, d2, d3}
    Https = {"h1"}
    MaxConns = 2
    Rands = {"r1", "r2"}
    Requests <- MCRequests
    Authorizes <- MCAuthorizes
    Documents <- MCDocuments
    Updates <- MCUpdates
    Seeds <- MCSeeds
    http_token = None
    provision_token = "secret"
    Supplied = {"secret"}
    MaxRequests = 2
    MaxEdits = 1
INVARIANTS StoreWhole SlotsCounted Honest AutsIssued
SYMMETRY Symmetry
CHECK_DEADLOCK FALSE
