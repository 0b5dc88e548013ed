CONSTANTS
    k1 = k1
    c1 = c1
    Keys = {k1}
    Calls = {c1}
    Requests <- MCRequests
    Clients = {a1, a2}
    Workers = {w1, w2}
    Batch = 2
    Limit = 1
    MaxAttempts = 2
    MaxFaults = 1
    None = None
SPECIFICATION ExecFairSpec
INVARIANTS AnsweredStored CallBeforeCommand ExecutionsBounded
PROPERTIES HolderUndisturbed SettledForGood Settles
