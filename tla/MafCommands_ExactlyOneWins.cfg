CONSTANTS
    k1 = k1
    c1 = c1
    Keys = {k1}
    Calls = {c1}
    Requests <- MCRequests
    Clients = {a1}
    Workers = {w1, w2}
    Batch = 2
    Limit = 0
    MaxAttempts = 1
    MaxFaults = 0
    None = None
SPECIFICATION ExecSpec
PROPERTY ExactlyOneWins
