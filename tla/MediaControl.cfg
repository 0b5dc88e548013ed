SPECIFICATION ControlSpec
CONSTANTS
    Calls = {"c1", "c2", "c3"}
    Tags = {"a", "b"}
    MediaMin = 1
    MediaMax = 3
    MaxSessions = 2
    Endpoints <- MCEndpoints
    Timeout = 1
    None = None
    MaxDepth = 2
    MaxList = 1
    MaxDict = 6
    BadTexts = {""}
    Datagrams <- MCDatagrams
    control_allow = {"proxy"}
    MediaIp = 9
INVARIANTS SocketsOwned FreshNotServed SessionsWhole ReplySdp
PROPERTIES AnswerOnce LatchKept Reclaimed
