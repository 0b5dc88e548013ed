SPECIFICATION SdkSpec
CONSTANTS
    MaxEvents = 4
    PageLimit = 3
    Fit = 2
    MaxBreaks = 2
    Ops <- MCOps
    MaxTries = 3
    MAX_RETRIES = 3
    Bills = {1, 2, 3}
    Billers = {"b1", "b2"}
    BatchLimit = 2
    MaxCrashes = 2
INVARIANTS LossAccounted 
PROPERTIES ImplementsFeed CatchesUp Billed
CHECK_DEADLOCK FALSE
