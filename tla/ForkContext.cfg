CONSTANTS
    Width = 2
    Attempts = 1
    MaxBranches = 2
    Finals = {486, 603}
    Concurrent = TRUE
SPECIFICATION Spec
CHECK_DEADLOCK FALSE
INVARIANTS BestIsBest CancelledUnlessLate 
