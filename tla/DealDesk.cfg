SPECIFICATION Spec
CONSTANTS
    Requests = {q1}
    Checkers = {k1}
    Contents = {c1, c2}
    MaxAttempts = 2
    MaxStalledCount = 1
    Settings <- MCSettings
    MaxNotes = 2
    MaxFlows = 2
    MaxFaults = 2
INVARIANT TypeOK
INVARIANT FundedMeansSigned
 
 
CHECK_DEADLOCK FALSE
