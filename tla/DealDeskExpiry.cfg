SPECIFICATION FairSpec
CONSTANTS
    Requests = {q1}
    Checkers = {k1}
    Contents = {c1, c2}
    MaxAttempts = 2
    MaxStalledCount = 1
    Settings <- MCExpirySettings
    MaxNotes = 2
    MaxFlows = 1
    MaxFaults = 1
PROPERTY AgreementsExpire
CHECK_DEADLOCK FALSE
