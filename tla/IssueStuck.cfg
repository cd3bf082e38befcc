SPECIFICATION FairSpec
CONSTANTS
    r1 = r1
    r2 = r2
    Requests = {r1, r2}
    Settings <- MCStuckSettings
    Classes = {"TRANSFERABLE"}
    Versions = {v1}
    MaxFlows = 1
    MaxAttempts = 3
    MaxStalledCount = 1
PROPERTY ProcessingEnds
CHECK_DEADLOCK FALSE
