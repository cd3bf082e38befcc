SPECIFICATION FairSpec
CONSTANTS
    r1 = r1
    r2 = r2
    Requests = {r1, r2}
    Settings <- MCSettings
    Classes = {"TRANSFERABLE", "VERIFIABLE"}
    Versions = {v1, v2}
    MaxFlows = 2
    MaxAttempts = 3
    MaxStalledCount = 1
INVARIANT TypeOK
 
INVARIANT OneToken
 
INVARIANT AcceptedBounded
PROPERTY IssuedStays
 
CHECK_DEADLOCK FALSE
