SPECIFICATION ResponsiveSpec
CONSTANTS
    Deals = {d1}
    NoDeal = NoDeal
    Requests = {r1, r2}
    Workers = {w1, w2}
    Terms = {t1, t2}
    Payload <- MCPayload
    MaxJobs = 2
    MaxAttempts = 2
    MaxStalledCount = 1
    MaxFaults = 1
    MaxDirect = 1
INVARIANT TypeOK
INVARIANT JobsOwned
INVARIANT RecordsBoundedByWorkers
INVARIANT RecordsBoundedByRequests
PROPERTY RegistrySpec
 
 
CHECK_DEADLOCK FALSE
