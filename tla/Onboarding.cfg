SPECIFICATION FairSpec
CONSTANTS
    Registrations = {g1, g2}
    NoRegistration = NoRegistration
    Wallets = {a1}
    NoWallet = NoWallet
    Requests = {q1}
    Workers = {w1, w2}
    Payload = {g1, g2}
    MaxJobs = 2
    MaxAttempts = 2
    MaxStalledCount = 1
    MaxFaults = 2
    MaxDirect = 1
    Checks = 2
INVARIANT TypeOK
 
INVARIANT CompletedMeansChecked
PROPERTY RegistrationsOnboarded
CHECK_DEADLOCK FALSE
