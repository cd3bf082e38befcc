SPECIFICATION FairSpec
CONSTANTS
    g1 = g1
    a1 = a1
    Registrations = {g1}
    Wallets = {a1}
    WalletOf <- MCWalletOf
    Users = {u1, u2}
    Requests = {q1}
    Workers = {w1, w2}
    RoleSets = {{"Manager"}, {"Manager", "Agent", "Supervisor"}}
    Opened = {}
    Payload = {g1}
    MaxJobs = 2
    MaxAttempts = 2
    MaxStalledCount = 1
    AskedStatuses = {"ACTIVE", "CLOSED"}
    AskedUser = {"Active", "Deleted"}
    MaxFaults = 1
    MaxDecisions = 2
INVARIANT TypeOK
INVARIANT OneFirstUser
PROPERTY ApprovalsOpenAccounts
PROPERTY SuspensionLocksOut
CHECK_DEADLOCK FALSE
