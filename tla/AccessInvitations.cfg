SPECIFICATION Spec
CONSTANTS
    Users = {u1, u2}
    Existing = {u1}
    Slots = {s1, s2}
    MaxFailed = 2
    Groups <- MCGroups
    Undefined = Undefined
    MaxCalls = 4
    MaxFaults = 1
CHECK_DEADLOCK FALSE
INVARIANT InvitationsOpen
SYMMETRY MCSymmetry
