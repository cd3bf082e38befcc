SPECIFICATION Spec
CONSTANTS
    Docs = {d1, d2}
    First = d1
    NoDoc = NoDoc
    Types = {"invoice", "other", "bill_of_lading"}
    Slots = {s1, s2}
    Groups <- MCGroups
    MaxCalls = 4
    MaxLinks = 1
    MaxFaults = 1
INVARIANT TypeOK
INVARIANT NamedFilesStored
 
INVARIANT IssuedIsKept
INVARIANT AccessesAccounted
CHECK_DEADLOCK FALSE
SYMMETRY MCSymmetry
