SPECIFICATION MCSpec
CONSTANTS
    None = None
    a = a
    b = b
    c = c
    Ids <- MCIds
    Leases = {l}
    RetainInactive = 1
    MaxSequence = 3
    MaxTail = 2
    MaxFaults = 1
CHECK_DEADLOCK FALSE
INVARIANTS CommittedWhole LeasedKept CloseLeavesNothing
PROPERTIES RetentionKeeps ExcessPruned
