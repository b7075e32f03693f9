SPECIFICATION LeaseSpec
CONSTANTS
    s1 = s1  s2 = s2  l1 = l1  l2 = l2  None = None
    Ids <- TwoIds
    Stores <- TwoStores
    Leases <- TwoLeases
    Retain = 0
    MaxStaged = 1
    MaxFaults = 1
    PowerFailures = FALSE
    ClockForward = FALSE
SYMMETRY Symmetry
VIEW MemoryView
CHECK_DEADLOCK FALSE
PROPERTIES LeaseProtects ImplementsCatalog
