SPECIFICATION FairSpec
CONSTANTS
    s1 = s1  s2 = s2  l1 = l1  l2 = l2  None = None
    Ids <- FourIds
    Stores <- OneStore
    Leases <- OneLease
    Retain = 2
    MaxStaged = 1
    MaxFaults = 2
    PowerFailures = TRUE
    ClockForward = TRUE
CHECK_DEADLOCK FALSE
INVARIANTS ActiveIntact RollbackComplete PowerLossSafe SuccessIsDurable
PROPERTIES RetentionKeepsNewest DeletionOrder CallsSettle
