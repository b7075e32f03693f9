SPECIFICATION FairSpec
CONSTANTS
    p1 = p1  p2 = p2  p3 = p3  None = None
    Procs <- MCProcs
    MaxFaults = 2
    PidReuse = FALSE
    GateRace = FALSE
CHECK_DEADLOCK FALSE
INVARIANTS OwnerHasLock CleanExit
PROPERTIES AcquireSettles CloseSettles
