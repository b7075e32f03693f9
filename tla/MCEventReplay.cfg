SPECIFICATION Spec
CONSTANTS
    ReplayLimit = 2
    MaxEvents = 4
    MaxSubs = 2
CHECK_DEADLOCK FALSE
INVARIANT ReplayComplete
