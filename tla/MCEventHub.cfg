SPECIFICATION Spec
CONSTANTS
    ReplayLimit = 2
    MaxEvents = 4
    MaxSubs = 3
CHECK_DEADLOCK FALSE
INVARIANTS NeverReentered Ordered CaughtUp LiveNeverMissed
