SPECIFICATION Spec
CONSTANTS
    p1 = p1  p2 = p2  p3 = p3  None = None
    Procs <- MCProcs
    MaxFaults = 0
    PidReuse = FALSE
    GateRace = TRUE
SYMMETRY Symmetry
CHECK_DEADLOCK FALSE
INVARIANT SingleWriter
