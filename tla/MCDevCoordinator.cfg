SPECIFICATION FairSpec
CONSTANTS
    c1 = c1  r1 = r1  None = None
    Coordinators <- One
    Callers <- OneCaller
    MaxSource = 2
CHECK_DEADLOCK FALSE
INVARIANTS BuildsUnderLock FreshAnswers CloseLeavesNothing
PROPERTIES CallsAnswered ChangesBuilt CloseSettles
