SPECIFICATION Spec
CONSTANTS
    p1 = p1  p2 = p2  k1 = k1  k2 = k2  e1 = e1  None = None
    Stores <- TwoStores
    Keys <- TwoKeys
    Events <- OneEvent
    Versions <- TwoVersions
    MaxRevisions = 3
    Initial <- InitialState
    Reduce <- ReduceState
    Upgrade <- UpgradeState
    Accepts <- AnySchema
CHECK_DEADLOCK FALSE
INVARIANTS Reopens
