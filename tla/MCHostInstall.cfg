SPECIFICATION Spec
CONSTANTS
    None = None
    Epochs <- MCEpochs
    Entries <- MCEntries
    Dirs <- MCDirs
    Contents <- MCContents
    AppServer = TRUE
    MaxQueue = 2
    MaxFaults = 3
CHECK_DEADLOCK FALSE
INVARIANTS AttachedIntact PointersLead PointersKnown
