SPECIFICATION FairSpec
CONSTANTS
    NumCalls = 3
    None = None
CHECK_DEADLOCK FALSE
INVARIANTS
    NeverFatal
    ObjectsAtHome
PROPERTIES
    FinalizedAlone
    ImplementsCalls
    ProcessEnds
