CONSTANTS
    f1 = f1
    f2 = f2
    Workers = 2
    Capacity = 1
    Frame = {f1, f2}
    None = None
SPECIFICATION FairSpec
INVARIANTS
    TypeOK
    OwnAnswers
    HandlesOutliveUse
PROPERTIES
    StopEnds
CHECK_DEADLOCK FALSE
