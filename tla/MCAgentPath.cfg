CONSTANTS
    Frames = 2
    Call = {1, 2, 3}
    MaxConnections = 1
    MaxStops = 1
    Scripts <- MCScripts
SPECIFICATION FairSpec
INVARIANTS
    TypeOK
    AnswersAreTrue
PROPERTIES
    Exchanges
    BridgeEnds
CHECK_DEADLOCK FALSE
