CONSTANTS
    Frames = 2
    Call = {1, 2, 3}
    MaxConnections = 1
    MaxStops = 1
    Scripts <- MCCalls
SPECIFICATION FairSpec
PROPERTY
    ReadInTimeIsServed
CHECK_DEADLOCK FALSE
