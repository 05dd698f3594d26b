CONSTANTS
    i1 = i1
    i2 = i2
    o1 = o1
    o2 = o2
    Initializer = {i1, i2}
    Opener = {o1, o2}
    Legacy = Legacy
    Foreign = Foreign
    None = None
SPECIFICATION Spec
SYMMETRY Symmetry
INVARIANTS
    TypeOK
    HomesAreWhole
PROPERTIES
    NothingReplaced
CHECK_DEADLOCK FALSE
