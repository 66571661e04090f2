SPECIFICATION Spec
CONSTANTS
    InitialSize = 1
    MaxElements = 8
    Orders = {o1, o2}
    None = None
    MayRunOut = TRUE
SYMMETRY Symmetry
INVARIANT TypeOK
INVARIANT OrdersIntact
INVARIANT NothingIsLost
INVARIANT CountersAgree
PROPERTY ReusesBeforeGrowing
PROPERTY ImplementsBlockPool
CHECK_DEADLOCK FALSE
