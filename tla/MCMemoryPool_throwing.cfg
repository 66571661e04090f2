SPECIFICATION Spec
CONSTANTS
    InitialSize = 2
    MaxElements = 4
    Orders = {o1, o2}
    None = None
    MayRunOut = TRUE
INVARIANT OwnedMemoryIsFreed
CHECK_DEADLOCK FALSE
