SPECIFICATION ReplaySpec
CONSTANTS
    OrderIds = {o1, o2, o3}
    Blocks = {b1, b2, b3}
    MinPrice = 1
    MaxPrice = 2
    Quantities = {0, 1, 2}
    None = None
    Shares = {0, 1, 2}
    QuantityEnd = 4
    VolumeEnd = 16
    Locates = {t1, t2}
    Symbol = 1
    OtherSymbols = {0}
    MaxMessages = 7
SYMMETRY Symmetry
INVARIANT ReplayTypeOK
INVARIANT ReplayKeepsBookSound
INVARIANT CountersMatchBook
PROPERTY ImplementsVisibleBook
