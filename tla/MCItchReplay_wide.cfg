SPECIFICATION ReplaySpec
CONSTANTS
    OrderIds = {o1, o2}
    Blocks = {b1, b2}
    MinPrice = 1
    MaxPrice = 2
    Quantities = {0, 1, 2}
    None = None
    Shares = {1, 6}
    QuantityEnd = 4
    VolumeEnd = 16
    Locates = {t1, t2}
    Symbol = 1
    OtherSymbols = {0}
    MaxMessages = 4
SYMMETRY Symmetry
INVARIANT LevelVolumesAreSums
