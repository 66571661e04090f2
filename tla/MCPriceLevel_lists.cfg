SPECIFICATION Spec
CONSTANTS
    Blocks = {b1, b2, b3, b4}
    PriceLevels = {l1, l2}
    Quantities = {1, 2}
    QuantityEnd = 16
    None = None
SYMMETRY Symmetry
INVARIANT TypeOK
INVARIANT ListsAreSound
INVARIANT WalkMissesNoOrder
PROPERTY PruneTotalsAreExact
PROPERTY ImplementsFifoLevels
