SPECIFICATION Spec
CONSTANTS
    OrderIds = {o1, o2, o3}
    Blocks = {b1, b2, b3}
    MinPrice = 1
    MaxPrice = 3
    Quantities = {0, 1, 3}
    QuantityEnd = 16
    None = None
SYMMETRY Symmetry
INVARIANT TypeOK
INVARIANT Coherent
INVARIANT BestPriceIsBest
INVARIANT VolumeIsSum
INVARIANT NotCrossed
INVARIANT FillOrKillFillsAll
INVARIANT ResultTellsWhatHappened
INVARIANT ModificationCompletes
PROPERTY PriceTimePriority
PROPERTY QueuePlaceIsKept
PROPERTY TradesBalance
PROPERTY SessionEndAccounts
