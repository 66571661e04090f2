SPECIFICATION FaultSpec
CONSTANTS
    OrderIds = {o1, o2, o3}
    Blocks = {b1, b2}
    MinPrice = 1
    MaxPrice = 2
    Quantities = {0, 1, 2}
    QuantityEnd = 16
    None = None
PROPERTY CallsReturn
PROPERTY ImplementsLimitOrderBook
PROPERTY OutOfBlocksLosesNothing
