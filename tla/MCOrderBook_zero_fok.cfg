SPECIFICATION Spec
CONSTANTS
    OrderIds = {o1, o2}
    Blocks = {b1, b2}
    MinPrice = 1
    MaxPrice = 2
    Quantities = {0, 1}
    QuantityEnd = 16
    None = None
SYMMETRY Symmetry
INVARIANT LiquidityAskedIsPositive
