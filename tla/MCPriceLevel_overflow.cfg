SPECIFICATION Spec
CONSTANTS
    Blocks = {b1, b2, b3}
    PriceLevels = {l1}
    Quantities = {1, 3}
    QuantityEnd = 4
    None = None
SYMMETRY Symmetry
PROPERTY PruneTotalsAreExact
