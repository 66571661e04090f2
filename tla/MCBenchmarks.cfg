SPECIFICATION BenchSpec
CONSTANTS
    Batches = {2, 3, 4}
    Depths = {1, 2, 3}
    OrderIds <- Ids
    MinPrice = 1
    MaxPrice = 12
    Quantities = {0, 1, 2, 3, 4, 5}
    None = None
INVARIANT MeasurementIsSound
PROPERTY EachCallTakesItsPath
