SPECIFICATION SessionSpec
CONSTANTS
    Base = 2
    Captures <- MCCaptures
    Cuts = {0, 1, 2, 3, 4, 5, 6, 7, 8, 9, 10, 11, 12, 13, 14, 15, 16}
    StopLabels <- MCStopLabels
    StopTimes <- StopTimesOfLabels
    TicksPerSecond = 2
    Depth = 2
    OrderIds = {0, 1, 2, 3}
    Blocks = {b1, b2, b3}
    MinPrice = 1
    MaxPrice = 3
    Quantities = {0, 1, 2, 3}
    Shares = {0, 1, 2, 3}
    QuantityEnd = 4
    VolumeEnd = 16
    Locates = {0, 1, 2}
    Symbol = 3
    OtherSymbols = {2}
    None = None
    NoTime = NoTime
    MaxMessages = 0
SYMMETRY Symmetry
INVARIANT SessionTypeOK
INVARIANT FramingIsKept
INVARIANT AppliesThePrefix
INVARIANT SummaryTellsTheCapture
