SPECIFICATION FairSpec
CONSTANTS
    MinPrice = 2
    MaxPrice = 4
    MaxShares = 2
    MaxDepth = 4
    IndexEnd = 8
    None = None
INVARIANT TypeOK
INVARIANT BestIsForemost
INVARIANT QueriesAreRight
PROPERTY LoopsEnd
