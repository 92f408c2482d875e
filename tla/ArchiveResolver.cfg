SPECIFICATION Spec
CONSTANTS
    Ops = {p1, p2}
    MaxDepth = 2
    MaxConcurrent = 1
    MaxTempBytes = 3
    MaxLayerBytes = 2
    Chunk = 2
    CacheSlots = 2
    MaxCacheBytes = 2
    TableSize <- MCTableSize
    MaxVersion = 2
    Keyless = {1}
    MaxLitter = 2
SYMMETRY OpSymmetry
INVARIANTS
    TypeOK
    SlotsMatchOperations
    LedgerMatchesTemps
    CacheIsExact
    NoStaleAnswers
PROPERTIES
    OperationsShareSlots
