SPECIFICATION LookupFairSpec
CONSTANTS
    OffProbes = 3
    ProbeEvery = 3
    MaxNoise = 1
    MaxBlind = 1
    Tables = {"ple2"}
    RowCount = 6
    Dtypes = {"fp8", "bf16"}
    SlotCount = 2
    MaxIds = 3
    CollidingMisses = FALSE
    MaxForwards = 4
    Sizes = {0, 1, 2}
INVARIANTS
    ColdGatherIsNoticed
    CacheReturnsItsRows
    RowsAreItsOwn
PROPERTIES
    OffOnlyWhenWarm
    WarmTableIsLeftAlone
    ColdTableIsAdvised
    LookaheadEnds
CHECK_DEADLOCK FALSE
