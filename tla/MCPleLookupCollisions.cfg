SPECIFICATION LookupSpec
CONSTANTS
    OffProbes = 3
    ProbeEvery = 3
    MaxNoise = 0
    MaxBlind = 0
    Tables = {"ple2"}
    RowCount = 6
    Dtypes = {"fp8"}
    SlotCount = 2
    MaxIds = 3
    CollidingMisses = TRUE
    MaxForwards = 1
    Sizes = {0}
INVARIANTS
    Lossless
CHECK_DEADLOCK FALSE
