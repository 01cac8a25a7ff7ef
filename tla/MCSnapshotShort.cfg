SPECIFICATION SnapshotSpec
CONSTANTS
    Starts = {s1, s2}
    Shards = {f1, f2}
    MaxCuts = 1
INVARIANT NothingIsDropped
CHECK_DEADLOCK FALSE
