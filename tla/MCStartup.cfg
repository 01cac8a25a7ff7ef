SPECIFICATION StartFairSpec
CONSTANTS
    Starts = {s1, s2, s3}
    Shards = {f1, f2}
    MaxCuts = 2
    ShardCount = 5
    TensorsPerShard = 2
    MaxWorkers = 2
    Jobs <- MCJobs
    SortedFiles <- MCSortedFiles
    WorldSize = 2
    Blocks = 1
    Procs = {p1, p2, p3}
    TensorCount = 3
    MaxCrashes = 3
    TableRows = 5
    Parts = 3
    PadTo = 1
    now = now
    before = before
    Checkpoints = {now, before}
    PartDtype <- MCPartDtype
    MaxKills = 1
    GroupsAsked <- MCGroups
INVARIANTS
    StartsAreComplete
    AtMostOneLateSubmission
    EndedMeansReadOrReported
    FailureHasAnError
    PeakMemoryBounded
    WindowIsContiguous
    NamesMeanWholeDump
    UndisturbedLoadSucceeds
    ServedRowsAreTheCheckpoints
    ForwardReadsTheLoadedWeights
    EachReadsItsRows
PROPERTIES
    CancelEndsThread
    PrefetchRunsOut
    ImplementsInOrderLoad
    WindowRunsOut
    NothingIsRewrittenUnderReaders
    NumpyLoadsEnd
CHECK_DEADLOCK FALSE
