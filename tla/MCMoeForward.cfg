SPECIFICATION MoeSpec
CONSTANTS
    AllCalls = FALSE
    Calls <- MCCalls
    Tokens = 2
    Experts = 4
    PerRank = 1
    SharedRank = 1
    Inner = 2
    Hidden = 3
    Unit = 16
    QuantGroup = 32
    BlockM = 2
    UpN = 2
    DownN = 2
    StepK = 32
    Group = 2
    Zero = zero
    Empty = empty
    Masked = masked
INVARIANTS
    OutputIsTheMixture
    StoresAreOwned
CHECK_DEADLOCK FALSE
