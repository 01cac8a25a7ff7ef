SPECIFICATION QsaSpec
CONSTANTS
    Ratio = 3
    Req = {r1, r2}
    Page = 3
    Pages = 3
    RingWindow = 6
    DraftTokens = 3
    StoreFirst = TRUE
    MaxPadding = 1
    MaxLen = 9
    MaxRequests = 2
SYMMETRY Rows
INVARIANTS
    VisibleBlocksAreOwn
    PendingTailIsIntact
PROPERTY
    SharedBlocksStay
CHECK_DEADLOCK FALSE
