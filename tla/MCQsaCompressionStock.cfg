SPECIFICATION QsaSpec
CONSTANTS
    Ratio = 4
    Req = {r1}
    Page = 4
    Pages = 3
    RingWindow = 0
    DraftTokens = 4
    StoreFirst = FALSE
    MaxPadding = 0
    MaxLen = 12
    MaxRequests = 1
INVARIANT
    VisibleBlocksAreOwn
CHECK_DEADLOCK FALSE
