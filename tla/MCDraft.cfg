SPECIFICATION DraftSpec
CONSTANTS
    Requests = {r1, r2}
    Rows = 2
    Window = 2
    NumSteps = 3
    FrontTokens = 1
    TailWidth = 2
    HostAhead = 2
    MaxPrompt = 2
    MaxIterations = 2
INVARIANTS
    DraftSeesItsPrefix
    ReplayReadsItsLengths
CHECK_DEADLOCK FALSE
SYMMETRY Alike
