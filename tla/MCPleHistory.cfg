SPECIFICATION Spec
CONSTANTS
    r0 = r0
    r1 = r1
    s0 = s0
    s1 = s1
    s2 = s2
    s3 = s3
    s4 = s4
    s5 = s5
    a = a
    b = b
    c = c
    d = d
    junk = junk
    Reqs = {r0, r1}
    Slots = {s0, s1, s2, s3, s4}
    Reserved = s0
    Token = {a, b, c, d, junk}
    Eos = eos
    Zero = zero
    Junk = junk
    Stale = stale
    NoBatch = noBatch
    PadRow = r0
    ContextLen = 2
    ConvLen = 3
    Interval = 2
    DraftTokens = 2
    MaxChunk = 2
    MaxLen = 4
    MaxPadding = 1
    Texts <- MCTexts
SYMMETRY MCSymmetry
INVARIANTS
    StateIsOfConsumedText
    SnapshotIsOfItsPrefix
    LayerReadsTrueHistory
PROPERTY
    ForwardTouchesOnlyItsSlots
CHECK_DEADLOCK FALSE
