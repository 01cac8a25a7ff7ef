SPECIFICATION LoadSpec
CONSTANTS
    Checkpoints <- MCCheckpoints
    Packed <- MCPacked
    HfPrefix <- MCHfPrefix
    ModelPrefix <- MCModelPrefix
    None = None
    Refused = Refused
    Online = Online
    Idle = Idle
    Linears <- MCLinears
    Zero = zero
    Absent = absent
    AllLayers = FALSE
    ExpertLayers <- MCExpertLayers
    LocalExperts = 2
    Chunk = 2
    SwizzleRows = 4
    Align = 2
    Padding = padding
    Unset = unset
INVARIANTS
    DescriptionIsUnderstood
    MethodsReadTheirTensors
    RowsUseTheirOwnScales
    ChannelsStayTogether
    ScalesCancel
CHECK_DEADLOCK FALSE
