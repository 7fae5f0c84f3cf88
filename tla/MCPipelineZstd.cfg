SPECIFICATION Spec
CONSTANTS
    Calls = {h1, h2, h3}
    Slots = {c1, c2}
    NoConn = NoConn
    MaxSeq = 2
    LastFrame = 2
    Pipeline = 2
    LateSendFails = FALSE
    MaxInflight = 2
    Codec = "zstd"
    JumpLimit = 10
    PendingLimit = 10
    MayReject = {2}
    MaxFaults = 1
    RelayOn = FALSE
SYMMETRY Symmetry
INVARIANTS
    CommittedDelivered
