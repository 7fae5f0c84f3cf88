SPECIFICATION FairSpec
CONSTANTS
    Calls = {h1, h2}
    Slots = {c1, c2}
    NoConn = NoConn
    MaxSeq = 2
    LastFrame = 2
    Pipeline = 1
    LateSendFails = TRUE
    MaxInflight = 2
    Codec = "zstd"
    JumpLimit = 10
    PendingLimit = 10
    MayReject = {2}
    MaxFaults = 2
    RelayOn = FALSE
INVARIANTS
    TypeOK
    CommittedDelivered
    AckAligned
    DeliveredInOrder
    HeadAuthority
PROPERTIES
    KeepsPromise
    Drained
