SPECIFICATION FairSpec
CONSTANTS
    Calls = {h1, h2}
    Slots = {c1, c2}
    NoConn = NoConn
    MaxSeq = 3
    LastFrame = 3
    Pipeline = 2
    LateSendFails = FALSE
    MaxInflight = 2
    Codec = "gzip"
    JumpLimit = 10
    PendingLimit = 10
    MayReject = {2}
    MaxFaults = 1
    RelayOn = FALSE
INVARIANTS
    AckAligned
PROPERTIES
    KeepsPromise
    CommittedTracked
    Drained
