SPECIFICATION ReceiverSpec
CONSTANTS
    Calls = {h1, h2}
    MaxSeq = 3
    JumpLimit = 3
    PendingLimit = 1
    MayReject = {2}
    RelayOn = TRUE
SYMMETRY CallSymmetry
INVARIANTS
    ReceiverTypeOK
    PrefixDelivered
    ConfirmedDelivered
    InflightExact
    CoveredRelayed
