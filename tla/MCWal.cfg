SPECIFICATION Spec
CONSTANTS
    SegSize = 2
    MaxBatch = 2
    LastSeq = 5
    LastSegment = 8
    MaxFaults = 3
    LagAfterRemoval = FALSE
    WriteBack = TRUE
    CutPayload = FALSE
    Leftovers <- Clean
INVARIANTS
    KeptUntilCommitted
    NextFresh
    NoHoles
    EntriesReadable
PROPERTIES
    KeepsQueue
