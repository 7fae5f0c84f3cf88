SPECIFICATION Spec
CONSTANTS
    Rows = {1, 2, 3, 4}
    Measurements = {1, 2}
    Asked = {1, 2}
    Start = 0
    End = 4
    Limit = 2
    DenseFactor = 2
    MaxPages = 3
    ParallelQueries = 1
    Faults = {}
    BatchPoints = 4
    PayloadLen <- Lines
    CompressedLen <- Compressed
    MaxDecompressedLen = 4
    MaxFrameLen = 3
INVARIANTS
    NothingMissing
CHECK_DEADLOCK FALSE
