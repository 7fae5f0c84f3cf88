SPECIFICATION FairSpec
CONSTANTS
    Rows = {1, 2, 3, 4, 5}
    Measurements = {1}
    Asked = {1}
    Start = 0
    End = 4
    Limit = 2
    DenseFactor = 2
    MaxPages = 3
    ParallelQueries = 2
    Faults = {1}
    BatchPoints = 4
    PayloadLen <- Lines
    CompressedLen <- Compressed
    MaxDecompressedLen = 4
    MaxFrameLen = 3
INVARIANTS
    WindowExact
    FramesInOrder
PROPERTIES
    Ends
CHECK_DEADLOCK FALSE
