SPECIFICATION FairSpec
CONSTANTS
    Hour = 1
    LastRound = 8
    Shard = 4
    History <- TwoAges
    Today = 12
    MaxTime = 15
    Window = 2
    Watermark = 1
    Durations <- ShortAndLong
    Answers <- ShardsAnswer
    LegacyCursors <- OldCursor
    MaxStarts = 3
INVARIANTS
    TypeOK
    AskedCarried
PROPERTIES
    RewindOnce
    AskedArrives
