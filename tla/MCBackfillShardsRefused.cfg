SPECIFICATION Spec
CONSTANTS
    Hour = 1
    LastRound = 8
    Shard = 4
    History <- TwoAges
    Today = 12
    MaxTime = 15
    Window = 2
    Watermark = 1
    Durations <- ShortAndLong
    Answers <- ShardsRefused
    LegacyCursors <- NoLegacy
    MaxStarts = 1
INVARIANTS
    AskedCarried
