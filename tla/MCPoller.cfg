SPECIFICATION FairSpec
CONSTANTS
    p1 = p1
    p2 = p2
    p3 = p3
    Points <- ThreePoints
    Stamp <- Stamps
    MaxVersion = 1
    MaxTime = 6
    Lateness = 1
    Retention = 2
    MaxFaults = 2
    Window = 1
    MaxWindow = 2
    WindowCap = 4
    Watermark = 1
    WindowTarget = 2
    TooLarge <- Large
INVARIANTS
    TypeOK
    NoPointSkipped
    FilteredForwarded
    PrefetchComplete
PROPERTIES
    AllCarried
