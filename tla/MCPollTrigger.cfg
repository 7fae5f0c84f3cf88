SPECIFICATION FairSpec
CONSTANTS
    Handlers = {h1, h2}
    Wakers = {w1, w2}
    MinSignalInterval = 2
    Watermark = 1
INVARIANTS
    NoSignalLost
    NoWindowForgotten
    OneSleeper
PROPERTIES
    Answered
