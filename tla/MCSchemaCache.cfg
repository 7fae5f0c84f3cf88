SPECIFICATION FairSpec
CONSTANTS
    Queries = {q1, q2, q3}
    Columns = {t, f, g}
    Tags = {t}
    TagColumns = {}
    MaxFaults = 2
INVARIANTS
    SingleFlight
PROPERTIES
    KeepsKnown
    Learned
