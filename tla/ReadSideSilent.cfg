SPECIFICATION ReadSideFairSpec
CONSTANTS
    Workers = {w1}
    Aggregates = {a1}
    MaxVersion = 2
    Copies = {c1}
    FetchSize = 1
    MaxFailures = 0
    Orphans = {}
    MaxSilent = 1
PROPERTY EventuallyConsistent
