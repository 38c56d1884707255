SPECIFICATION ReadSideSpec
CONSTANTS
    Workers = {w1, w2}
    Aggregates = {a1}
    MaxVersion = 2
    Copies = {c1}
    FetchSize = 1
    MaxFailures = 0
    Orphans = {}
    MaxSilent = 0
PROPERTY AppliedAtMostOnce
