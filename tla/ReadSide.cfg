\* One worker, as sample/main.go starts it, with crashes and failing calls, an error that is
\* only logged, and a product that starts with an update.
SPECIFICATION ReadSideFairSpec
CONSTANTS
    Workers = {w1}
    Aggregates = {a1, a2, a3}
    MaxVersion = 2
    Copies = {c1}
    FetchSize = 2
    MaxFailures = 1
    Orphans = {a3}
    MaxSilent = 1
INVARIANTS
    ReadSideTypeOK
    ProcessedIsVisible
PROPERTIES
    ViewNeverRegresses
    HealthyViewsCatchUp
