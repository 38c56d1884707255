\* Two relays overtake each other with the events of one product, one batch fails after it may
\* have been sent, the subscriber fails once, and one of the prices does not fit the column.
SPECIFICATION FairSpec
CONSTANTS
    Relays = {r1, r2}
    Workers = {w1}
    Aggregates = {a1}
    Prices = {19999, 30001}
    MaxPrice = 250
    NoView = noView
    BatchSize = 1
    FetchSize = 1
    MaxVersion = 2
    MaxChanges = 1
    MaxTs = 1
    MaxRelayFailures = 1
    MaxReadFailures = 1
    MaxSilent = 0
    Orphans = {}
INVARIANTS
    PipelineTypeOK
    NothingIsLost
PROPERTIES
    ImplementsCQRS
    EventuallyVisible
