\* Two handlers race on one aggregate, each saving up to two events; MaxVersion 4 is two
\* snapshot periods.
SPECIFICATION Spec
CONSTANTS
    Handlers = {h1, h2}
    Aggregates = {a1}
    Products = {p1, p2}
    NoProduct = noProduct
    NilID = nilID
    SnapshotFrequency = 2
    MaxChanges = 2
    MaxVersion = 4
SYMMETRY Interchangeable
INVARIANTS
    TypeOK
    StreamsAreContiguous
    SavedOnLatestState
    OutboxMirrorsStore
    SnapshotsReplayTheStream
    AckedIsDurable
PROPERTIES
    LoadRestoresProduct
    ImplementsEventLog
