\* One change per command, as in the sample; version 4 is the second snapshot.
SPECIFICATION Spec
CONSTANTS
    Handlers = {h1, h2}
    Aggregates = {a1}
    Products = {p1}
    NoProduct = noProduct
    NilID = nilID
    SnapshotFrequency = 2
    MaxChanges = 1
    MaxVersion = 4
INVARIANT SnapshotsAreTakenPeriodically
