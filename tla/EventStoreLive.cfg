\* Two handlers wait for each other's event keys on one aggregate, and for the snapshot key that
\* two aggregates share when neither was created.
SPECIFICATION FairSpec
CONSTANTS
    Handlers = {h1, h2}
    Aggregates = {a1, a2}
    Products = {p1}
    NoProduct = noProduct
    NilID = nilID
    SnapshotFrequency = 2
    MaxChanges = 1
    MaxVersion = 2
PROPERTY CommandsReturn
