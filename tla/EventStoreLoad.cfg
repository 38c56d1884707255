SPECIFICATION Spec
CONSTANTS
    Handlers = {h1}
    Aggregates = {a1}
    Products = {p1}
    NoProduct = noProduct
    NilID = nilID
    SnapshotFrequency = 2
    MaxChanges = 1
    MaxVersion = 3
PROPERTY LoadReachesMostRecentState
