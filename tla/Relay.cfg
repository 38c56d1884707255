\* Two relays compete for the rows of two aggregates, one of them without a topic.
SPECIFICATION Spec
CONSTANTS
    Relays = {r1, r2}
    Aggregates = {a1, a2}
    Untyped = {a2}
    BatchSize = 2
    MaxVersion = 2
    MaxTs = 2
    MaxFailures = 2
SYMMETRY Interchangeable
INVARIANTS
    TypeOK
    PublishedIsDelivered
    DuplicatesNeedARollback
PROPERTY ImplementsDelivery
CHECK_DEADLOCK FALSE
