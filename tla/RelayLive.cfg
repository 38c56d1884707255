\* One relay, batches of two, four rows with ties in ts, of which two have no topic and come ahead
\* of, between or behind the others; two failing batches.
SPECIFICATION FairSpec
CONSTANTS
    Relays = {r1}
    Aggregates = {a1, a2}
    Untyped = {a2}
    BatchSize = 2
    MaxVersion = 2
    MaxTs = 2
    MaxFailures = 2
INVARIANT DeliveredInTsOrder
PROPERTIES
    EventuallyDelivered
    StopReturns
CHECK_DEADLOCK FALSE
