\* Two workers, two versions of an aggregate, each event twice in the stream, two failures.
SPECIFICATION FairSpec
CONSTANTS
    Workers = {w1, w2}
    Aggregates = {a1}
    MaxVersion = 2
    Copies = {c1, c2}
    FetchSize = 1
    MaxFailures = 2
INVARIANTS
    TypeOK
    ViewIsWhatIsProcessed
    AckedIsProcessed
PROPERTIES
    ImplementsReadModel
    CatchesUp
