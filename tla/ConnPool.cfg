\* One connection more than the users that nest; a create and an update compete for a key, and
\* a relay, a subscriber and a query for the rest.
SPECIFICATION FairSpec
CONSTANTS
    MaxConns = 3
    Creates = {c1}
    Updates = {u1}
    Relays = {r1}
    Projectors = {p1}
    Queries = {q1}
INVARIANTS
    TypeOK
    PoolKeepsMoving
PROPERTIES
    OperationsEnd
    ShutdownCompletes
CHECK_DEADLOCK FALSE
