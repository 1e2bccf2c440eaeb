SPECIFICATION FairSpec
CONSTANTS
    a = a
    b = b
    p = p
    q = q
    Resource = {r1}
    Value = {a, b}
    Null = Null
    Subscription = {p, q}
    Persistent = {p}
    Match <- MCMatch
    Conn = {c1, c2}
    Limit = 1
    MaxEvents = 2
CHECK_DEADLOCK FALSE
INVARIANTS
    TypeOK
    FeedConsistent
    EventsChain
    HealthFollowsConnections
PROPERTIES
    Delivered
