SPECIFICATION Spec
CONSTANTS
    a = a
    b = b
    p = p
    q = q
    Resource = {r1}
    Value = {a}
    Null = Null
    Subscription = {p}
    Persistent = {p}
    Match <- MCMatch
    Conn = {c1}
    Limit = 1
    MaxEvents = 1
CHECK_DEADLOCK FALSE
INVARIANTS
    SenderSurvives
