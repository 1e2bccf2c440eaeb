SPECIFICATION FairSpec
CONSTANTS
    A = A
    B = B
    C = C
    Node = n
    Device = {d, e}
    Value = {1, 2}
    Null = Null
    Service = {A, B, C}
    Version <- MCVersion
    Lists <- MCLists
    NodeUpdates = FALSE
    MaxChanges = 4
    MaxFaults = 2
CHECK_DEADLOCK FALSE
INVARIANTS
    TypeOK
    NothingForgotten
    Persisted
    TasksHaveClient
PROPERTIES
    Converges
