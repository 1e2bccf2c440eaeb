SPECIFICATION FairSpec
CONSTANTS
    A = A
    B = B
    C = C
    Node = n
    Device = {d}
    Value = {1, 2}
    Null = Null
    Service = {A, B, C}
    Version <- MCVersion
    Lists <- MCLists
    NodeUpdates = TRUE
    MaxChanges = 3
    MaxFaults = 2
CHECK_DEADLOCK FALSE
PROPERTIES
    Converges
