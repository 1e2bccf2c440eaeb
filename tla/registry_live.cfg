SPECIFICATION LiveSpec
CONSTANTS
    n1 = n1
    d = d
    s = s
    Id <- MCId
    NoId = NoId
    Bodies <- MCBodies
    Handlers = {h1}
    Interval = 1
    AllowInvalid = TRUE
    Overlap = FALSE
    MaxNow = 4
PROPERTIES
    NoEarlyExpiry
    SilentExpires
    ErasedForgotten
