SPECIFICATION Spec
CONSTANTS
    n1 = n1
    n2 = n2
    d = d
    s = s
    Id <- MCId
    NoId = NoId
    Bodies <- MCBodies
    Handlers = {h1, h2}
    Interval = 1
    AllowInvalid = FALSE
    Overlap = FALSE
    MaxNow = 3
INVARIANTS
    TypeOK
    TrackedFamily
    ReferentialIntegrity
    FamilyHealth
    WakesInTime
PROPERTIES
    Implements
