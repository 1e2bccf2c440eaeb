SPECIFICATION FairSpec
CONSTANTS
    r1 = r1
    r2 = r2
    Resource = {r1, r2}
    Bodies <- MCBodies
    MaxItems = 2
    MaxRequests = 3
    MaxStarved = 2
CHECK_DEADLOCK FALSE
INVARIANTS
    TypeOK
    Outcome
    ActivatedOnce
    LockOwned
PROPERTIES
    Answered
    ScheduledEnds
