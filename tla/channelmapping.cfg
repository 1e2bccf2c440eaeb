SPECIFICATION FairSpec
CONSTANTS
    o1 = o1
    o2 = o2
    in1 = in1
    in2 = in2
    unrouted = unrouted
    Output <- MCOutput
    Input <- MCInput
    Unrouted = unrouted
    Channels <- MCChannels
    Routable <- MCRoutable
    BlockSize <- MCBlockSize
    Reordering <- MCReordering
    InitialMap <- MCInitialMap
    Bodies <- MCBodies
    Late = TRUE
    MaxRequests = 3
CHECK_DEADLOCK FALSE
INVARIANTS
    TypeOK
    ActiveMeetsConstraints
    AllOrNothing
    RepliesTrue
PROPERTIES
    ActivationsEnd
