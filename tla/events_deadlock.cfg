SPECIFICATION Spec
CONSTANTS
    Receiver = {r1}
    Uri = {a}
    Source = {s1}
    MaxActivations = 2
INVARIANT NoDeadlock
CHECK_DEADLOCK FALSE
