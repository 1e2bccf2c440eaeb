--------------------------- MODULE ResourceForest ---------------------------
(***************************************************************************)
(* What a registry promises those who use it, whatever it keeps to do so   *)
(* (nmos/resources.cpp, nmos/registration_api.cpp): resources are          *)
(* registered below others that are there, are removed with all that is    *)
(* below them, and stay as long as their node is heard of in time.         *)
(***************************************************************************)
EXTENDS Naturals

CONSTANTS
    Id,         \* ids of resources
    NoId,       \* the super-resource of a node
    NoBody,     \* the data of what is not registered
    Body,       \* what may be registered, with an id and that of its super-resource
    Interval    \* how long a node may be silent

VARIABLES
    time,
    present,    \* the resources that are registered
    data,       \* and their data
    seen        \* when a node has been heard of

forestVars == <<time, present, data, seen>>

Init ==
    /\ time = 0
    /\ present = {}
    /\ data = [x \in Id |-> NoBody]
    /\ seen = [x \in Id |-> 0]

\* x and all that is registered below it
Below(x) ==
    {y \in present : \A S \in SUBSET present :
        (x \in S /\ \A z \in present : data[z].super \in S => z \in S) => y \in S}

Without(gone) ==
    /\ present' = present \ gone
    /\ data' = [x \in Id |-> IF x \in gone THEN NoBody ELSE data[x]]

Register(b) ==
    /\ b.id \notin present
    /\ b.super = NoId \/ b.super \in present
    /\ present' = present \cup {b.id}
    /\ data' = [data EXCEPT ![b.id] = b]
    /\ seen' = IF b.super = NoId THEN [seen EXCEPT ![b.id] = time] ELSE seen
    /\ UNCHANGED time

\* A resource is never moved.
Update(b) ==
    /\ b.id \in present
    /\ b.super = data[b.id].super
    /\ data' = [data EXCEPT ![b.id] = b]
    /\ UNCHANGED <<time, present, seen>>

Remove(x) ==
    /\ x \in present
    /\ Without(Below(x))
    /\ UNCHANGED <<time, seen>>

\* A heartbeat is answered, with the time at which it was received.
Acknowledge(n, t) ==
    /\ n \in present /\ data[n].super = NoId
    /\ t \in seen[n]..time
    /\ seen' = [seen EXCEPT ![n] = t]
    /\ UNCHANGED <<time, present, data>>

Silent(n) == data[n].super = NoId /\ seen[n] + Interval < time

\* Nodes that have been silent for too long are removed with all below them.
Expire(nodes) ==
    /\ \A n \in nodes : Silent(n)
    /\ Without(UNION {Below(n) : n \in nodes})
    /\ UNCHANGED <<time, seen>>

Tick == time' = time + 1 /\ UNCHANGED <<present, data, seen>>

Next ==
    \/ \E b \in Body : Register(b) \/ Update(b)
    \/ \E x \in present : Remove(x)
    \/ \E n \in present, t \in 0..time : Acknowledge(n, t)
    \/ \E nodes \in SUBSET present : Expire(nodes)
    \/ Tick

Spec == Init /\ [][Next]_forestVars

=============================================================================
