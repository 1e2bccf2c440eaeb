------------------------------ MODULE Registry ------------------------------
(***************************************************************************)
(* The registry's resource container (nmos/resources.cpp), the handlers    *)
(* of the Registration API that write to it and the thread that expires    *)
(* and forgets resources (nmos/registration_api.cpp).                      *)
(*                                                                         *)
(* model.mutex is a shared mutex.  POST and DELETE of a resource and the   *)
(* second half of the expiry thread hold it exclusively: each is one       *)
(* action.  A heartbeat holds it shared while it walks the sub-resources   *)
(* of the node, so several heartbeats can be half way at once: it is one   *)
(* action per resource whose health it sets.                               *)
(*                                                                         *)
(* Abstracted: the JSON body of a resource is reduced to what the handlers *)
(* compare; requests the handlers refuse (4xx, 5xx, among them those that  *)
(* the received timestamp shows to be late) change nothing and appear only *)
(* as PostStatus; the created and updated timestamps serve the Query API   *)
(* and are not modelled here; authorization is off.                        *)
(***************************************************************************)
EXTENDS Integers, FiniteSets

CONSTANTS
    Id,             \* resource ids
    NoId,           \* the id of no resource
    Bodies,         \* the schema-valid bodies that may be POSTed
    Handlers,       \* threads that can serve heartbeats at the same time
    Interval,       \* registration_expiry_interval, in seconds
    AllowInvalid,   \* the allow_invalid_resources setting
    Overlap,        \* whether a node may have two heartbeats in progress
    MaxNow          \* bound: the clock stops here

Types == {"node", "device", "source", "flow", "sender", "receiver"}

\* details of a registered resource; api 0 is v1.0
Body == [id : Id, type : Types, super : Id \cup {NoId}, api : Nat, version : Nat]

ASSUME NoIdAssumption == NoId \notin Id

\* the schemas require a node_id, device_id or source_id of all but nodes
Stored == {b \in Body : (b.type = "node") <=> (b.super = NoId)}

ASSUME BodiesAssumption == Bodies \subseteq Stored

ASSUME ParameterAssumption ==
    /\ Interval \in Nat \ {0}
    /\ MaxNow \in Nat
    /\ AllowInvalid \in BOOLEAN
    /\ Overlap \in BOOLEAN

VARIABLES
    now,        \* health_now(): the clock in whole seconds
    extant,     \* ids of resources with data
    erased,     \* ids of resources deleted or expired but not yet forgotten
    reg,        \* the data of each extant resource
    sub,        \* resource::sub_resources
    health,     \* resource::health
    beat,       \* the heartbeat each handler thread is serving
    expiry,     \* where the expiry thread is: "waiting" or "upgrading"
    wake,       \* the time the expiry thread waits until
    alive       \* history: the last time acknowledged to each node

vars == <<now, extant, erased, reg, sub, health, beat, expiry, wake, alive>>

container == <<extant, erased, reg, sub, health>>

NoBody == [id |-> NoId, type |-> "node", super |-> NoId, api |-> 0, version |-> 0]

Idle == [node |-> NoId, todo |-> {}, at |-> 0]

-----------------------------------------------------------------------------
(* Helpers of nmos/resources.cpp *)

\* get_super_resource: the type that a resource's super-resource must have
SuperType(b) ==
    IF b.type = "device" THEN "node"
    ELSE IF b.type = "flow" /\ b.api = 0 THEN "source"
    ELSE "device"

\* find_resource(resources, get_super_resource(b)) finds an extant resource
FindsSuper(b) ==
    /\ b.type # "node"
    /\ b.super \in extant
    /\ reg[b.super].type = SuperType(b)

\* Mistaken: sub-resources that were registered first are not looked for.
NoSubResources(b) == {}

\* get_sub_resources
SubResources(b) ==
    {y \in extant : reg[y].type # "node" /\ reg[y].super = b.id /\ SuperType(reg[y]) = b.type}

\* Mistaken: the recursion stops at the direct sub-resources.
ShallowTree(ex, sb, x) == ({x} \cup sb[x]) \cap ex

\* What set_resource_health and erase_resource visit from x: the least set of
\* resources with data that holds x and the sub_resources of its members.
Tree(ex, sb, x) ==
    {y \in ex : \A S \in SUBSET ex :
        (x \in S /\ \A z \in S : sb[z] \cap ex \subseteq S) => y \in S}

Later(a, b) == IF a < b THEN b ELSE a

\* Mistaken: the resources are not looked at.
AnyHealth(h, ids, hs) == h = now

\* The first of the pair least_health returns, capped by the time now.
IsLeastHealth(h, ids, hs) ==
    /\ h = now \/ \E x \in ids : h = hs[x]
    /\ h <= now
    /\ \A x \in ids : h <= hs[x]

\* No thread holds the shared lock: the exclusive lock can be taken.
NoReaders == \A h \in Handlers : beat[h] = Idle

-----------------------------------------------------------------------------
Init ==
    /\ now = 0
    /\ extant = {}
    /\ erased = {}
    /\ reg = [x \in Id |-> NoBody]
    /\ sub = [x \in Id |-> {}]
    /\ health = [x \in Id |-> 0]
    /\ beat = [h \in Handlers |-> Idle]
    /\ expiry = "waiting"
    /\ wake = Interval + 1
    /\ alive = [x \in Id |-> 0]

Tick ==
    /\ now < MaxNow
    /\ now' = now + 1
    /\ UNCHANGED <<container, beat, expiry, wake, alive>>

-----------------------------------------------------------------------------
(* POST /resource *)

Creating(b) == b.id \notin extant

ValidType(b) == Creating(b) \/ reg[b.id].type = b.type

ValidApiVersion(b) == Creating(b) \/ reg[b.id].api = b.api

ValidSuperIdType(b) ==
    Creating(b) \/ (reg[b.id].super = b.super /\ (b.super # NoId => SuperType(reg[b.id]) = SuperType(b)))

\* Mistaken: the super-resource is not looked for.
AnySuper(b) == TRUE

ValidSuper(b) ==
    b.super = NoId \/ (FindsSuper(b) /\ reg[b.super].api = b.api)

ValidVersion(b) ==
    Creating(b) \/ reg[b.id] = b \/ b.version > reg[b.id].version

Valid(b) ==
    ValidType(b) /\ ValidApiVersion(b) /\ ValidSuperIdType(b) /\ ValidSuper(b) /\ ValidVersion(b)

\* The status of the reply; only 200 and 201 change anything.
PostStatus(b) ==
    IF ValidType(b) /\ ValidSuperIdType(b) /\ (Valid(b) \/ AllowInvalid)
    THEN IF Creating(b) THEN 201 ELSE 200
    ELSE IF ~ValidApiVersion(b) THEN 409 ELSE 400

\* insert_resource: a new resource, or the replacement of an erased one
Create(b) ==
    LET x       == b.id
        ex      == extant \cup {x}
        joined  == IF AllowInvalid THEN SubResources(b) ELSE {}
        sb      == [y \in Id |->
                       IF y = x THEN joined
                       ELSE IF y = b.super /\ FindsSuper(b) THEN sub[y] \cup {x}
                       ELSE sub[y]]
        initial == IF FindsSuper(b) THEN health[b.super] ELSE now
    IN
    /\ NoReaders
    /\ PostStatus(b) = 201
    /\ extant' = ex
    /\ erased' = erased \ {x}
    /\ reg' = [reg EXCEPT ![x] = b]
    /\ sub' = sb
    /\ health' = [y \in Id |-> IF y \in Tree(ex, sb, x) THEN initial ELSE health[y]]
    /\ alive' = IF b.type = "node" THEN [alive EXCEPT ![x] = now] ELSE alive
    /\ UNCHANGED <<now, beat, expiry, wake>>

\* modify_resource: only the data is replaced, not the API version
Modify(b) ==
    /\ NoReaders
    /\ PostStatus(b) = 200
    /\ reg' = [reg EXCEPT ![b.id] = [b EXCEPT !.api = reg[b.id].api]]
    /\ UNCHANGED <<now, extant, erased, sub, health, beat, expiry, wake, alive>>

\* Mistaken: the resources below have their data still.
DeleteOne(x) ==
    /\ NoReaders
    /\ x \in extant
    /\ sub' = IF FindsSuper(reg[x]) THEN [sub EXCEPT ![reg[x].super] = @ \ {x}] ELSE sub
    /\ extant' = extant \ {x}
    /\ erased' = erased \cup Tree(extant, sub, x)
    /\ reg' = [reg EXCEPT ![x] = NoBody]
    /\ UNCHANGED <<now, health, beat, expiry, wake, alive>>

\* Mistaken: the super-resource still tracks the one deleted.
DeleteTracked(x) ==
    LET gone == Tree(extant, sub, x)
    IN
    /\ NoReaders
    /\ x \in extant
    /\ extant' = extant \ gone
    /\ erased' = erased \cup gone
    /\ reg' = [y \in Id |-> IF y \in gone THEN NoBody ELSE reg[y]]
    /\ UNCHANGED <<now, sub, health, beat, expiry, wake, alive>>

(* DELETE /resource/{type}/{id}, of the type and API version registered *)
Delete(x) ==
    LET gone == Tree(extant, sub, x)
    IN
    /\ NoReaders
    /\ x \in extant
    /\ sub' = IF FindsSuper(reg[x]) THEN [sub EXCEPT ![reg[x].super] = @ \ {x}] ELSE sub
    /\ extant' = extant \ gone
    /\ erased' = erased \cup gone
    /\ reg' = [y \in Id |-> IF y \in gone THEN NoBody ELSE reg[y]]
    /\ UNCHANGED <<now, health, beat, expiry, wake, alive>>

-----------------------------------------------------------------------------
(* POST /health/nodes/{id} *)

\* The handler has the shared lock, has found the node and has read the clock.
HeartbeatStart(h, n) ==
    /\ beat[h] = Idle
    /\ n \in extant
    /\ reg[n].type = "node"
    /\ Overlap \/ \A g \in Handlers : beat[g].node # n
    /\ beat' = [beat EXCEPT ![h] = [node |-> n, todo |-> Tree(extant, sub, n), at |-> now]]
    /\ UNCHANGED <<now, container, expiry, wake, alive>>

\* set_resource_health sets the health of a resource after that of its
\* sub-resources; after the node's, the handler replies 200 with the health.
HeartbeatSet(h, x) ==
    LET n    == beat[h].node
        rest == beat[h].todo \ {x}
    IN
    /\ x \in beat[h].todo
    /\ sub[x] \cap rest = {}
    /\ x = n => rest = {}
    /\ health' = [health EXCEPT ![x] = beat[h].at]
    /\ beat' = [beat EXCEPT ![h] = IF x = n THEN Idle ELSE [@ EXCEPT !.todo = rest]]
    /\ alive' = IF x = n THEN [alive EXCEPT ![n] = Later(@, beat[h].at)] ELSE alive
    /\ UNCHANGED <<now, extant, erased, reg, sub, expiry, wake>>

-----------------------------------------------------------------------------
(* erase_expired_resources_thread *)

\* The wait times out; under the shared lock, is there work to do?
ExpiryCheck ==
    /\ expiry = "waiting"
    /\ now >= wake
    /\ \E first, second \in 0..now :
        /\ IsLeastHealth(first, extant, health)
        /\ IsLeastHealth(second, erased, health)
        /\ IF first >= now - Interval /\ second >= now - 2 * Interval
           THEN wake' = first + Interval + 1 /\ expiry' = expiry
           ELSE wake' = wake /\ expiry' = "upgrading"
    /\ UNCHANGED <<now, container, beat, alive>>

\* Under the exclusive lock, taken after the shared lock was released:
\* forget_erased_resources, erase_expired_resources and least_health.
ExpiryErase ==
    LET forgotten == {x \in erased : health[x] < now - 2 * Interval}
        expired   == {x \in extant : health[x] < now - Interval}
    IN
    /\ expiry = "upgrading"
    /\ NoReaders
    /\ extant' = extant \ expired
    /\ erased' = (erased \ forgotten) \cup expired
    /\ reg' = [x \in Id |-> IF x \in expired THEN NoBody ELSE reg[x]]
    /\ sub' = [x \in Id |-> IF x \in forgotten THEN {} ELSE sub[x]]
    /\ health' = [x \in Id |-> IF x \in forgotten THEN 0 ELSE health[x]]
    /\ \E first \in 0..now :
        /\ IsLeastHealth(first, extant', health)
        /\ wake' = first + Interval + 1
    /\ expiry' = "waiting"
    /\ UNCHANGED <<now, beat, alive>>

-----------------------------------------------------------------------------
Next ==
    \/ Tick
    \/ \E b \in Bodies : Create(b) \/ Modify(b)
    \/ \E x \in Id : Delete(x)
    \/ \E h \in Handlers, n \in Id : HeartbeatStart(h, n)
    \/ \E h \in Handlers, x \in Id : HeartbeatSet(h, x)
    \/ ExpiryCheck
    \/ ExpiryErase

Spec == Init /\ [][Next]_vars

\* A handler that has started finishes, and the expiry thread runs when its
\* wait is over; waiting for the exclusive lock, it gets it in the end however
\* many heartbeats come and go (bst::shared_mutex blocks new readers then).
Fairness ==
    /\ \A h \in Handlers : WF_vars(\E x \in Id : HeartbeatSet(h, x))
    /\ WF_vars(ExpiryCheck)
    /\ SF_vars(ExpiryErase)

-----------------------------------------------------------------------------
(* Properties *)

\* Types; an erased resource is not extant, and an extant one has its own data.
TypeOK ==
    /\ now \in Nat
    /\ extant \subseteq Id
    /\ erased \subseteq Id
    /\ extant \cap erased = {}
    /\ reg \in [Id -> Stored \cup {NoBody}]
    /\ \A x \in extant : reg[x] \in Stored /\ reg[x].id = x
    /\ sub \in [Id -> SUBSET Id]
    /\ health \in [Id -> Nat]
    /\ beat \in [Handlers -> [node : Id \cup {NoId}, todo : SUBSET Id, at : Nat]]
    /\ expiry \in {"waiting", "upgrading"}
    /\ wake \in Nat
    /\ alive \in [Id -> Nat]

\* y is registered as a sub-resource of x: referential integrity of the data.
IsChild(y, x) == FindsSuper(reg[y]) /\ reg[y].super = x

\* The resources below node n according to the data, with n itself.
Family(n) == Tree(extant, [x \in Id |-> {y \in extant : IsChild(y, x)}], n)

\* The sub_resources each resource tracks are exactly the resources whose data
\* refers to it, whatever was deleted, expired and registered again elsewhere:
\* a heartbeat or a DELETE reaches all of its family and nothing else.
TrackedFamily ==
    \A n \in extant : Tree(extant, sub, n) = Family(n)

\* Expiry never separates a resource from its super-resource: every device and
\* sub-resource in the registry has its parent there too, at the same version.
ReferentialIntegrity ==
    \A x \in extant : reg[x].type = "node" \/
        (FindsSuper(reg[x]) /\ reg[reg[x].super].api = reg[x].api)

\* When no heartbeat is half way, a whole family has one health, that of its
\* node, so that it expires in one step.
FamilyHealth ==
    NoReaders => \A x, y \in extant : IsChild(y, x) => health[y] = health[x]

\* While the expiry thread waits, it will wake no later than the first instant
\* at which an extant resource has certainly outlived the expiry interval:
\* no write and no heartbeat since it computed its deadline can bring that
\* instant forward (the comment of least_health).
WakesInTime ==
    expiry = "waiting" => \A x \in extant : wake <= health[x] + Interval + 1

\* "it is reasonable to rely on it not being modified to be *less*": the health
\* of a resource that stays registered is never set back.
HealthNeverDecreases ==
    [][\A x \in extant \cap extant' : health'[x] >= health[x]]_vars

\* A node that was answered 200 or 201 for a time within the last interval is
\* not expired, and neither is any resource of its family.
NoEarlyExpiry ==
    [][ExpiryErase => \A n \in extant : reg[n].type = "node" /\ now - alive[n] <= Interval
                        => Family(n) \subseteq extant']_vars

\* Garbage collection: a resource whose health is set only finitely often does
\* not stay registered (it is gone again and again, if it is registered anew).
SilentExpires ==
    \A x \in Id : []<><<\E h \in Handlers : HeartbeatSet(h, x)>>_vars \/ []<>(x \notin extant)

\* What was erased does not stay in memory, even though the expiry thread's
\* deadline looks only at extant resources: it is forgotten or registered anew.
ErasedForgotten == \A x \in Id : (x \in erased) ~> (x \notin erased)

\* What those who use the registry see of it: the data of the extant resources,
\* and when nodes were answered.
Forest == INSTANCE ResourceForest WITH
              Body <- Bodies, time <- now, present <- extant, data <- reg, seen <- alive

\* The sub_resources tracked, the health kept for each resource, the two locks
\* and the deadline of the expiry thread implement a forest from which what is
\* deleted or expires goes with all that is below it, and nothing else does.
Implements == Forest!Spec

=============================================================================
