---------------------------- MODULE NodeBehaviour ----------------------------
(***************************************************************************)
(* The thread that keeps a node registered (nmos/node_behaviour.cpp): the  *)
(* discovery of Registration APIs, initial registration, registered        *)
(* operation with its heartbeats, and peer to peer operation.              *)
(*                                                                         *)
(* The thread holds model.mutex but while it waits on the condition        *)
(* variable or for its tasks; each stretch between two waits is one        *)
(* action, and so is each continuation of a request or heartbeat, which    *)
(* takes the mutex.  A condition-variable wait is a guard: every           *)
(* continuation that makes it true notifies.                               *)
(*                                                                         *)
(* Abstracted: the Registration APIs discovered are front ends of one      *)
(* registry, whose handlers (nmos/registration_api.cpp) are reduced to     *)
(* their effect on the resources of this node; a request that fails with   *)
(* 5xx, a timeout or no connection may or may not have had its effect;     *)
(* back-off, bearer tokens and the shutdown of the program are left out.   *)
(***************************************************************************)
EXTENDS Naturals, Sequences, FiniteSets, SequencesExt

CONSTANTS
    Node,       \* the id of the node resource
    Device,     \* ids of its sub-resources
    Value,      \* the data a resource may have
    Null,       \* no data
    Service,    \* Registration API instances
    Version,    \* the API version of each
    Lists,      \* what a DNS-SD browse, or else the fallback, may come up with
    NodeUpdates, \* whether the data of the node resource may be modified
    MaxChanges, \* bound: changes of the node's resources
    MaxFaults   \* bound: failed requests, and losses of the registry's content

Resource == {Node} \cup Device

Data == Value \cup {Null}

None == "none"

ASSUME ParameterAssumption ==
    /\ Node \notin Device
    /\ IsFiniteSet(Device)
    /\ Null \notin Value
    /\ None \notin Service
    /\ Version \in [Service -> Nat]
    /\ Lists \subseteq Seq(Service)
    /\ NodeUpdates \in BOOLEAN
    /\ MaxChanges \in Nat
    /\ MaxFaults \in Nat

VARIABLES
    own,        \* the data of the resources in model.node_resources
    grain,      \* the events in the node behaviour grain
    fresh,      \* most_recent_update < grain->updated
    version,    \* the API version of the grain
    services,   \* settings.registration_services
    mode,       \* of node_behaviour_thread
    pc,         \* where initial_registration or registered_operation waits
    client,     \* the service its clients were made for, or None
    events,     \* the events stolen from the grain
    error,      \* registration_service_error
    registered, \* node_registered
    unregistered, \* node_unregistered
    request,    \* the request in progress
    heartbeat,  \* where the heartbeats task is
    registry,   \* the data of the node's resources in the registry
    changes, faults, \* how often the bounded actions have happened
    failed,     \* history: services that have failed since they were selected
    stale       \* history: the registry has lost or refused something

environment == <<own, registry, changes, faults, stale>>

locals == <<client, events, error, registered, unregistered, request, heartbeat, failed>>

vars == <<environment, grain, fresh, version, services, mode, pc, locals>>

Modes == {"initial_discovery", "initial_registration", "registered_operation", "rediscovery",
          "peer_to_peer_operation"}

Event == [res : Resource, pre : Data, post : Data]

\* request_registration first POSTs, or DELETEs; a creation that finds the
\* resource in the registry goes on to DELETE it and POST it again
Phases == {"post", "delete", "repost"}

NoEvent == [res |-> Node, pre |-> Null, post |-> Null]

Idle == [phase |-> None, event |-> NoEvent]

Added(e) == e.pre = Null
Removed(e) == e.post = Null

\* make_resource_events with sync = false: super-resources come first
AddedEvents ==
    LET added(r) == [res |-> r, pre |-> Null, post |-> own[r]]
    IN  SetToSeq({added(r) : r \in {x \in {Node} : own[x] # Null}})
            \o SetToSeq({added(r) : r \in {x \in Device : own[x] # Null}})

Init ==
    /\ own = [r \in Resource |-> Null]
    /\ grain = <<>>
    /\ fresh = TRUE
    /\ version = 0
    /\ services = <<>>
    /\ mode = "initial_discovery"
    /\ pc = "wait"
    /\ client = None
    /\ events = <<>>
    /\ error = FALSE
    /\ registered = FALSE
    /\ unregistered = FALSE
    /\ request = Idle
    /\ heartbeat = None
    /\ registry = [r \in Resource |-> Null]
    /\ changes = 0
    /\ faults = 0
    /\ failed = {}
    /\ stale = FALSE

-----------------------------------------------------------------------------
(* The environment *)

\* Another thread adds, modifies or removes a resource: the node first of all,
\* and last.  The event is queued in the grain.
Change(r, v) ==
    /\ changes < MaxChanges
    /\ own[r] # v
    /\ r # Node => own[Node] # Null
    /\ r = Node /\ own[r] # Null => IF v = Null THEN \A d \in Device : own[d] = Null ELSE NodeUpdates
    /\ own' = [own EXCEPT ![r] = v]
    /\ grain' = Append(grain, [res |-> r, pre |-> own[r], post |-> v])
    /\ fresh' = TRUE
    /\ changes' = changes + 1
    /\ UNCHANGED <<version, services, mode, pc, locals, registry, faults, stale>>

\* The registry expires the node, or is restarted with nothing in it.
Lose ==
    /\ faults < MaxFaults
    /\ registry[Node] # Null
    /\ registry' = [r \in Resource |-> Null]
    /\ stale' = TRUE
    /\ faults' = faults + 1
    /\ UNCHANGED <<own, changes, grain, fresh, version, services, mode, pc, locals>>

-----------------------------------------------------------------------------
(* Discovery, and peer to peer operation *)

EnterMode(m) ==
    /\ mode' = m
    /\ pc' = "wait"
    /\ client' = None
    /\ error' = FALSE
    /\ registered' = FALSE
    /\ unregistered' = FALSE

Discover ==
    /\ mode \in {"initial_discovery", "rediscovery"}
    /\ \E list \in Lists :
        /\ services' = list
        /\ EnterMode(IF list = <<>> THEN "peer_to_peer_operation"
                     ELSE IF mode = "initial_discovery" THEN "initial_registration"
                     ELSE "registered_operation")
    /\ fresh' = TRUE
    /\ UNCHANGED <<environment, grain, version, events, request, heartbeat, failed>>

\* The events only count for the ver_ TXT records of the mDNS advertisement.
Advertise ==
    /\ mode = "peer_to_peer_operation"
    /\ fresh
    /\ grain' = <<>>
    /\ fresh' = FALSE
    /\ UNCHANGED <<environment, version, services, mode, pc, locals>>

\* The discovery that is tried again in the background succeeds.
BackgroundDiscovery ==
    /\ mode = "peer_to_peer_operation"
    /\ \E list \in Lists \ {<<>>} : services' = list
    /\ EnterMode("initial_registration")
    /\ fresh' = TRUE
    /\ UNCHANGED <<environment, grain, version, events, request, heartbeat, failed>>

-----------------------------------------------------------------------------
(* initial_registration *)

\* Mistaken: a removed resource is POSTed as well.
RequestedPost(e) == [phase |-> "post", event |-> e]

Requested(e) == [phase |-> IF Removed(e) THEN "delete" ELSE "post", event |-> e]

\* What remains when the events before the node 'added' event are discarded
FromNodeAdded(queue) ==
    LET is(i) == queue[i].res = Node /\ Added(queue[i])
    IN  IF \E i \in DOMAIN queue : is(i)
        THEN SubSeq(queue, CHOOSE i \in DOMAIN queue : is(i) /\ \A j \in 1..(i - 1) : ~is(j), Len(queue))
        ELSE <<>>

\* The body of the loop, with the services that remain after an error
RegisterNode(remaining) ==
    LET top   == client = None \/ error
        queue == FromNodeAdded(IF top THEN AddedEvents ELSE grain)
    IN
    /\ client' = Head(remaining)
    /\ version' = Version[Head(remaining)]
    /\ failed' = IF top THEN failed \ {Head(remaining)} ELSE failed
    /\ stale' = IF top THEN FALSE ELSE stale
    /\ events' = queue
    /\ grain' = <<>>
    /\ fresh' = FALSE
    /\ IF queue = <<>>
       THEN pc' = "wait" /\ request' = request
       ELSE pc' = "request" /\ request' = Requested(Head(queue))
    /\ UNCHANGED <<mode, registered, unregistered>>

InitialRegistration ==
    LET remaining == IF error THEN Tail(services) ELSE services
    IN
    /\ mode = "initial_registration"
    /\ pc = "wait"
    /\ error \/ registered \/ fresh
    /\ services' = remaining
    /\ error' = FALSE
    /\ IF remaining = <<>> \/ registered
       THEN /\ EnterMode(IF remaining = <<>> THEN "initial_discovery" ELSE "registered_operation")
            /\ fresh' = TRUE
            /\ UNCHANGED <<grain, version, events, request, failed, stale>>
       ELSE RegisterNode(remaining)
    /\ UNCHANGED <<own, registry, changes, faults, heartbeat>>

-----------------------------------------------------------------------------
(* registered_operation *)

\* Mistaken: they are put back after the events that have come since.
RestoreAfter ==
    /\ grain' = grain \o events
    /\ fresh' = (fresh \/ events # <<>>)
    /\ events' = <<>>

\* Mistaken: the event whose request failed is not put back.
RestoreRest ==
    /\ grain' = (IF events = <<>> THEN <<>> ELSE Tail(events)) \o grain
    /\ fresh' = (fresh \/ events # <<>>)
    /\ events' = <<>>

\* Events that are left are put back, before those that have come since.
Restore ==
    /\ grain' = events \o grain
    /\ fresh' = (fresh \/ events # <<>>)
    /\ events' = <<>>

\* The events are stolen from the grain, and the first requested.
Steal ==
    /\ events' = grain
    /\ grain' = <<>>
    /\ fresh' = FALSE
    /\ IF grain = <<>>
       THEN pc' = "wait" /\ request' = request
       ELSE pc' = "request" /\ request' = Requested(Head(grain))

\* The first interaction with a service is a heartbeat.
SelectService ==
    LET top == Head(services)
    IN
    IF Version[top] # version
    THEN /\ pc' = "leave"
         /\ UNCHANGED <<client, registered, heartbeat, failed>>
    ELSE /\ pc' = "confirm"
         /\ client' = top
         /\ registered' = FALSE
         /\ heartbeat' = "first"
         /\ failed' = failed \ {top}

\* After the wait, and the service whose error ended it has been dealt with
Proceed(current) ==
    IF services = <<>> \/ unregistered
    THEN /\ pc' = "leave"
         /\ client' = current
         /\ UNCHANGED <<grain, fresh, events, request, registered, heartbeat, failed>>
    ELSE IF current = None
    THEN SelectService /\ UNCHANGED <<grain, fresh, events, request>>
    ELSE Steal /\ UNCHANGED <<client, registered, heartbeat, failed>>

RegisteredOperation ==
    /\ mode = "registered_operation"
    /\ pc = "wait"
    /\ ~error
    /\ unregistered \/ fresh
    /\ Proceed(client)
    /\ UNCHANGED <<environment, version, services, mode, error, unregistered>>

\* The service is given up, the flag reset and the tasks cancelled.
PopService ==
    /\ mode = "registered_operation"
    /\ pc = "wait"
    /\ error
    /\ services' = Tail(services)
    /\ error' = FALSE
    /\ pc' = "drain"
    /\ UNCHANGED <<environment, grain, fresh, version, mode, client, events, registered, unregistered,
                   request, heartbeat, failed>>

\* The tasks have ended.
Drained ==
    /\ pc = "drain"
    /\ request = Idle
    /\ heartbeat = None
    /\ Proceed(None)
    /\ UNCHANGED <<environment, version, services, mode, error, unregistered>>

\* The response to the first heartbeat is there, or an error.
Confirmed ==
    /\ pc = "confirm"
    /\ error \/ unregistered \/ registered
    /\ IF error \/ unregistered
       THEN pc' = "wait" /\ UNCHANGED <<grain, fresh, events, request>>
       ELSE Steal
    /\ UNCHANGED <<environment, version, services, mode, client, error, registered, unregistered,
                   heartbeat, failed>>

\* The request has been completed, or is not waited for any more, in either of
\* the two operations.
NextEvent ==
    LET stop == error \/ unregistered \/ (mode = "initial_registration" /\ registered)
    IN
    /\ pc = "request"
    /\ stop \/ request = Idle
    /\ IF stop \/ events = <<>>
       THEN pc' = "wait" /\ Restore /\ request' = request
       ELSE request' = Requested(Head(events)) /\ UNCHANGED <<pc, grain, fresh, events>>
    /\ UNCHANGED <<environment, version, services, mode, client, error, registered, unregistered,
                   heartbeat, failed>>

\* Mistaken: the tasks are not waited for.
LeaveTasks ==
    /\ pc = "leave"
    /\ EnterMode(IF services # <<>> THEN "initial_registration" ELSE "rediscovery")
    /\ fresh' = TRUE
    /\ UNCHANGED <<environment, grain, version, services, events, request, heartbeat, failed>>

\* The end of registered_operation: the tasks have been cancelled.
Leave ==
    /\ pc = "leave"
    /\ request = Idle
    /\ heartbeat = None
    /\ EnterMode(IF services # <<>> THEN "initial_registration" ELSE "rediscovery")
    /\ fresh' = TRUE
    /\ UNCHANGED <<environment, grain, version, services, events, request, heartbeat, failed>>

-----------------------------------------------------------------------------
(* Tasks: request_registration and its continuation *)

\* The registry's POST /resource and DELETE /resource/{type}/{id}
PostStatus(e) ==
    IF e.res # Node /\ registry[Node] = Null THEN 400
    ELSE IF registry[e.res] = Null THEN 201
    ELSE 200

Posted(e) == IF PostStatus(e) = 400 THEN registry ELSE [registry EXCEPT ![e.res] = e.post]

Deleted(e) == IF e.res = Node THEN [r \in Resource |-> Null] ELSE [registry EXCEPT ![e.res] = Null]

Effect(q) == IF q.phase = "delete" THEN Deleted(q.event) ELSE Posted(q.event)

\* Success, or a failure (4xx) that is ignored: the event is discarded.
Finish(e) ==
    /\ request' = Idle
    /\ events' = IF events = <<>> THEN <<>> ELSE Tail(events)
    /\ registered' = (registered \/ mode = "initial_registration")
    /\ unregistered' = (unregistered \/ (mode = "registered_operation" /\ e.res = Node /\ Removed(e)))

Reply ==
    LET e == request.event
    IN
    /\ request # Idle
    /\ registry' = Effect(request)
    /\ stale' = (stale \/ (request.phase # "delete" /\ PostStatus(e) = 400))
    /\ \/ /\ request.phase = "post" /\ Added(e) /\ PostStatus(e) = 200
          /\ request' = [request EXCEPT !.phase = "delete"]
          /\ UNCHANGED <<events, registered, unregistered>>
       \/ /\ request.phase = "delete" /\ ~Removed(e)
          /\ request' = [request EXCEPT !.phase = "repost"]
          /\ UNCHANGED <<events, registered, unregistered>>
       \/ /\ request.phase = "post" => ~(Added(e) /\ PostStatus(e) = 200)
          /\ request.phase = "delete" => Removed(e)
          /\ Finish(e)
    /\ UNCHANGED <<own, changes, faults, grain, fresh, version, services, mode, pc, client, error,
                   heartbeat, failed>>

\* registration_service_exception or http_exception, the registry having
\* processed the request or not
RequestFails ==
    /\ request # Idle
    /\ registry' \in {registry, Effect(request)}
    /\ request' = Idle
    /\ error' = TRUE
    /\ UNCHANGED <<own, changes, stale, grain, fresh, version, services, mode, pc, client, events,
                   registered, unregistered, heartbeat>>

RequestError == RequestFails /\ faults < MaxFaults /\ faults' = faults + 1 /\ failed' = failed \cup {client}

\* The cancellation token of the tasks in progress is cancelled.
Cancelled == mode = "registered_operation" /\ pc \in {"drain", "leave"}

\* Cancellation of the token is an http_exception like any other.
RequestCancelled == RequestFails /\ Cancelled /\ UNCHANGED <<faults, failed>>

-----------------------------------------------------------------------------
(* Tasks: the heartbeats *)

Beating == heartbeat \in {"first", "beat"}

\* Mistaken: a 404 response only ends the heartbeats.
HeartbeatIgnored ==
    LET known == registry[Node] # Null
    IN
    /\ Beating
    /\ registered' = (registered \/ heartbeat = "first")
    /\ heartbeat' = IF heartbeat = "first" \/ known THEN "sleep" ELSE None
    /\ UNCHANGED <<environment, grain, fresh, version, services, mode, pc, client, events, error,
                   unregistered, request, failed>>

HeartbeatReply ==
    LET known == registry[Node] # Null
    IN
    /\ Beating
    /\ registered' = IF heartbeat = "first" THEN known ELSE registered
    /\ unregistered' = (unregistered \/ ~known)
    /\ heartbeat' = IF heartbeat = "first" \/ known THEN "sleep" ELSE None
    /\ UNCHANGED <<environment, grain, fresh, version, services, mode, pc, client, events, error,
                   request, failed>>

HeartbeatError ==
    /\ Beating
    /\ faults < MaxFaults
    /\ faults' = faults + 1
    /\ heartbeat' = None
    /\ error' = TRUE
    /\ failed' = failed \cup {client}
    /\ UNCHANGED <<own, registry, changes, stale, grain, fresh, version, services, mode, pc, client,
                   events, registered, unregistered, request>>

\* heartbeat_time + heartbeat_interval
HeartbeatDue ==
    /\ heartbeat = "sleep"
    /\ ~Cancelled
    /\ heartbeat' = "beat"
    /\ UNCHANGED <<environment, grain, fresh, version, services, mode, pc, client, events, error,
                   registered, unregistered, request, failed>>

\* Cancellation of the token cancels the continuations: no flag is set.
HeartbeatCancelled ==
    /\ heartbeat # None
    /\ Cancelled
    /\ heartbeat' = None
    /\ UNCHANGED <<environment, grain, fresh, version, services, mode, pc, client, events, error,
                   registered, unregistered, request, failed>>

-----------------------------------------------------------------------------
Thread ==
    \/ Discover \/ Advertise \/ BackgroundDiscovery
    \/ InitialRegistration
    \/ RegisteredOperation \/ PopService \/ Drained \/ Confirmed \/ NextEvent \/ Leave

Tasks ==
    \/ Reply \/ RequestError \/ RequestCancelled
    \/ HeartbeatReply \/ HeartbeatError \/ HeartbeatDue \/ HeartbeatCancelled

Next ==
    \/ \E r \in Resource, v \in Data : Change(r, v)
    \/ Lose
    \/ Thread
    \/ Tasks

Spec == Init /\ [][Next]_vars

\* The thread runs when it can; background discovery succeeds in the end; a
\* request is answered, or cancelled; time passes.
Fairness ==
    /\ WF_vars(Discover)
    /\ WF_vars(BackgroundDiscovery)
    /\ WF_vars(InitialRegistration \/ RegisteredOperation \/ PopService)
    /\ WF_vars(Drained \/ Confirmed \/ NextEvent \/ Leave)
    /\ WF_vars(Reply \/ RequestError \/ RequestCancelled)
    /\ WF_vars(HeartbeatReply \/ HeartbeatError \/ HeartbeatCancelled)
    /\ WF_vars(HeartbeatDue)

FairSpec == Spec /\ Fairness

-----------------------------------------------------------------------------
(* Properties *)

\* Types; a POST request has data.
TypeOK ==
    /\ own \in [Resource -> Data]
    /\ grain \in Seq(Event)
    /\ fresh \in BOOLEAN
    /\ version \in Nat
    /\ services \in Seq(Service)
    /\ mode \in Modes
    /\ pc \in {"wait", "request", "confirm", "drain", "leave"}
    /\ client \in Service \cup {None}
    /\ events \in Seq(Event)
    /\ error \in BOOLEAN
    /\ registered \in BOOLEAN
    /\ unregistered \in BOOLEAN
    /\ request \in {Idle} \cup [phase : Phases, event : Event]
    /\ request.phase \in {"post", "repost"} => ~Removed(request.event)
    /\ heartbeat \in {None, "first", "sleep", "beat"}
    /\ registry \in [Resource -> Data]
    /\ changes \in 0..MaxChanges
    /\ faults \in 0..MaxFaults
    /\ failed \subseteq Service
    /\ stale \in BOOLEAN

\* The data of each resource is that of the last event about it, or without one
\* what is known of it.
Follows(data, known, queue) ==
    \A r \in Resource :
        \/ /\ data[r] = known[r]
           /\ \A i \in DOMAIN queue : queue[i].res # r
        \/ \E i \in DOMAIN queue :
            /\ queue[i].res = r
            /\ queue[i].post = data[r]
            /\ \A j \in DOMAIN queue : j > i => queue[j].res # r

\* What is still to be sent to the registry makes it equal to the node: no
\* change is lost or sent in the wrong order when a request fails, its reply is
\* lost, or the service is changed; unless the registry itself has lost or
\* refused something since the node was registered.
NothingForgotten ==
    mode = "registered_operation" /\ ~stale => Follows(own, registry, events \o grain)

\* "The Node persists itself in the registry by issuing heartbeats": in
\* registered operation they go on until a flag tells the thread otherwise, and
\* outside it no task is left behind.
Persisted ==
    IF mode = "registered_operation" /\ pc \in {"wait", "request"} /\ client # None
    THEN heartbeat # None \/ error \/ unregistered
    ELSE mode # "registered_operation" => heartbeat = None

\* A task never outlives the operation that started it, nor the clients it uses.
TasksHaveClient ==
    (request # Idle \/ heartbeat # None) => client # None

\* "If the chosen Registration API does not respond correctly at any time,
\* another Registration API should be selected": one that has not failed is
\* not given up.
OnlyFailedServicesPopped ==
    [][PopService => Head(services) \in failed]_vars

\* When the node stops changing and its services stop failing, it is registered
\* and the registry has its resources as they are.
Converges == <>[](own[Node] # Null => mode = "registered_operation" /\ registry = own)

=============================================================================
