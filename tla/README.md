# Verification of nmos-cpp

nmos-cpp implements AMWA NMOS Nodes and Registries. A Node describes the devices,
senders and receivers of a piece of media equipment and keeps them registered; a
Registry keeps what many Nodes have registered, expires what falls silent and
pushes changes to its clients. This directory holds TLA+ models of the parts of
`src/Development/nmos` where threads, HTTP handlers, tasks and connections meet
over one shared data model, TLC configurations that check them on small instances,
and TLAPS proofs of their safety, and that the registry implements an abstract one,
for every instance.

Paths below are relative to `src/Development/nmos` unless they say otherwise.

## 1. The system

Both programs are built in the same way (`Documents/Architecture.md`). A model
(`model.h`) holds a mutex with shared and exclusive modes, one condition variable and
containers of resources (`resources.h`). HTTP handlers, WebSocket handlers and
*behaviour* threads take the mutex, read or change the containers, notify, and
wait on the condition variable with predicates over the model. Behaviour threads
start background tasks (HTTP requests) whose continuations take the mutex
again. All interaction is through that shared model; there are no other queues.

| component | state | operations | interacts by |
|---|---|---|---|
| resource container (`resources.cpp`) | resources by id, data or none if erased, sub-resources, health, created/updated times | insert, modify, erase, expire, forget, set health | called with the lock held by all below; queues resource events in grains |
| Registration API (`registration_api.cpp`) | none of its own | POST and DELETE resource, heartbeat | writes the container; notifies |
| expiry thread (`registration_api.cpp`) | its deadline | wait, check under the shared lock, erase and forget under the exclusive lock | least health of the container |
| Query API subscriptions (`query_api.cpp`) | subscription resources | POST, DELETE | container; grains and connections hang off subscriptions |
| Query WebSocket feed (`query_ws_api.cpp`, `query_utils.cpp`) | map of connections, one grain of waiting events for each | validate, open, close handlers; sending thread | events queued by every change of the container |
| Query API queries (`query_api.cpp`, `query_utils.cpp`, `paging_utils.h`) | none; cursors are held by the clients | GET of pages | reads the container, ordered by its update times |
| node behaviour (`node_behaviour.cpp`) | mode, discovered services, grain of events, flags, request and heartbeat tasks | discover, initial registration, registered operation, rediscovery, peer to peer | HTTP to Registration APIs; grain filled by changes of the node's resources |
| Connection API (`connection_api.cpp`, `activation_utils.cpp`) | staged and active endpoints | PATCH, bulk POST, waits for activations | activation thread, through the staged activation |
| activation thread (`connection_activation.cpp`) | earliest scheduled activation | pass over the staged endpoints | Connection API; IS-04 resources |
| Channel Mapping API and activation (`channelmapping_api.cpp`, `channelmapping_activation.cpp`) | staged and active maps of the outputs | POST and DELETE of activations, which cover several outputs | as Connection |
| events server (`events_ws_api.cpp`) | connections, each with a subscription and a grain | commands, sends, expiry | event resources of the model |
| events client (`events_ws_client.cpp`, `connection_events_activation.cpp`) | subscriptions, connections, its own mutex | subscribe, unsubscribe, connect, reconnect, callbacks | activation thread; receivers of the model |
| authorization client (`authorization_behaviour.cpp`, `authorization_operation.cpp`, `authorization_redirect_api.cpp`) | mode, servers, client registration and its file, tokens, keys | discovery, requests, redirect callback | settings, other servers |
| token issuers (`authorization_operation.cpp`, `api_utils.cpp`) | issuer asked for, metadata and keys of each | fetch metadata, fetch keys; refusals of tokens | a flag, and the model's condition variable |
| system and OCSP behaviours (`node_system_behaviour.cpp`, `ocsp_behaviour.cpp`) | mode, services, data fetched | periodic requests, failover | settings, callbacks |
| DNS-SD (`mdns.cpp`, `mdns/service_discovery_impl.cpp`) | browses, results | browse, resolve, merge, fall back to multicast | the daemon's replies, deadlines, cancellation |
| status monitors (`control_protocol_utils.cpp`, `control_protocol_behaviour.cpp`) | statuses, pending statuses and their times, counters | set, activate, deactivate, reset; a thread that reports what is due | property changes |
| control protocol (`control_protocol_ws_api.cpp`) and configuration (`configuration_api.cpp`, `configuration_utils.cpp`) | object tree, sessions with grains | methods, notifications, PUT, PATCH, validate, restore | property changes |
| control protocol's classes and datatypes (`control_protocol_resource.cpp`, `control_protocol_state.cpp`) | registered descriptors, under a lock of their own | register, erase, look up with what is inherited | class manager; methods |
| transports (`connection_resources.cpp`, `connection_api.cpp`) | staged and active parameters of each leg, constraints | merge a patch, validate, resolve "auto", answer the routes | resolver and transport file of the application |
| session descriptions (`sdp_utils.cpp`, `video_jxsv.cpp`, `capabilities.cpp`) | none | describe a sender, parse, judge by the capabilities of a receiver | called by activations and PATCH |
| example node (`nmos-cpp-node/node_implementation.cpp`, `main.cpp`, `server.cpp`) | what its settings ask for; a background task | insert everything in order, activate, simulate; start and stop of the server's threads | all models |
| RQL, basic queries and downgrades (`rql/rql.cpp`, `json_utils.cpp`, `api_downgrade.cpp`) | none | parse, validate, evaluate; show to another version | called by GET, by subscriptions and for every change |
| WebSocket and HTTP listeners, SDP grammar, LLDP, settings, logs | connection states | wrappers and conversions | callbacks |

What makes each hard, and what makes it correct:

- *Container and registry.* The same links (sub-resources, health) are kept twice, as
  data and as bookkeeping; heartbeats write under the shared lock while the expiry
  thread relies on health never decreasing. Correct: the bookkeeping is exactly what
  the data says, a family expires in one step, never early and never late.
- *WebSocket feed.* Events are queued, cut into pages, delayed and sent without
  the lock while connections come and go. Correct: a client's view plus what is on the
  way is always what the registry contains, and all of it arrives.
- *Node behaviour.* Failover, retries of requests that may have had their effect,
  tasks that end late. Correct: nothing is forgotten; when the environment calms
  down the registry contains the node's resources as they are.
- *Connection.* Handlers wait, with the lock given up, for a thread that takes
  requests made by several of them. Correct: every reply says what happened,
  every request is answered, nothing is activated twice.
- *Channel mapping.* One activation is spread over the staged endpoints of several outputs,
  and an action is validated against active maps that may have changed when it is performed.
  Correct: all outputs of an activation or none, and no active map that the inputs'
  capabilities forbid.
- *Events.* The server's threads and handlers share the grain as those of the Query API do, with
  commands that change what is asked for; the client has two mutexes and a chain of tasks for
  each activation. Correct: what a client has been told is the state of its sources; what is
  requested of a connection is what the receivers activated last need.
- *Authorization.* The thread and the browser's redirect callback share a state and
  settings that outlive a restart. Correct: a token is of the server in use, a
  client that is registered is not registered again.
- *Status monitors, control protocol, restore.* Statuses are reported late, deliberately;
  notifications, replies and changes by HTTP share one grain; a restore of a tree may fail half way.
  Correct: nothing is reported early, nothing is lost, and validation foretells what a restore does.
- *System, OCSP, token issuers.* A service is used until it fails, while tasks end late; another
  request may ask for another issuer at any moment. Correct: what is known is what the
  service in use has said last, and who has failed is not used again.
- *Discovery.* Replies come in any order, twice, late or not at all, on two browses at once. Correct: nobody
  gives up too soon, and the list has what was found, the best first.
- *Control protocol's model and constraints.* A descriptor, and the JSON made of the same class, are written
  by hand in two places; types, runtime and static constraints overlap. Correct: objects are what their
  classes say, and a property holds only values of its type and within its limits.
- *Transports and session descriptions.* A value passes through merges, defaults, resolution, text and back.
  Correct: what is active is what was asked for or what the code documents as its default, and a receiver
  understands of a session description what the sender has meant.
- *Example node.* Resources that refer to one another are inserted one by one while all threads run.
  Correct: in the end every reference resolves, and its own receivers accept what its senders send.
- *Paging.* Cursors are times of resources that change between two requests. Correct:
  whoever follows the links misses nothing that stays, and is not sent round in circles.

Every hazard found while reading is listed in `PROJECT.json` at its line, with
the properties that cover it.

## 2. The modules

| module | models | used by |
|---|---|---|
| `Registry` | container, Registration API, expiry thread | `MCRegistry`, `MCRegistryLive`, `RegistryProofs` |
| `ResourceForest` | what a registry promises, in one step for each operation | instantiated by `Registry` |
| `RegistryProofs` | theorems about `Registry`, and that it implements `ResourceForest` | |
| `QueryWs` | subscriptions, connections, grains, sending thread | `MCQueryWs`, `QueryProofs` |
| `Paging` | update times and the pages of a query | `Services`, `QueryProofs` |
| `QueryProofs` | theorems about `QueryWs` and `Paging` | `CompositionProofs` |
| `NodeBehaviour` | `node_behaviour_thread`, its tasks, the registries it talks to | `MCNodeBehaviour`, `NodeBehaviourProofs` |
| `NodeBehaviourProofs` | theorems about `NodeBehaviour` | |
| `Connection` | staged PATCH, single and bulk, activation thread | `MCConnection`, `ConnectionProofs` |
| `ConnectionProofs` | theorems about `Connection` and `Transport` | `CompositionProofs` |
| `ChannelMapping` | activations of channel maps and their thread | `MCChannelMapping`, `ChannelMappingProofs` |
| `ChannelMappingProofs` | theorems about `ChannelMapping` | |
| `EventsServer`, `EventsClient` | both ends of the events WebSocket | `Services`, `ServicesProofs` |
| `Authorization` | client of authorization servers | `Services`, `ServicesProofs` |
| `TokenIssuers` | keys of the issuers of tokens presented to the node | `Services`, `ServicesProofs` |
| `SystemBehaviour`, `OcspBehaviour` | clients of System APIs and OCSP servers | `Services`, `ServicesProofs` |
| `Discovery` | `resolve_service` and its browses | `Services`, `ServicesProofs` |
| `StatusMonitor` | status monitors and the thread that reports them | `Services`, `ServicesProofs` |
| `ServicesProofs` | theorems about these eight | `CompositionProofs` |
| `Services` | these eight, `Paging` and `Transport` beside one another | `MCServices`, `CompositionProofs` |
| `CompositionProofs` | theorems about `Services` | |
| `DataFacts` | lemmas about numbers, sets and sequences | the `...Proofs` modules |
| `Restore` | restore of a block, as operators | `ControlProtocol` |
| `ControlProtocol` | sessions, their commands and notifications, the configuration API | `MCServices` |
| `ControlClasses` | descriptors of classes and datatypes, and the JSON of each | `ControlModel` |
| `ControlModel` | the tree of objects while it is made, and the class manager | `MCServices` |
| `Constraints` | what a property may be set to | `MCConstraints` |
| `Transport` | transport parameters of endpoints | `Services`, `ConnectionProofs` |
| `SessionDescription` | session descriptions, there and back, and capabilities | `MCSessionDescription` |
| `ResourceQuery` | RQL and basic queries, downgrades, and what a subscriber is told | `MCResourceQuery` |
| `ExampleNode` | the example node and the server around it | `MCExampleNode` |
| `Parts` | the variables of the modules of `Services` and `MCServices` | `Services`, `MCConstraints`, ... |

In all of them the mutex decides what an action is: a stretch of code that runs with the
mutex held, from one wait to the next, is one action, and whatever it does there
(events queued, notifications, health) is part of it. Where the code gives the mutex
up, another action may come between. A definition whose comment starts with
"Mistaken" is a plausible error in the definition before which it stands. It is used in
no specification: the mutants of `PROJECT.json` put it in that definition's place, to
show that the property named there would notice.

### Registry

`extant`, `erased`, `reg`, `sub` and `health` are the container: a resource has data, or
was erased and not yet forgotten. `Create` is `insert_resource`, with the
parent's `sub_resources`, the sub-resources that came first, and the inherited
health; `Modify` and `Delete` are the other outcomes of the handlers. POST and DELETE hold the
exclusive lock and are one action each. A heartbeat holds the shared lock and sets one
health after another: `HeartbeatStart` and one `HeartbeatSet` per resource, children
before parents, so that several heartbeats and the expiry check interleave. The expiry thread
checks under the shared lock (`ExpiryCheck`), gives it up, and takes the
exclusive lock (`ExpiryErase`), where it recomputes everything, as the code does. `alive` is
a history variable: the time each node was last told.

`Overlap` says whether a client may have two heartbeats of one node in
progress. Left out: the X-Received check, authorization (a request refused changes nothing), and the
registry's own resources, which never expire.

### ResourceForest

What the registry promises, with none of its bookkeeping: the resources that are present, a
parent and a body for each, and the time each node was last heard of. A step inserts below
something present, updates, removes a whole family, is told of a node, lets a silent family go, or
lets time pass. `Registry` instantiates it with `present <- extant`, `data <- reg` and
`time <- now`; its heartbeats, which set one health after another, are one step of the forest when the
last health is set, and stutters before.

### QueryWs

A connection goes from `Validate` to `Open` to `Close`, each a handler under the
lock, with anything in between; `Disconnect` is the client. `Change` is any
insertion, modification or erasure of a resource and puts an event into the grain of every
subscription for which it is visible. `Pass` is one pass of the sending thread over the
map of connections: closing those of deleted subscriptions, building messages of at most
`Limit` events, keeping the rest; `Send` sends without the lock. Timestamps are kept
as the comparisons the thread makes: is there anything newer than its last pass
(`fresh`), is a grain's last message younger than `max_update_rate_ms` (`recent`),
which grains is the timeout for (`armed`). `view` is what the client has been told.

### NodeBehaviour

`mode` and `pc` are where the thread is; `grain` and `events` are the events queued
and those taken for the current operation; `error`, `registered` and `unregistered` are
the flags that continuations set. Requests have the phases of `request_registration` (an update
that is refused is deleted and posted again), and end in a reply, an error with or without
effect, or a cancellation. The Registration APIs are front ends of one
registry, as DNS-SD discovery of one system suggests; `Lose` is the registry restarting or
expiring the node. Left out: back-off times, mDNS update throttling, tokens, shutdown,
and requests that a registry processes after they were cancelled.

### Connection

A request holds the mutex from one wait to the next (`holder`) and handles its items one by one (`Patch`),
then collects the results of its immediate activations. `blocked` is the wait for somebody else's immediate
activation, `await` that for one's own. `Pass` is the thread's pass over all resources, `armed` what its
deadline accounts for. Parameters are represented by the item that staged them, so that it can be told whose
became active. A handler may also give up, after its timeout, an activation which the thread then performs
(`starved`, at most `MaxStarved` times). Left out: removal of resources and shutdown; GET, transport files and
constraints are those of `Transport`; the callbacks made after an activation do not throw; a bulk request has
two items (one item is as a single request).

### ChannelMapping

A POST validates its action against the active maps (`ValidAction`: the outputs' routable inputs,
the inputs' block size and reordering), stages it at each output it names and, if immediate, waits for
one output after the other (`await`); DELETE takes a scheduled activation from all outputs
it is for. `Activate` is the thread's pass over all staged endpoints. As in `Connection`
a handler holds the mutex between two waits, and may give up late. `InputCaps` is the code's
loop over an output's channels; an assumption of `MCChannelMapping` compares it with what it is to decide,
`MeetsConstraints`, on every map of four channels, and `InputCapsSound` proves for maps of every size that what
the loop accepts meets it. Left out: GET, removal of outputs,
IS-04 versions, shutdown.

### EventsServer, EventsClient

The server has a grain for each connection, as the Query API has; `Receives` is a message of the client
(a subscription or a health command), `Sync` the states it is answered with, `Pass` and
`Send` the sending thread, `ExpiryCheck` and `ExpiryErase` the expiry thread.
The client is called by the activation thread with the model's mutex held, takes its own, and calls back
with its own held: `Activate` to `Subscribe` is the one order, `CloseHandler` and
`MessageReceived` to `MessageHandled` the other. What a subscription starts is a chain of
tasks (`OldSucceeds`, `Connect`, `Connected`, `Command`) that may overtake those of
later activations. Left out: heartbeats of the client, contents of messages, destruction.

### Authorization

`mode` is the thread's, with one action that sends a request and one for each
outcome. `settings` and `file` outlive `Restart`; `flow` is the authorization code flow
the thread waits for, and `callback` the redirect handler that ends it, in its own sections
under the lock. `Wake` is the thread when the flow's outcome is known. Left out: contents of
tokens and metadata but for the issuer, and back-off.

### StatusMonitor

A monitor has, for each domain, the status that is reported, the one that is pending and the time
at which it is due. `Request` is a call from the user's code, `Activate`, `Deactivate`,
`ResetMonitor`, `Add` and `Remove` what the control protocol and the device do. The thread computes
for how long it may sleep (`SleepFor`) and reports what is due (`DueStatuses`). Left out: messages,
the events that changes of properties insert.

### Restore, ControlProtocol

`Restore` gives the outcome of a data set on a device as an operator: what `PUT
.../bulkProperties` and its validation (PATCH) answer and leave behind, with the members it removes,
creates and modifies, the callbacks of the user that may refuse, and the exceptions that
may end it half way. `ControlProtocol` has the sessions: commands that change or get a property or say
which objects are subscribed, notifications queued for them, the sending thread, and the requests of
the configuration API that change the same objects (`HttpChange`, `PutBulk`).

### Paging

`Insert`, `Modify`, `Erase` and `Forget` give resources their times as `resources.h` does: the present, or one
more than the greatest there is. `Get` is a page between two cursors with its links; a client follows them in
either order. A time here is a number and the clock may stand still.

### TokenIssuers, SystemBehaviour, OcspBehaviour

`TokenIssuers` has two mutexes, each held for one access at a time. A handler of HTTP requests
refuses a token (`Refuse`), sets the flag (`Flag`) and notifies (`Notify`) in three steps; a WebSocket handler
does it in one. The thread takes the issuer (`Take`), fetches the metadata, reads *again* which
issuer is asked for (`StartKeys`) and fetches keys; `Rotate` is the issuer with other keys.
`SystemBehaviour` and `OcspBehaviour` are the pattern of `NodeBehaviour` with nothing to register: a list of
services, the chain of tasks that asks the first again and again, and the failure that removes it
(`SelectNext`). The state of the tasks is shared with the thread in one of them and the thread's own in the
other; the latter loads certificates, which `Renew` replaces. Left out: back-off, shutdown, the
contents of answers but whether the schema accepts them.

### Discovery

One or two browses at once. The daemon tells of an advertisement (`Resolve`, `Skip` of what does not match),
twice or never; `Tick` passes the deadlines; `EndBrowse`, `Complete`, `Cancel` are the ends of the tasks. The
results are merged (`BestOf`: one instance for each address), sorted (`Sorted`) and, if there are none in
unicast DNS, sought by multicast. Abstracted: time has three values (before the earliest deadline, between the
two, after the latest); the random order of equals is any order.

### ControlClasses, ControlModel

`ControlClasses` holds the tables of `control_protocol_resource.cpp`: each class with its properties, methods
and events, each datatype, and beside it the names and nulls of the JSON that the constructors make.
`ControlModel` registers them, inserts the objects of the example in its order, while clients ask (`Start`,
one step for each lookup, as each takes the lock of the descriptors) and the user's code erases descriptors.
Abstracted: values, descriptions and constraints.

### Constraints

`Set`, `SetSequenceItem`, `AddSequenceItem` and `Call` are the methods that write values. `Acceptable` is the
validation: runtime constraints, else those of the property, else those of the datatype; then type. `Truncated` is
what a conversion to a narrower integer keeps. Widths are 2, 3 and 4 bits, so that wrapping
happens; a string is its length and whether it matches the pattern.

### Transport

An endpoint is made (`Made`, with `Constraints` of each leg), patched (`Stage`: the merge, the transport
file's legs, the rules of the API's version) and activated (`Activate`: `Resolved` resolves "auto" as the
library and the example do; then the subscription and the transport file; a callback that throws leaves the
rest undone). A patch is staged if it conforms to the schemas (`Conforms`: "auto", or null, where the transport's schema
has it) and what it makes is valid; `With` is the JSON merge. `Status` is what each route answers, `GetWaits` to `GetDone` the reader that waits for an
immediate activation to be over. Ports are scaled down.

### SessionDescription

A behaviour is one stream on its way: `described` are the parameters that `make_sdp_parameters` takes from the
resources, `document` the session description (records of its lines; where text is converted, what the
conversion does), which another node may have written in another of the ten `Styles`; `parsed` what
`get_session_description_sdp_parameters` and `get_session_description_transport_params` make of it; `verdict`
the outcome of the receiver's checks, of the formats and of its constraint sets. Left out: the grammar's
tokens and the layout.

### ResourceQuery

A client subscribes with a query, which `Value`, `Open`, `TypeName`, `NextArgument` and `Close` read token by
token with the stack `nest` as `parse_query` does; `Parsed` validates it. `Sync` is what a new connection is sent
(`make_resource_events`), `Change` a change of a resource with its event (`insert_resource_events`): `Eval`
evaluates the query (the operators of `rql.cpp`, with the types, `rel` and `sub` of `query_utils.cpp`),
`Extract` finds values by paths through objects and arrays, `MatchBasic` is the basic query, `Downgrade` what is
shown. Exceptions are values: `RuntimeError` is no match, `JsonError` goes on to the caller. Left out: regular
expressions (which text has which part is a constant), percent encoding, the rule for subscriptions as resources.

### ExampleNode

`Script` is what `node_implementation_init` inserts, in its order, as a function of the settings;
`InsertResourceAfter` inserts the next of it under the lock, and `Fail` is a failure half way, after which
`main` still runs what there is. `Activate` is the activation thread taking a sender that was scheduled while
init goes on, `Update` the background task, `StartThreads` to `CloseListeners` the guards of `server.cpp` and
`main.cpp`. `RtpFlow`, `RtpCaps` and their like are what senders send and receivers accept. Abstracted: ids,
names, the tree of the control protocol (which is that of `ControlModel`).

### Services and MCServices

The modules from `EventsServer` on, and `Paging`, are instantiated side by side and checked in one run, because they share
nothing but the mutex: `part` says whose behaviour it is. `Parts` declares the variables once, `v1`, `v2`,
..., and each instance maps its own to the first of them in order of declaration; the rest are `Unused`.

`Services` has those parts of which theorems are proved, with constants for all that they are about; `ServicesAssumption` is what
it assumes of these. `MCServices` extends it with the parts that use recursive operators, and with the values of the
constants that are more than a list in `services.cfg`. `MCConstraints`, `MCTransport` (the endpoints and patches), `MCExampleNode`,
`MCSessionDescription` and `MCResourceQuery` hold what the parts need of definitions of their own, each extending the one
before. A property of either is the conjunction of properties of parts, each implied by the part. The runs check `AllSpec`, whose
behaviours are those of `Spec` of `Services` and those of the other parts.

## 3. What is checked

| run | states | shows |
|---|---|---|
| `registry` | 112,176 | two nodes, a device that moves between them and its sender, two heartbeats half way: the safety properties, the types, and that `Registry` implements `ResourceForest` |
| `registry_live` | 43,960 | with a clock that does not stop and out-of-order registration: nothing expires early, what is silent expires, what is erased is forgotten |
| `query_ws` | 559,850 | two subscriptions, two connections, page size 1: the feed is consistent and complete |
| `query_ws_race` | violation | disconnecting while the subscription is deleted ends the sending thread |
| `node` | 612,115 | three services, two of them discovered at a time, four changes and two faults: nothing is forgotten, the node converges |
| `node_restart` | violation | after a registry restart an update registers the node again without its sub-resources |
| `connection` | 388,607 | three requests, single and bulk, of which two may give up late: replies tell what happened, all are answered |
| `channelmapping` | 154,890 | three requests for two outputs: active maps meet the inputs' constraints, activations are of all outputs or none, replies are true, activations end |
| `services` | 2,268,785 | the parts of `Services` and `MCServices`, each with its properties (up to the symmetry below) |
| `issuer_race` | violation | the keys of a second issuer are requested before its metadata is known, and the thread ends |
| `events_deadlock` | violation | the activation thread and a callback of the events client wait for each other's mutex |
| `restore_sessions` | violation | a restore that fails half way leaves a block that lists other members than there are |

Each violation is a finding in `PROJECT.json`, with the line of code and the
comment or document it disagrees with. The counterexamples are behaviours of the models, which
follow the code; the program was not run.

What the properties of `services` say of each part:

| property | of | says |
|---|---|---|
| `FeedCurrent` | `EventsServer`, `SystemBehaviour`, `OcspBehaviour` | the last message about a source (unless it is `overtaken`), a configuration or a certificate is of its current state |
| `SourcesRequested` | `EventsClient` | an active receiver is connected, and its connection asked for what its receivers want |
| `SelectedServer` | `Authorization`, `SystemBehaviour`, `OcspBehaviour`, `Discovery` | the service in use is the best that has not failed |
| `NoNeedlessRegistration` | `Authorization` | no client is registered twice |
| `NothingLost` | `StatusMonitor`, `TokenIssuers`, `Discovery`, `Paging` | the latest status is or will be reported; a refusal is followed by a fetch; a browse is given its time; who follows the links of pages misses nothing, and may ask again |
| `NothingTooSoon` | `EventsServer`, `StatusMonitor` | only a silent connection expires; no activated domain is reported unhealthy within its delay |
| `EndpointsTrue` | `Transport` | parameters are those the endpoint was made with, within its constraints, as the patches asked; subscription, transport file and routes agree |
| `DeviceTrue` | `ControlProtocol`, `ControlModel`, `Constraints`, `ExampleNode`, `SessionDescription` | a restore does what it reports; objects, values, resources and descriptions are what their classes, types, references and senders say |
| `AnswersComplete` | `ControlProtocol`, `ControlModel`, `ExampleNode`, `SessionDescription`, `ResourceQuery` | notifications and answers tell what an object is, lookups find all that is inherited, monitors and senders follow, a receiver accepts what suits it, queries are read and mean what grammar and operators say, and their subscribers are told of what matches |

`TypeOK` is of the parts of `Services`; the types of the others are in `DeviceTrue`.

### Bounds

- *Registry.* Two nodes are the fewest a device can move between; node, device, sender is the deepest
  chain in which a walk can stop early; two handlers are the fewest that overlap. The interval is one
  second and the clock stops at 3: a resource can be registered, expire and be
  forgotten (twice the interval), and there is time left to register it again.
  `MCRegistryLive` replaces the stop: at `MaxNow` every time is moved back by a second. Times
  are only compared, and one that reaches 0 is older than any comparison can tell.
- *QueryWs.* One resource with two values and a subscription that matches only one of them give
  all kinds of events (added, modified, removed from view). Two events for a page of one
  make a message cut, and one subscription is persistent. `MaxEvents` stops changes
  when a grain is full, so that each history can still be sent.
- *NodeBehaviour.* Two services in a list let one fail over to the next; the third has another API version,
  which restarts registration. Two faults allow a failure during the recovery from a failure.
- *Connection.* Two resources and bulk requests in opposite orders are the least for requests
  that wait for each other; three requests let a third change what two others wait for.

- *ChannelMapping.* Two outputs are the fewest an activation can be half done on. One input has blocks of two
  that may be reordered, the other has to be routed in order: each constraint forbids some of the maps that
  the five actions compose.
- *EventsServer.* One source, one connection and the health resource; the interval is a second and the
  clock stops at 2, so that a connection can expire, or be renewed as it does. Three subscription commands let a
  source be taken, given up and taken again while a message about it waits.
- *EventsClient.* Two receivers, two places to connect to with two sources each, three activations:
  the receivers can share a connection, leave it one by one, and come back.
- *Authorization.* Two servers and two discoveries for a failover, a flow and a restart for a file that
  is read again.
- *StatusMonitor.* A domain of each kind (active, optional, neither); monitors with delays of one and two seconds,
  so that the thread sleeps for the one while the other is due; the clock stops at 5.
- *ControlProtocol.* A block with one member, three messages, one change and a restore from one of four data
  sets; `RestoreTrue` tries 96 data sets, with every callback that refuses one thing,
  on every device reached.
- *SystemBehaviour, OcspBehaviour, TokenIssuers.* Two services (`MaxServices`) are the fewest one can fail over to, two
  issuers the fewest to be confused; three configurations, of which the schema refuses one; two renewals and
  one rotation, so that something is replaced while an answer is on its way.
- *Discovery.* Six advertisements of two registries, which differ in version, priority, service type, domain
  and suitability; two replies for a browse: one to prefer and one to be preferred.
- *ControlModel.* Two receivers and two senders: the last two of a block are still told apart. One class
  and one datatype are erased, from which those that are asked about inherit.
- *Constraints.* Every primitive type, an enumeration, structs with other structs as fields, each with and
  without constraints and as a sequence of at most one item.
- *Transport.* 11 endpoints of all transports (one leg and two, with sets of parameters, fixed or
  constrained), three patches: one to be overwritten, one that fails, one that becomes active.
- *SessionDescription.* 56 streams of all formats (raw and coded video, audio, ancillary data, multiplexed
  streams), of one leg and two, with all kinds of clocks; 22 receivers that a stream just meets or misses; 10
  ways to write a session. Each stream is on its own, so that no more of them at once could show more.
- *ResourceQuery.* Three resources of versions 1.1 to 1.3 and two changes; 2,500 texts: queries with every
  operator and type, over properties that are there, missing, null, in arrays and arrays within arrays; each
  with any one token left out; all texts of up to four tokens. Basic queries with all flags, clients of all versions.
- *ExampleNode.* Seven settings, named in `MCExampleNode`: all ports, ports named twice, no interface, two
  listeners with one port, video that cannot be described, more indices of one port; the clock's seconds 0 and
  25, at which the temperature differs.

The symmetry of `services` exchanges the two sources, and the two places to connect to, of `EventsClient`.
Only this part uses them, it compares them for equality only, and no liveness is checked in that run.
- *Paging.* Three resources of which the query matches two, limits from 0 to 2, times up to 4.

Deadlock is checked for the registry. `CHECK_DEADLOCK FALSE` is there where the system may
be at rest: in the WebSocket runs connections and subscription ids are used once and the sending
thread may terminate; in the node runs changes and faults are bounded; in the connection and
channel mapping runs requests are finitely many; in the runs of `MCServices` clocks stop and inputs are bounded.

### Fairness

- *Registry.* Handlers that have begun go on (weak). The expiry thread's check runs when
  its wait is over (weak). For the upgrade to the exclusive lock, which is disabled again and
  again by heartbeats, strong fairness: `bst::shared_mutex` makes new readers wait
  while a writer is waiting. `SilentExpires` and `ErasedForgotten` need a clock that goes on.
- *QueryWs.* The thread runs when it has something to do and is not assumed to wake
  up without reason; throttling times pass; a close handler that was called gets the lock.
- *NodeBehaviour.* The thread runs; requests are answered, fail or are cancelled (the
  HTTP client has a timeout); discovery comes to an end. Changes and faults are
  bounded, which is the premise of `Converges`.
- *Connection, ChannelMapping.* The holder goes on; a waiting request wakes if notified or at its timeout; the
  thread runs if notified or at its deadline; scheduled times come. Requests are finitely many.
- *MCServices.* None: its properties are about safety.

## 4. What is proved

All safety properties of the runs `registry`, `query_ws`, `node`, `connection` and `channelmapping` are theorems,
and so are eight of the ten properties of the run `services`, all those of `Services`. A theorem holds for
every value of the constants that meets the `ASSUME`s of the module, and those are what the code gives: sets of
devices and of queried resources are finite, the marks for "none" are no values of the sets, an output's initial map meets the
constraints (the application sets outputs up so), a channel-mapping body has at least one output, each of them
once. A theorem that needs more states it as its premise.

Each proof has the same shape. The properties are not inductive, so an invariant is defined that implies them, as a
conjunction of named parts. Where the component has a run of its own, TLC has checked each of these on that instance. Each action has a
lemma that it keeps the invariant, a lemma puts them together, and the theorems follow by temporal logic. Lemmas
about the model's operators come first.

### Registry (`RegistryProofs`)

For every set of ids, bodies and handlers and every interval. `TypeCorrect` has no premise but the constants'
assumptions. The others assume `Ordinary`: out-of-order registration is off, and no
node has two heartbeats in progress. Both are needed: without the first a device may have no
parent; without the second a heartbeat that was overtaken sets a health back, and may do so after the
expiry thread has relied on it.

| theorem | says |
|---|---|
| `TypeCorrect` | `Spec => []TypeOK` |
| `Safety` | `Spec => []SafetyInv`, the inductive invariant |
| `ReferentialIntegrityHolds` | what is registered has its parent |
| `TrackedFamilyHolds` | the tracked family is the family of the data |
| `FamilyHealthHolds` | one health per family between heartbeats |
| `WakesInTimeHolds` | the expiry thread never sleeps past a certain expiry |
| `HealthNeverDecreasesHolds` | no step sets a health back (in no run) |
| `NoEarlyExpiryHolds` | no step expires a family acknowledged within the interval |
| `RegistryImplementsForest` | `Spec => Implements`: every step of `Registry` is one of `ResourceForest` or a stutter |

`FamilyHealth` is not inductive: half way through a heartbeat a family
has two healths. The invariant says exactly where the difference may be
(`Healths`: between a child that has been done and a parent that has not), what a heartbeat has
still to do (`Beats`: a set closed upwards that ends at the node, all of it older than the
heartbeat) and that two heartbeats have nothing in common (`Disjoint`, which rests on
`WalksApart`: families of different nodes are disjoint). `Tracked` is
`TrackedFamily` made local, parent by parent, so that it can be carried over a step; from
it the least closed set `Tree` that `erase_resource` and `set_resource_health` visit is the family
(`TreeLeast`, `TreeClosed`). Expiry keeps `ReferentialIntegrity` because the
resources above and below one that expires have its health when nobody holds the lock
(`QuietFamily`). `Clock` and `Deadline` bound the healths and the deadline by the clock, from which
`WakesInTime` follows at each heartbeat and registration.

The refinement rests on the same invariant. The forest removes what is below a resource in its own data
(`Below`, the least closed set); `TreeIsBelow` shows that the bookkeeping's `Tree` is that set, `ClimbsToNode` and
`BelowRoot` that the walk of a heartbeat ends at the node whose family it is, and `ChildRefers` that
families are told apart by data alone. Each action then has a lemma that names the step of the forest it is.

### Connection (`ConnectionProofs`)

For every set of resources, every number of requests and bodies of every length.

| theorem | says |
|---|---|
| `TypeCorrect` | types; at most one request holds the mutex, and it is not waiting |
| `ActivatedOnceHolds` | parameters become active at most once, and only if their item asked for it |
| `LockOwnedHolds` | an immediate activation that locks a resource belongs to a request that will collect it, unless the thread was starved |
| `OutcomeHolds` | the answer to an immediate activation says whether its parameters became active |

`SafetyInv` says what is where: how far each handler is and which results it has (`Handlers`), that whatever is
staged was asked for by an item with a result (`StagedByItem`), that its count is one if and only if it is done
(`Counted`), and for whom a lock is held (`Owned`). `Outcome` needs two more parts: a request has
at most one accepted immediate activation of a resource to collect (`OneAccepted`), and what is accepted stays staged until
it is collected or fails (`Reported`). `OneAccepted` is true because between two items of one resource the handler does not
give the mutex up, and so only if those items follow one another: `OutcomeHolds` has the premise `Consecutive`. It is
not for want of a proof. Without it `Outcome` is violated, as section 5 tells.

### Transport (`ConnectionProofs`)

For every set of endpoints of the four transports with any number of legs, and every set of patches. `TransportParameters`
is what the theorems assume: the marks are no values (`ValuesDistinct`), endpoints are made as the application makes them (`EndpointsMade`:
each leg has hosts, what is fixed is a parameter of the transport), and a parsed session description gives parameters of the transport,
with ports that are numbers (`FilesParsed`). `ServicesAssumption` has all three, and TLC evaluates it in the run `services`.

| theorem | says |
|---|---|
| `TransportTypeCorrect` | types, and as many legs as the endpoint was made with |
| `LegsKeptHolds` | neither a patch, nor a session description, nor an activation adds or removes a leg or a parameter |
| `ActiveResolvedHolds` | no "auto" is active, and every active value is allowed by the leg's constraints, with the exceptions below |
| `PatchHoldsAlways` | what a patch asked for is what is staged |
| `ActiveAgreesAlways` | subscription and transport file say what the active parameters do |
| `InFlightHiddenAlways` | nobody reads an immediate activation on its way |
| `RoutesAnswerAlways` | each route answers |

A leg is *sound* while it is staged (`SoundLeg`: a parameter is "auto" only if the transport can resolve it for that type of
endpoint, and is within the constraints otherwise) and *settled* when it is active (`SettledLeg`). The argument runs along the code:
the schema lets "auto" through only where the resolver replaces it, validation bounds what is not "auto" (`PatchedSound`), a
resolver puts in a value within the constraints (`RtpResolved`, `OthersResolved`, the ports of an RTP leg derived from one
another in `Derived`), so that an activation turns sound legs into settled ones (`ActivatingSettled`). The exceptions are the code's: an RTP sender's
`/active` as it was made, before its first activation (section 5), a receiver's FEC mode, and null where the schema has it.

### NodeBehaviour (`NodeBehaviourProofs`)

For every set of devices, services and lists of services, and any number of changes and faults.

| theorem | says |
|---|---|
| `TypeCorrect` | types |
| `TasksHaveClientHolds` | no request or heartbeat outlives the clients of the operation that started it |
| `PersistedHolds` | heartbeats go on until a flag ends the operation, and are not left behind |
| `NothingForgottenHolds` | what is still to be sent makes the registry equal to the node, unless the registry lost or refused something |

`ControlInv` ties the thread's mode, place and flags to its tasks (`Places`, `Beats`) and the request under way
to the event it is for (`Requests`). `NothingForgotten` speaks of the events in order, and is carried over a
step by what each of them means: the last event of a resource leaves it as the node has it (`Follows`), the node goes last and comes first (`Ordered`, `Readded`), and
the registry has the node unless its removal is the first event (`Linked`). `Kept` says this of a
node that is registered, `Begun` of one that is not yet, whose queue starts with the node.

### QueryWs (`QueryProofs`)

For every set of resources, subscriptions and connections, every relation of what a subscription matches, and
every page size.

| theorem | says |
|---|---|
| `TypeCorrect` | types; no message is longer than the limit |
| `HealthHolds` | a subscription can expire exactly when it is not persistent and has no connections |
| `FeedConsistentHolds` | what a client has been told, with what is under way and what waits, is the registry as its subscription sees it |
| `EventsChainHolds` | the `pre` of an event is what the client will know by then, but for initial events |

`Structure` is the bookkeeping of subscriptions, connections and grains (`Unopened`, `SentAll`, `Members`, `Grains`,
`Health`). `Feeds` says of each client that is served that its message under way and its events, put together,
turn what it knows into what its subscription matches, each following from the one before (`Fed`, `Chained`). Cutting a
message, or sending it, moves events within that one sequence; a change appends to it. `Apply` folds a sequence of events;
`Knows` says what it computes without a fold (the last event about a resource decides), and `ApplyKnows` that the two agree.

### Paging (`QueryProofs`)

For every finite set of resources and every query, limits that are natural numbers, and any number of changes. `QueryProofs` has
a second set of variables for `Paging`, which it takes by an instance, as `Services` does.

| theorem | says |
|---|---|
| `PagesTypeCorrect` | types |
| `TimesUnique` | no two resources have one time of creation or update, wherever the clock stands |
| `NothingMissedHolds` | who follows the links has been told of all that was created or updated between the times it has come to |
| `RepeatableHolds` | a request for the since and until of a reply has the same reply |

`PagesInv` adds to these properties what carries them over a step (`Later`): a resource is created before it is updated, so that
the greatest time of update is greater than every time of creation too, and the time that the next change will get is later
than any client has come to. `Changed` is what insertion, modification and removal have in common. Forgetting a resource may take the
greatest time away, and keeps `Later` only because what is forgotten is older than the clock (`ForgetStep`): where the clock is
set back, this argument fails, and the property with it (section 5). `FirstPageFacts` and `LastPageFacts` say that a page has
exactly those of the resources asked for that lie between the times it answers for, for every way of counting up to the limit.
`RepeatableHolds` needs `TimesUnique`: two resources of one time at the start of a last page would make it longer than the limit
(`PageSize`), and the same times would then get another page.

### ChannelMapping (`ChannelMappingProofs`)

For every set of inputs and outputs with any channels and capabilities, and any bodies.

| theorem | says |
|---|---|
| `TypeCorrect` | types; an output is locked by a request, for a patch of its own channels |
| `AllOrNothingHolds` | an activation is performed on all of its outputs or on none |
| `RepliesTrueHolds` | what is reported as activated is active on every output; what is refused or deleted is never activated |
| `ActiveMeetsConstraintsHolds` | every active map meets the constraints of output and inputs |
| `InputCapsSound` | the code's loop over an output's channels accepts only maps that meet the inputs' constraints |

`Progress` lists what a request may have come to (`Unused`, `Refused`, `ForLater`, `AtOnce`), each with the set of
outputs on which it is staged (`Locked`) and performed. `Validated` says that what is staged still fits the map that
is active: nobody else may change a locked output. `InputCapsSound` is about a recursive function, the loop, and
is proved by the least channel at which it would be wrong: `Scanned` says what the loop has found out by each channel
(`Current`: the input and block it is in; `Blocks`: those before it are complete; `Offsets`: each is in order).

### EventsClient (`ServicesProofs`)

For every set of receivers, sources and places to connect to. The premise `ClientParameters` says that "none" is the name of neither
a receiver nor a place, and that activations are counted.

| theorem | says |
|---|---|
| `ClientTypeCorrect` | types; who holds the client's mutex |
| `SourcesRequestedHolds` | an active receiver is connected or being deactivated, and the sources asked for last are those its connection's receivers want |

Chains of tasks overtake each other, so that the invariant numbers them: a chain is that of one activation, and has a
place to connect to when it comes to the connection (`Chains`); a client connects once and is closed once
(`Once`); the connection of a place was opened for it and has a receiver (`Opened`).

### EventsServer (`ServicesProofs`)

For every finite set of sources, and any connections, commands, interval and bounds. The premise `ServerParameters` adds that
what health messages are about is no source.

| theorem | says |
|---|---|
| `ServerTypeCorrect` | types |
| `ServerFeedCurrent` | the last message about a source subscribed to tells its state, unless it is overtaken; every health command has one answer |
| `ServerExpiredIsClosed` | an open connection is known; one that has expired is closed by the sending thread, which has been notified |
| `ServerNoEarlyExpiry` | only a connection that has been silent for longer than the interval is given up |

`FeedCurrent` is inductive once it is known that what the thread takes comes from a grain that is there
(`ExpiredIsClosed`) and that a connection still to be made has nothing (`Fresh`). The proof is about queues: what two of them
tell, one after the other, is what the second tells, or else the first (`TellsConcat`), and numbers of answers add up
(`CountConcat`). So a pass changes nothing, sending a message changes only where it is, and a change of a source is
told last. Of a subscription command (`FeedSubscription`): a source without messages that wait is told by its sync event, and one
with such messages was subscribed to before, and these told its state. That is not so if it was given up in between: an attempt at
this proof without `overtaken` failed there, and TLC then found the behaviour that section 5 describes, with three commands.

### StatusMonitor (`ServicesProofs`)

For every set of monitors and domains and every delay. The premise `Delays`: there is a monitor and a longest delay, and active
domains are domains.

| theorem | says |
|---|---|
| `TypeCorrect` | types; no domain counts more transitions than statuses were reported, and the thread wakes within the longest delay |
| `NothingLostHolds` | the latest status is reported, or pending with the thread told and awake in time |
| `DelaysHold` | no active domain turns unhealthy within the delay of an activation, by a report or by what was pending |

`Sound` says of one monitor that what is pending for an active domain was received since the activation, that it
is inactive when an active domain is, and where the latest status is. `Watched` says of the thread that it does
not sleep longer than some delay from when anything it looks after was received. `ApplySound` shows that
`set_monitor_status_internal` keeps `Sound` whatever set of domains is given a status; the calls and the thread's pass are
instances of it.

### SystemBehaviour and OcspBehaviour (`ServicesProofs`)

For every set of services and every length of the list. The premises: what "none" is called is no service, valid data is
data, and bounds are natural numbers. `ServicesProofs` has these modules, and those below, as instances.

| theorem | says |
|---|---|
| `SystemTypeCorrect`, `OcspTypeCorrect` | types |
| `SystemSelectedFirst`, `OcspSelectedFirst` | the service in use is the first on the list; those left on it have not failed since it was made |
| `SystemToldIsCurrent` | the user was told the last answer of the service in use |
| `OcspCachedIsCurrent` | while nothing is requested, the response kept is that of the server in use, about the certificates of the request |

The services of a list differ (`ListFacts`), so that giving up the first leaves others. `SystemPlaces` and `OcspPlaces` say
by where the thread is what is true of the list and of the tasks: that those left have neither failed
nor are the one the tasks asked last, without which a service on the list could be taken for one already known
and not be asked at once; and that no task is left when the next is selected.

### TokenIssuers (`ServicesProofs`)

For every set of issuers and any number of rotations; "none" is the name of no issuer.

| theorem | says |
|---|---|
| `IssuersTypeCorrect` | types |
| `IssuersRefetchTriggered` | a refused token is followed by a fetch that begins later; the thread does not sleep while one is due |

`RefetchTriggered` is inductive with the types and `Named`: a flag that is set names an issuer, and the thread has one from
when it takes it.

### Authorization (`ServicesProofs`)

For every finite set of servers and any number of discoveries and restarts.

| theorem | says |
|---|---|
| `AuthTypeCorrect` | types |
| `AuthSelectedServer` | the server in use is the first on the list |
| `AuthNoNeedlessRegistration` | without OpenID Connect, no client is registered where one that has not expired is saved |

`AuthChosen`: the list is not empty while metadata is asked for, or a failure is still to be counted, and in the modes that
follow its head is the server. `AuthSaved`: without OpenID Connect what is saved is cached, also after a restart, which is why a
client that is not in the cache is not in the file; and registration is entered where nothing saved could be used.

### Discovery (`ServicesProofs`)

For every set of advertisements with natural numbers for versions and priorities, and any number of replies.

| theorem | says |
|---|---|
| `SearchTypeCorrect` | types |
| `SearchPatient` | no browse ends too early, but for the reasons it may |
| `SearchBestFirst` | the list has what was found, each uri once with its best advertisement, the better ones first |

`SearchStops` says why a browse has had enough and why it is told to stop. What is found is finite (`FoundFacts`), so that
there is a best advertisement of each uri: one with the fewest better ones (`BestFacts`). An order of as many places as
elements that has them all has none twice (`SortedFacts`).

### Services (`CompositionProofs`)

For all constants that meet `ServicesAssumption`, whichever part a behaviour is of.

| theorem | says |
|---|---|
| `TypeCorrect`, `FeedCurrentHolds`, `SourcesRequestedHolds`, `SelectedServerHolds`, `NothingLostHolds`, `EndpointsTrueHolds` | `Spec => []P` for the invariant of that name |
| `NothingTooSoonHolds`, `NoNeedlessRegistrationHolds` | no step does what the property forbids |

The parts were proved with variables and constants of their own. `CompositionProofs` takes those modules of proofs as instances, on the
variables of `Services`, and shows three things of each part: that the premises of its theorems follow from `ServicesAssumption`
(`Parameters`), so that none of these theorems has a premise left; that the definitions it was proved with are those that
`Services` has (`SameEventsOut` and so on); and that a behaviour of `Services` that has chosen the part is one of the part's own
specification (`EventsOutBehaves`), because `part` never changes. Each theorem then has one step for each part it speaks of.
`QueryProofs` and `ConnectionProofs` are about `QueryWs` and `Connection` too, which are no parts: they are instantiated with
empty sets there, and `QueryWsAssumption` and `ConnectionAssumption` prove what they assume. Nothing that is said of pages or
endpoints rests on them.

### What is only model-checked

- Every liveness property (`SilentExpires`, `ErasedForgotten`, `Delivered`, `Converges`, `Answered`, `ScheduledEnds`,
  `ActivationsEnd`): liveness under fairness is beyond the prover.
- `DeviceTrue` and `AnswersComplete` of `MCServices`, which are about `ControlProtocol`, `ControlModel`, `Constraints`,
  `SessionDescription`, `ResourceQuery` and `ExampleNode`. Most of what they check is what an algorithm computes for
  bounded inputs, by recursive operators; `ViewCurrent` of `ControlProtocol` is about a fold, which needs induction over data.
- What a recursive definition computes in general: the library's induction theorems take operators as parameters, which the
  provers cannot instantiate. Where it was needed, a set of counterexamples has a least element (`NatMin` of `DataFacts`).

## 5. What else was observed

Properties that are stated in the modules because a reader may expect them, and are violated by what the code
does, without a document that promises them. They are in no run.

- `QueryWs`, `DeletedCloses`: deleting a subscription need not close its connection.
- `Registry` with `Overlap`: overlapping heartbeats of one node set a health back.
- `Connection`, `ScheduledLocked`: a PATCH that has waited overwrites an activation that was scheduled meanwhile.
- `Connection`, `Outcome` with `RepeatedBodies` (of `MCConnection`): a bulk request that names a resource twice, with another one in between,
  may wait for the other with the mutex given up; its first activation of the resource is then performed, the second one takes
  its place, and both are answered by what was staged last, although the request id "uniquely identifies this immediate
  activation" (`connection_api.cpp:481-482`; 542, 1028, `activation_utils.cpp:222-223`).
- `EventsServer`, `FeedCurrent` without the exception for `overtaken`: a client that takes a source up again is sent its
  current state before messages that have waited since it gave the source up (`events_ws_api.cpp:244-252`), and keeps an older
  state until the source changes again.
- `ChannelMapping`, `LockReleased`: an output remains locked by an immediate activation whose handler gave it up,
  until the thread has performed it.
- `EventsClient`, `OpensConnection`, `ErasesOwnConnection`: a close handler removes the connection that took
  the place of its own; a chain overtaken by a later one leaves its connection unopened.
- `Authorization`, `RefreshesOwnToken`, `NoDeadlock`: a refresh token is sent to the server selected since; the
  thread and the redirect callback may wait for each other.
- `StatusMonitor`, `ThreadSurvives`: removing a monitor between two passes ends the thread;
  `HealthyInEveryDomain`, `DelaysEveryDomain`: the delay after activation covers the monitor's active domains only.
- `NodeBehaviour`, `OnlyFailedServicesPopped`: the error of a task that was cancelled makes the thread give up
  a service that has not failed.
- `OcspBehaviour`, `SendsARequest`: the mode is set before the request is made, which may throw; the thread
  then sends a request that was never made. A response that has expired gives a negative interval, and
  requests without a pause.
- `TokenIssuers`, `ValidatorsIntact`: the validator of an issuer captures references to variables of a
  function that has returned (`authorization_operation.cpp:1925`, also at 1092). In `authorization.cpp:184`
  the reason why the token in a header was refused is overwritten.
- `Discovery`, `KeepsBrowsing`: an advertisement skipped for its domain, with the comment "keep browsing"
  (`mdns.cpp:552`), lets the browse give up at the earliest deadline like one that was found.
- `ControlProtocol`, `Woken`: a change by `PATCH .../methods` does not notify
  (`configuration_api.cpp:495-570`; PUT does, at 613), so that its notifications wait for the next occasion.
- *Restore.* Validation and restore differ where an oid is freed by a removal, or a generated oid is another
  new member's constant one: hence the premise `Consistent` of `RestoreTrue`. A created object has the data
  set's owner, although the notice says that the block's oid takes precedence; its descriptor is always of the
  receiver monitor class; the warnings about inconsistent oids and roles cannot be reached; other properties
  of the block are not restored when its members are; an object that fails is partly modified;
  `nc::erase_resource` leaves descendants.
- *Control model.* `get_datatype` with what is inherited does not end if a parent type is not registered, and
  holds the model's lock (`control_protocol_methods.cpp:645-668`); the default class id `{0}` of a descriptor
  makes "classId not found" unreachable; the handler of method descriptors takes a read lock twice
  (`control_protocol_handlers.cpp:43-72`); `make_nc_validate_set_properties_by_path_handler` captures by
  reference (`control_protocol_state.cpp:300`); `make_device_manager` passes the product key twice
  (`control_protocol_resources.cpp:84`); `insert_root` ignores insertions that fail.
- *Constraints.* A nullable property of a primitive type or typedef cannot be set to null; 16-bit integers
  wrap instead of being refused; `NcFloat64` refuses integral numbers, and limits refuse others; runtime and
  property constraints replace the check of the type; inherited fields of a struct are not checked.
- *Transport.* "auto" stays in `/active` of an RTP sender until it is activated, although
  `connection_resources.cpp:310` asks the caller to resolve it; the example's transport file throws for coded
  video it does not know (`node_implementation.cpp:2194`), after `/active` has changed and before the
  subscription does; ports derived from 65535 are not valid; a receiver made without multicast parameters
  cannot take a multicast session description; one resource without its IS-04 counterpart fails the whole list
  (`connection_api.cpp:1182-1186`).
- *Session descriptions.* For the second leg the connection data of the first takes the place of the session's
  (`sdp_utils.cpp:1089`); DID_SDID is matched with letter case, other parameters without (1639); a sampling
  that is not specified cannot be described; no group is written for one leg.
- *Resource queries.* `NothingThrows`: an operator with too few arguments passes validation, and throws an
  exception that is no runtime error (`query_utils.cpp:367`); so does `rel` when the linked resource is not
  registered (326 returns null, of which a property is then asked). The request that changed a resource is then
  refused although the change was made. `MatchesAsShown`: a query is put to the resource as registered, so that
  a client of an older version finds it by a property that it is not shown (374 doubts that this matters).
  `eq(p,null)` is true where `p` is missing, and a query with `rel` is not put again when the linked resource
  changes; a typed sampling throws for an array unless it is used with `in` or `out`.
- *Example node.* A sender may be activated before its monitor exists, which then stays inactive; `rand() % 3`
  never takes the fourth case; a failed initialization leaves a part of the model registered while the server
  runs; controls are advertised before the listeners are open.
- *Paging.* With a limit of 0 the links make no progress; when the clock is set back and the newest resource
  forgotten, times are used twice.

## 6. Not modelled, and the plan

1. Several registries that do not share their data, in `NodeBehaviour`: whether a stale copy of the node in
the first registry ends with its expiry there.
2. To be proved next: the references of `ExampleNode`, and the views of `ControlProtocol`. Small
components may share a module of proofs, by instances as in `ServicesProofs`.
3. Removal of resources while they are being activated, in `Connection` and `ChannelMapping`.

Outside the plan: the wrappers (HTTP, WebSocket and DNS-SD libraries, of which `ws_listener_impl.cpp` and
`service_discovery_impl.cpp` appear as the modules above use them), the advertising of services, conversions
(JSON, the tokens of the SDP grammar, schemas), packet capture (LLDP), cryptography and the claims of
tokens, logging (`slog/all_in_one.h` alone is 4,400 lines), and the registry's `main`. They are pure input and
output, or functions of one argument that the repository's unit tests cover well.
