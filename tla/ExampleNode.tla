------------------------------ MODULE ExampleNode ------------------------------
(***************************************************************************)
(* The example node (nmos-cpp-node): what its settings make of the model   *)
(* (node_implementation_init), in which order, while the other threads     *)
(* run; its background task (node_implementation_run); and the server that *)
(* starts and joins the threads (nmos/server.cpp, main.cpp).               *)
(*                                                                         *)
(* A resource is <<store, type, key>>, a key a port and an index.  A       *)
(* temperature is in tenths of a degree.  The control protocol's objects   *)
(* are those of ControlModel: only those made for a sender or receiver,    *)
(* the sensor and the root are told apart here.                            *)
(***************************************************************************)
EXTENDS Integers, Sequences, FiniteSets, SequencesExt, TLC

CONSTANTS
    Config,         \* settings that validate_node_implementation_settings lets through
    Second,         \* seconds of the clock, modulo 100, at which the task may run
    None            \* no value

VARIABLES
    config,         \* the settings
    life,           \* how far the server is
    shutdown,       \* the model's shutdown flag
    example,        \* how far node_implementation_thread is
    todo,           \* the resources init has not inserted yet, in order
    inserted,       \* those it has
    sending,        \* the RTP and MXL senders: scheduled, active, or failed
    monitored,      \* the monitors that are active
    task,           \* the background task: none, waiting, due or done
    measured,       \* of each event source, and of the sensor, its value
    simulated       \* of each monitor, the status that the task last gave it

vars == <<config, life, shutdown, example, todo, inserted, sending, monitored, task, measured, simulated>>

-----------------------------------------------------------------------------
(* Ports and ids *)

RtpPorts == <<"v", "a", "d", "m">>
WsPorts  == <<"t", "b", "s", "c">>
MxlPorts == <<"xv", "xa", "xd">>

\* parse_ports: null stands for all of them
PortsOf(setting) == IF setting = <<None>> THEN RtpPorts \o WsPorts \o MxlPorts ELSE setting

RtpOf(setting) == SelectSeq(PortsOf(setting), LAMBDA port : port \in ToSet(RtpPorts))
WsOf(setting)  == SelectSeq(PortsOf(setting), LAMBDA port : port \in ToSet(WsPorts))
MxlOf(setting) == SelectSeq(PortsOf(setting), LAMBDA port : port \in ToSet(MxlPorts))

\* for each index, for each port
Keys(ports, how_many) ==
    FlattenSeq([i \in 1..how_many |-> [j \in DOMAIN ports |-> <<ports[j], i - 1>>]])

\* make_id
Item(store, type, key) == <<store, type, key>>

Node   == Item("node", "node", <<"", 0>>)
Device == Item("node", "device", <<"", 0>>)

\* make_ids
Items(type, ports, how_many) ==
    {Item("node", type, key) : key \in ToSet(Keys(ports, how_many))}

\* The control protocol's objects are known by their roles
Object(type) == Item("control", type, <<"", 0>>)

Served(c, service) == service \in c.services

-----------------------------------------------------------------------------
(* What the settings make *)

\* get_interlace_mode
InterlaceMode(c) ==
    IF c.interlace # None THEN c.interlace
    ELSE IF c.rate \in {"25", "29.97"} /\ c.height = 1080 THEN "interlaced_tff" ELSE "progressive"

Bit(n, i) == (n \div 2^i) % 2 = 1

\* How many bits of n are set, from bit i up
Ones(n, i) == CHOOSE k \in 0..n : ~Bit(n, i + k) /\ \A j \in 0..(k - 1) : Bit(n, i + j)

\* insert_parents: of the ones at the end of the index the last is cleared, and
\* then those from the bit after the next up, one more for each parent
Parents(n) ==
    LET ones == Ones(n, 0)
    IN IF ones = 0 THEN {}
       ELSE {n - 2^(ones - 1) - (2^(ones + 1 + j) - 2^(ones + 1)) : j \in 0..Ones(n, ones + 1)}

WithParents(type, key) ==
    IF key[1] \in ToSet(WsPorts) THEN {}
    ELSE {Item("node", type, <<key[1], n>>) : n \in Parents(key[2])}

VideoFlow(c, media_type) ==
    [media_type |-> media_type, rate |-> c.rate, height |-> c.height, interlace_mode |-> InterlaceMode(c)]

AudioFlow(c, media_type, depth) == [media_type |-> media_type, channels |-> c.channels, depth |-> depth]

AncillaryFlow(c) == [media_type |-> "video/smpte291", rate |-> c.rate]

RtpFlow(c, port) ==
    CASE port = "v" -> VideoFlow(c, c.video)
                       @@ (IF c.video # "video/jxsv" THEN <<>>
                           ELSE [profile |-> "High444.12", level |-> c.height, sublevel |-> 3, bit_rate |-> 2])
      [] port = "a" -> AudioFlow(c, "audio/L24", 24)
      [] port = "d" -> AncillaryFlow(c)
      [] port = "m" -> [media_type |-> "video/SMPTE2022-6", rate |-> c.rate]

\* Of an audio stream of more than eight channels the packets are shorter
WithPacketTime(flow) ==
    IF "channels" \in DOMAIN flow
    THEN flow @@ [packet_time |-> IF flow.channels > 8 THEN "0.125" ELSE "1"] ELSE flow

EventFlow(port) ==
    [media_type |-> "application/json",
     event_type |-> CASE port = "t" -> <<"number", "temperature", "C">> [] port = "b" -> <<"boolean">>
                      [] port = "s" -> <<"string">> [] port = "c" -> <<"number", "enum", "caterwaul">>]

MxlFlow(c, port) ==
    CASE port = "xv" -> VideoFlow(c, "video/v210")
      [] port = "xa" -> AudioFlow(c, "audio/float32", 32)
      [] port = "xd" -> AncillaryFlow(c)

\* A constraint set gives some parameters the values they may have
InterlaceModes(c) ==
    IF InterlaceMode(c) = "progressive" THEN {"progressive"}
    ELSE {"interlaced_bff", "interlaced_tff", "interlaced_psf"}

RawVideoSet(c) == [rate |-> {c.rate}, height |-> {c.height}, interlace_mode |-> InterlaceModes(c)]

JxsvSet(c) == [profile |-> {"High444.12"}, level |-> {c.height}, sublevel |-> {3, 4}, bit_rate |-> 1..4]

Lower(a, b) == IF a < b THEN a ELSE b

AudioSets(c) ==
    {[channels |-> 1..c.channels, depth |-> {16, 24}, packet_time |-> {"0.125"}],
     [channels |-> 1..Lower(8, c.channels), depth |-> {16, 24}, packet_time |-> {"1"}]}

\* make_receiver
Caps(media_type, sets) == [media_type |-> media_type, sets |-> sets]

RtpCaps(c, port) ==
    CASE port = "v" -> Caps(c.video, CASE c.video = "video/raw" -> {RawVideoSet(c)}
                                       [] c.video = "video/jxsv" -> {JxsvSet(c)}
                                       [] OTHER -> {})
      [] port = "a" -> Caps("audio/L24", AudioSets(c))
      [] port = "d" -> Caps("video/smpte291", {[rate |-> {c.rate}]})
      [] port = "m" -> Caps("video/SMPTE2022-6", {[rate |-> {c.rate}]})

\* An event type may end in a wildcard
EventCaps(port) ==
    [media_type |-> "application/json",
     event_type |-> CASE port = "t" -> <<"number", "temperature", "*">> [] port = "b" -> <<"boolean", "*">>
                      [] port = "s" -> <<"string", "*">> [] port = "c" -> <<"number", "enum", "caterwaul">>]

MxlCaps(c, port) ==
    CASE port = "xv" -> Caps("video/v210", {RawVideoSet(c)})
      [] port = "xa" -> Caps("audio/float32", {[channels |-> 1..c.channels, depth |-> {32}]})
      [] port = "xd" -> Caps("video/smpte291", {[rate |-> {c.rate}]})

-----------------------------------------------------------------------------
(* The order in which they are inserted *)

Media(key) == [i \in 1..3 |-> Item("node", <<"source", "flow", "sender">>[i], key)]

SenderItems(key) == Media(key) \o <<Item("connection", "sender", key)>>

EventSenderItems(key) == SenderItems(key) \o <<Item("events", "source", key)>>

ReceiverItems(key) == <<Item("node", "receiver", key), Item("connection", "receiver", key)>>

Senders(keys)      == FlattenSeq([k \in DOMAIN keys |-> SenderItems(keys[k])])
EventSenders(keys) == FlattenSeq([k \in DOMAIN keys |-> EventSenderItems(keys[k])])
Receivers(keys)    == FlattenSeq([k \in DOMAIN keys |-> ReceiverItems(keys[k])])

Indices(type, how_many) == [i \in 1..how_many |-> Item("mapping", type, <<"a", i - 1>>)]

Mapped(type) == Item("mapping", type, <<"", 0>>)

MappingItems(c) ==
    IF ~Served(c, "channelmapping") THEN <<>>
    ELSE (IF "a" \in ToSet(RtpOf(c.receivers)) THEN Indices("input", c.how_many) ELSE <<>>)
         \o (IF "a" \in ToSet(RtpOf(c.senders)) THEN Indices("output", c.how_many) ELSE <<>>)
         \o <<Mapped("inputA"), Mapped("outputX"), Item("node", "source", <<"a", c.how_many>>),
              Mapped("inputX"), Mapped("outputB")>>

MonitorItems(ports, type, how_many) ==
    LET keys == Keys(ports, how_many) IN [k \in DOMAIN keys |-> Item("control", type, keys[k])]

ControlItems(c) ==
    IF ~Served(c, "control") THEN <<>>
    ELSE MonitorItems(RtpOf(c.receivers), "receiver", c.how_many)
         \o MonitorItems(RtpOf(c.senders), "sender", c.how_many)
         \o <<Object("sensor"), Object("root")>>

\* node_implementation_init, of a host whose interfaces are found
Script(c) ==
    <<Node, Device>>
    \o Senders(Keys(RtpOf(c.senders), c.how_many))
    \o Receivers(Keys(RtpOf(c.receivers), c.how_many))
    \o (IF Served(c, "events") THEN EventSenders(Keys(WsOf(c.senders), c.how_many)) ELSE <<>>)
    \o Receivers(Keys(WsOf(c.receivers), c.how_many))
    \o Senders(Keys(MxlOf(c.senders), c.how_many))
    \o Receivers(Keys(MxlOf(c.receivers), c.how_many))
    \o MappingItems(c)
    \o ControlItems(c)

\* What a resource refers to, by id
SourceRefs(key)   == {Device} \cup WithParents("source", key)
FlowRefs(key)     == {Device, Item("node", "source", key)} \cup WithParents("flow", key)
SenderRefs(key)   == {Device, Item("node", "flow", key)}

MappingRefs(c, type, key) ==
    CASE type = "input"  -> {Item("node", "receiver", key)}
      [] type = "output" -> {Item("node", "source", key)}
      [] type \in {"outputX", "inputX"} -> {Item("node", "source", <<"a", c.how_many>>)}
      [] OTHER -> {}

References(c, item) ==
    LET store == item[1]
        type  == item[2]
        key   == item[3]
    IN CASE item = Node -> {}
         [] item = Device -> {Node}
         [] store = "node" /\ type = "source" -> SourceRefs(key)
         [] store = "node" /\ type = "flow" -> FlowRefs(key)
         [] store = "node" /\ type = "sender" -> SenderRefs(key)
         [] store = "node" /\ type = "receiver" -> {Device}
         [] store \in {"connection", "events"} -> {Item("node", type, key)}
         [] store = "mapping" -> MappingRefs(c, type, key)
         [] store = "control" -> IF key[1] = "" THEN {} ELSE {Item("node", type, key)}

\* The senders and receivers that the device lists
Listed(c) ==
    Items("sender", RtpOf(c.senders) \o MxlOf(c.senders)
                    \o (IF Served(c, "events") THEN WsOf(c.senders) ELSE <<>>), c.how_many)
    \cup Items("receiver", PortsOf(c.receivers), c.how_many)

\* The controls that make_device gives it
Controls(c) ==
    {service \in {"connection", "events", "channelmapping", "manifest", "control", "configuration"} :
       Served(c, service)}

\* The APIs are mounted whatever their ports; a listener with a negative port is not opened
Listening(c) == {service \in {"node", "connection", "events", "events ws", "channelmapping", "manifest",
                              "control", "configuration", "settings", "logging"} : Served(c, service)}

\* make_channelmapping_input and make_channelmapping_output
Input(c, type) ==
    CASE type = "input"  -> [channels |-> c.channels, reordering |-> TRUE, block |-> 1]
      [] type = "inputA" -> [channels |-> 64, reordering |-> FALSE, block |-> 8]
      [] type = "inputX" -> [channels |-> 8, reordering |-> TRUE, block |-> 2]

Output(c, type) ==
    CASE type = "output"  -> [routable |-> None, map |-> [i \in 1..c.channels |-> None]]
      [] type = "outputX" -> [routable |-> {"inputA"}, map |-> [i \in 1..8 |-> <<"inputA", i - 1>>]]
      [] type = "outputB" -> [routable |-> {"inputX", None}, map |-> [i \in 1..2 |-> None]]

-----------------------------------------------------------------------------
(* The server *)

Init ==
    /\ config \in Config
    /\ life = "made"
    /\ shutdown = FALSE
    /\ example = "none"
    /\ todo = <<>>
    /\ inserted = {}
    /\ sending = <<>>
    /\ monitored = {}
    /\ task = "none"
    /\ measured = <<>>
    /\ simulated = <<>>

\* make_node_server
Refuse ==
    /\ life = "made"
    /\ config.clash /\ Served(config, "control")
    /\ life' = "refused"
    /\ UNCHANGED <<config, shutdown, example, todo, inserted, sending, monitored, task, measured, simulated>>

\* server::open: the threads are started before the listeners are opened
StartThreads ==
    /\ life = "made"
    /\ ~(config.clash /\ Served(config, "control"))
    /\ life' = "started"
    /\ example' = "init"
    /\ todo' = IF config.interfaces THEN Script(config) ELSE <<Node, None>>
    /\ UNCHANGED <<config, shutdown, inserted, sending, monitored, task, measured, simulated>>

OpenListeners ==
    /\ life = "started"
    /\ life' = "open"
    /\ UNCHANGED <<config, shutdown, example, todo, inserted, sending, monitored, task, measured, simulated>>

\* stop_threads, after a listener fails to open or after all are closed
StopThreads ==
    /\ life \in {"started", "closing"}
    /\ life' = "stopping"
    /\ shutdown' = TRUE
    /\ UNCHANGED <<config, example, todo, inserted, sending, monitored, task, measured, simulated>>

\* server::close, upon a signal
CloseListeners ==
    /\ life = "open"
    /\ life' = "closing"
    /\ UNCHANGED <<config, shutdown, example, todo, inserted, sending, monitored, task, measured, simulated>>

Joined ==
    /\ life = "stopping"
    /\ example = "ended"
    /\ life' = "closed"
    /\ UNCHANGED <<config, shutdown, example, todo, inserted, sending, monitored, task, measured, simulated>>

-----------------------------------------------------------------------------
(* node_implementation_thread *)

\* Init throws: what it has inserted stays
Fail ==
    /\ example' = "ended"
    /\ UNCHANGED <<todo, inserted, sending, measured>>

Scheduled(item) ==
    /\ config.activate
    /\ item[1] = "connection" /\ item[2] = "sender"
    /\ item[3][1] \notin ToSet(WsPorts)

Number(n)  == <<"number", n>>
Boolean(b) == <<"boolean", b>>
String(s)  == <<"string", s>>

InitialState(port) ==
    CASE port = "t" -> Number(201) [] port = "b" -> Boolean(FALSE)
      [] port = "s" -> String("foo") [] port = "c" -> Number(1)

Insert(item) ==
    /\ inserted' = inserted \cup {item}
    /\ todo' = Tail(todo)
    /\ sending' = IF Scheduled(item) THEN sending @@ (item[3] :> "scheduled") ELSE sending
    /\ measured' = CASE item[1] = "events" -> measured @@ (item[3] :> InitialState(item[3][1]))
                     [] item = Object("sensor") -> measured @@ (Object("sensor") :> Number(0))
                     [] OTHER -> measured
    /\ UNCHANGED example

\* insert_resource_after, which lets go of the model between two resources;
\* an interface that is not found ends it after the node
InsertResourceAfter ==
    /\ example = "init"
    /\ todo # <<>>
    /\ IF shutdown \/ Head(todo) = None \/ Head(todo) \in inserted THEN Fail ELSE Insert(Head(todo))
    /\ UNCHANGED <<config, life, shutdown, monitored, task, simulated>>

\* node_implementation_run
Run ==
    /\ example = "init"
    /\ todo = <<>>
    /\ example' = "run"
    /\ task' = "waiting"
    /\ UNCHANGED <<config, life, shutdown, todo, inserted, sending, monitored, measured, simulated>>

Elapsed ==
    /\ task = "waiting"
    /\ task' = "due"
    /\ UNCHANGED <<config, life, shutdown, example, todo, inserted, sending, monitored, measured, simulated>>

Temperature(second) == 175 + (IF second > 50 THEN second - 50 ELSE 50 - second)

OfPort(port) == {k \in DOMAIN measured : k[1] = port}

\* What the task makes of the sources and the sensor
Updates(second) ==
    LET temperature == Temperature(second)
    IN {[k \in DOMAIN measured |->
           CASE k = Object("sensor") \/ k[1] = "t" -> Number(temperature)
             [] k[1] = "b" -> Boolean(temperature > 200)
             [] k[1] = "s" -> String(nonsense[k])
             [] k[1] = "c" -> Number(catcall[k])] :
          nonsense \in [OfPort("s") -> {"foo", "bar", "baz", "qux", "quux", "quuux"}],
          catcall \in [OfPort("c") -> {1, 2, 4, 8}]}

\* A status the task gives a monitor: a domain, a status, and what becomes of its
\* synchronization source.  Connections and transmissions are left alone of a
\* monitor that is inactive; the case of streams and essences is never chosen.
ReceiverStatuses(item) ==
    {<<"link", status, "kept">> : status \in 1..3}
    \cup (IF item[3] \in monitored THEN {<<"connection", status, "kept">> : status \in 1..3}
          ELSE {<<"none", 0, "kept">>})
    \cup {<<"sync", 0, "kept">>, <<"sync", 1, "internal">>, <<"sync", 2, None>>, <<"sync", 3, None>>}

SenderStatuses(item) ==
    {<<"link", status, "kept">> : status \in 1..3}
    \cup (IF item[3] \in monitored THEN {<<"transmission", status, "kept">> : status \in 1..3}
          ELSE {<<"none", 0, "kept">>})
    \cup {<<"sync", 0, "kept">>, <<"sync", 1, "internal">>, <<"sync", 2, None>>, <<"sync", 3, None>>}

Simulations ==
    LET monitors == {item \in inserted : item[1] = "control" /\ item[2] \in {"receiver", "sender"}}
        Of(item) == IF item[2] = "sender" THEN SenderStatuses(item) ELSE ReceiverStatuses(item)
    IN IF ~config.simulate THEN {simulated}
       ELSE {f \in [monitors -> UNION {Of(item) : item \in monitors}] :
               \A item \in monitors : f[item] \in Of(item)}

\* The task ends once it has been cancelled
Update ==
    /\ task = "due"
    /\ \E second \in Second : measured' \in Updates(second)
    /\ simulated' \in Simulations
    /\ task' = IF example = "stopping" THEN "done" ELSE "waiting"
    /\ UNCHANGED <<config, life, shutdown, example, todo, inserted, sending, monitored>>

\* The timer is cancelled with its token
Cancel ==
    /\ example = "run"
    /\ shutdown
    /\ example' = "stopping"
    /\ task' = IF task = "waiting" THEN "done" ELSE task
    /\ UNCHANGED <<config, life, shutdown, todo, inserted, sending, monitored, measured, simulated>>

\* It waits for the task without the lock
Wait ==
    /\ example = "stopping"
    /\ task = "done"
    /\ example' = "ended"
    /\ UNCHANGED <<config, life, shutdown, todo, inserted, sending, monitored, task, measured, simulated>>

-----------------------------------------------------------------------------
(* The activation thread *)

\* The transport file of a sender can be made of some media types only
Describable(key) == key[1] # "v" \/ config.video \in {"video/raw", "video/jxsv"}

Due == {key \in DOMAIN sending : sending[key] = "scheduled"}

\* Every scheduled activation is due; the monitor of a sender is activated with
\* it, if it is there.  What fails is not tried again.
Activate ==
    /\ ~shutdown
    /\ Due # {}
    /\ sending' = [key \in DOMAIN sending |->
                     IF key \notin Due THEN sending[key]
                     ELSE IF Describable(key) THEN "active" ELSE "failed"]
    /\ monitored' = monitored \cup {key \in Due : Describable(key) /\ Item("control", "sender", key) \in inserted}
    /\ UNCHANGED <<config, life, shutdown, example, todo, inserted, task, measured, simulated>>

Next ==
    \/ Refuse \/ StartThreads \/ OpenListeners \/ CloseListeners \/ StopThreads \/ Joined
    \/ InsertResourceAfter \/ Run \/ Elapsed \/ Update \/ Cancel \/ Wait
    \/ Activate

Spec == Init /\ [][Next]_vars

-----------------------------------------------------------------------------
(* Properties *)

TypeOK ==
    /\ config \in Config
    /\ life \in {"made", "refused", "started", "open", "closing", "stopping", "closed"}
    /\ shutdown \in BOOLEAN
    /\ example \in {"none", "init", "run", "stopping", "ended"}
    /\ task \in {"none", "waiting", "due", "done"}
    /\ \A key \in DOMAIN sending : sending[key] \in {"scheduled", "active", "failed"}
    /\ monitored \subseteq DOMAIN sending
    /\ \A item \in DOMAIN simulated : item \in inserted

\* Whenever another thread may look at the model, a resource refers only to
\* resources that are there: a node can register them in the order they came
\* in.  The device's lists, and the output to a gizmo whose source is inserted
\* after it, are the exceptions.
ReferencesResolve ==
    \A item \in inserted :
      item # Mapped("outputX") => References(config, item) \subseteq inserted \ {item}

\* Once the node runs, the device lists exactly its senders and receivers
DeviceLists ==
    example \in {"run", "stopping"} =>
      /\ \A item \in inserted : References(config, item) \subseteq inserted
      /\ Listed(config) = {item \in inserted : item[1] = "node" /\ item[2] \in {"sender", "receiver"}}

MatchesType(event_type, pattern) ==
    IF Last(pattern) # "*" THEN event_type = pattern
    ELSE Len(event_type) >= Len(pattern) - 1 /\ IsPrefix(Front(pattern), event_type)

\* A parameter that the flow does not have is not looked at
Meets(flow, caps) ==
    /\ flow.media_type = caps.media_type
    /\ caps.sets = {} \/ \E set \in caps.sets :
         \A parameter \in DOMAIN set \cap DOMAIN flow : flow[parameter] \in set[parameter]

\* With the same settings, a receiver of the example accepts what the sender
\* on the port of the same name sends
ReceiversAccept ==
    /\ \A port \in ToSet(RtpPorts) :
         Meets(WithPacketTime(RtpFlow(config, port)), RtpCaps(config, port))
    /\ \A port \in ToSet(WsPorts) :
         MatchesType(EventFlow(port).event_type, EventCaps(port).event_type)
    /\ \A port \in ToSet(MxlPorts) : Meets(MxlFlow(config, port), MxlCaps(config, port))

\* Once the server is open, each control that the device has is listened for
ControlsServed ==
    life = "open" /\ Device \in inserted => Controls(config) \subseteq Listening(config)

\* A monitor is active only with its sender, and what only an active monitor
\* reports is never simulated for another
MonitorsFollow ==
    /\ \A key \in monitored : sending[key] = "active"
    /\ \A item \in DOMAIN simulated :
         simulated[item][1] \in {"connection", "transmission"} => item[3] \in monitored

\* No sender fails to start but one whose stream cannot be described
SendersStart ==
    \A key \in DOMAIN sending : sending[key] = "failed" => ~Describable(key)

\* When the task has run, the temperatures, the sensor and the burning sources agree
EventsAgree ==
    \A k, l \in DOMAIN measured :
      k[1] = "t" /\ measured[k] # InitialState("t") =>
        /\ l[1] = "b" => measured[l] = Boolean(measured[k][2] > 200)
        /\ l[1] = "t" \/ l = Object("sensor") => measured[l] = measured[k]

\* The map an output starts with is one that a client could ask for
MapsValid ==
    \A item \in inserted : item[1] = "mapping" /\ item[2] \in {"output", "outputX", "outputB"} =>
      LET output == Output(config, item[2])
      IN \A i \in DOMAIN output.map :
           LET entry == output.map[i]
           IN IF entry = None THEN output.routable = None \/ None \in output.routable
              ELSE LET input == Input(config, entry[1])
                   IN /\ Mapped(entry[1]) \in inserted
                      /\ entry[1] \in output.routable
                      /\ entry[2] < input.channels
                      /\ input.reordering \/ entry[2] % input.block = (i - 1) % input.block

\* When the server is closed nothing of the example is left running
NobodyLeft ==
    life = "closed" => example = "ended" /\ task \in {"none", "done"}
================================================================================
