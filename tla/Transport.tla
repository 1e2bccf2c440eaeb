------------------------------- MODULE Transport -------------------------------
(***************************************************************************)
(* The transport parameters of IS-05 senders and receivers: the parameters *)
(* and constraints they are made with (nmos/connection_resources.cpp), how *)
(* a PATCH and its transport file change the staged ones, which of them    *)
(* may be "auto" and what an activation makes of these, and what the       *)
(* routes of the Connection API answer (nmos/connection_api.cpp), with the *)
(* resolver and the transport file of the example node.                    *)
(*                                                                         *)
(* A parameter is a port, a string, a boolean, Auto or Null; ports are     *)
(* small.  One endpoint is looked at: the order of the requests for many   *)
(* is that of Connection.  The resolver of an MQTT endpoint is an          *)
(* application's (external).                                               *)
(***************************************************************************)
EXTENDS Naturals, Sequences, FiniteSets, SequencesExt

CONSTANTS
    Endpoint,       \* endpoints: [transport, type, sets, legs, fixed, hosts, describable]
    Patches,        \* [legs, file, enable, peer, mode]
    Auto, Null,
    Free,           \* a parameter is not limited; a patch does not say
    RtpPort, GroupOf,   \* the default port and, of each leg, the default multicast address
    MaxPatches          \* bound: accepted patches

VARIABLES
    endpoint,       \* what the endpoint was made as
    staged,         \* its staged parameters, and the activation that is pending
    active,         \* its active parameters
    subscription,   \* what the IS-04 sender or receiver says of it
    transportfile,  \* {what the transport file of a sender was made from}, or {}
    reader,         \* a GET of the staged parameters
    accepted,       \* history: what was staged before the last patch, and the patch
    count           \* history: the number of accepted patches

vars == <<endpoint, staged, active, subscription, transportfile, reader, accepted, count>>

Version == 0..2     \* the minor version of the API

\* An object with the fields of another, which take precedence
With(object, fields) ==
    [p \in DOMAIN object \cup DOMAIN fields |->
        IF p \in DOMAIN fields THEN fields[p] ELSE object[p]]

-----------------------------------------------------------------------------
(* Parameters and constraints *)

RtpSender(sets) ==
    With(With(
        [source_ip |-> Auto, destination_ip |-> Auto, source_port |-> Auto,
         destination_port |-> Auto, rtp_enabled |-> TRUE],
        IF "fec" \notin sets THEN <<>> ELSE
        [fec_enabled |-> FALSE, fec_destination_ip |-> Auto, fec_type |-> "XOR", fec_mode |-> "1D",
         fec_block_width |-> 4, fec_block_height |-> 4,
         fec1D_destination_port |-> Auto, fec2D_destination_port |-> Auto,
         fec1D_source_port |-> Auto, fec2D_source_port |-> Auto]),
        IF "rtcp" \notin sets THEN <<>> ELSE
        [rtcp_enabled |-> FALSE, rtcp_destination_ip |-> Auto,
         rtcp_destination_port |-> Auto, rtcp_source_port |-> Auto])

RtpReceiver(sets) ==
    With(With(With(
        [source_ip |-> Null, interface_ip |-> Auto, destination_port |-> Auto, rtp_enabled |-> TRUE],
        IF "multicast" \notin sets THEN <<>> ELSE [multicast_ip |-> Null]),
        IF "fec" \notin sets THEN <<>> ELSE
        [fec_enabled |-> FALSE, fec_destination_ip |-> Auto, fec_mode |-> Auto,
         fec1D_destination_port |-> Auto, fec2D_destination_port |-> Auto]),
        IF "rtcp" \notin sets THEN <<>> ELSE
        [rtcp_enabled |-> FALSE, rtcp_destination_ip |-> Auto, rtcp_destination_port |-> Auto])

\* boolean_or_auto and the like: the value the application fixes, or another
Fixed(e, parameter, other) ==
    IF parameter \in DOMAIN e.fixed THEN e.fixed[parameter] ELSE other

WebSocketParams(e) ==
    With([connection_uri |-> Fixed(e, "connection_uri", Null),
          connection_authorization |-> Fixed(e, "connection_authorization", Auto)],
         IF "events" \notin e.sets THEN <<>> ELSE
         [ext_is_07_source_id |-> Fixed(e, "ext_is_07_source_id", Null),
          ext_is_07_rest_api_url |-> Fixed(e, "ext_is_07_rest_api_url", Null)])

MqttParams(e) ==
    With(With(
        IF e.type = "sender"
        THEN [destination_host |-> Auto, destination_port |-> Auto]
        ELSE [source_host |-> Auto, source_port |-> Auto],
        [broker_protocol |-> Fixed(e, "broker_protocol", Auto),
         broker_authorization |-> Fixed(e, "broker_authorization", Auto),
         broker_topic |-> Fixed(e, "broker_topic", Null),
         connection_status_broker_topic |-> Fixed(e, "connection_status_broker_topic", Null)]),
        IF "events" \notin e.sets THEN <<>> ELSE
        [ext_is_07_rest_api_url |-> Fixed(e, "ext_is_07_rest_api_url", Null)])

MxlParams(e) == [mxl_domain_id |-> Auto, mxl_flow_id |-> IF e.type = "sender" THEN Auto ELSE Null]

\* The parameters a leg is made with
Made(e) ==
    CASE e.transport = "rtp" /\ e.type = "sender"   -> RtpSender(e.sets)
      [] e.transport = "rtp" /\ e.type = "receiver" -> RtpReceiver(e.sets)
      [] e.transport = "websocket"                  -> WebSocketParams(e)
      [] e.transport = "mqtt"                       -> MqttParams(e)
      [] e.transport = "mxl"                        -> MxlParams(e)

\* The parameter that names the interface of an RTP leg
HostParameter(e) == IF e.type = "sender" THEN "source_ip" ELSE "interface_ip"

\* Its constraints: the values a parameter is limited to, or Free.  What is fixed is
\* the only value there is, and the example limits the interface of each RTP leg.
Constraints(e, leg) ==
    [p \in DOMAIN Made(e) |->
        IF p \in DOMAIN e.fixed THEN <<e.fixed[p]>>
        ELSE IF e.transport = "rtp" /\ p = HostParameter(e) THEN e.hosts[leg]
        ELSE Free]

\* The parameters that may be "auto" when they are staged
AutoParameters(transport, type) ==
    CASE transport = "rtp" /\ type = "sender" ->
           {"source_ip", "destination_ip", "source_port", "destination_port", "fec_destination_ip",
            "fec1D_destination_port", "fec2D_destination_port", "fec1D_source_port",
            "fec2D_source_port", "rtcp_destination_ip", "rtcp_destination_port", "rtcp_source_port"}
      [] transport = "rtp" /\ type = "receiver" ->
           {"interface_ip", "destination_port", "fec_destination_ip", "fec_mode",
            "fec1D_destination_port", "fec2D_destination_port", "rtcp_destination_ip",
            "rtcp_destination_port"}
      [] transport = "websocket" /\ type = "sender" -> {"connection_uri", "connection_authorization"}
      [] transport = "websocket" /\ type = "receiver" -> {"connection_authorization"}
      [] transport = "mqtt" /\ type = "sender" ->
           {"destination_host", "destination_port", "broker_protocol", "broker_authorization"}
      [] transport = "mqtt" /\ type = "receiver" ->
           {"source_host", "source_port", "broker_protocol", "broker_authorization"}
      [] transport = "mxl" /\ type = "sender" -> {"mxl_domain_id", "mxl_flow_id"}
      [] transport = "mxl" /\ type = "receiver" -> {"mxl_domain_id"}

\* and those that may be null though they are limited
NullParameters(transport) == IF transport = "mxl" THEN {"mxl_domain_id", "mxl_flow_id"} ELSE {}

\* May a parameter with this limit have this value?
Allows(limit, value) == IF limit = Free THEN TRUE ELSE value \in ToSet(limit)

\* What is wrong with a leg
Wrong(e, leg, limits) ==
    {p \in DOMAIN leg :
       ~ (\/ Allows(limits[p], leg[p])
          \/ leg[p] = Auto /\ p \in AutoParameters(e.transport, e.type)
          \/ leg[p] = Null /\ p \in NullParameters(e.transport))}

\* validate_staged_constraints
Valid(e, legs) == \A leg \in DOMAIN legs : Wrong(e, legs[leg], Constraints(e, leg)) = {}

-----------------------------------------------------------------------------
(* What endpoints and patches there are *)

IsSequence(s) == s \in Seq(ToSet(s))

\* "auto" is told from all other values.
ValuesDistinct ==
    /\ Auto \notin Nat \cup BOOLEAN \cup {Null, "XOR", "1D", "chosen"}
    /\ RtpPort \in Nat /\ Null # "immediate" /\ Null # "scheduled"

\* The example gives each leg of an RTP endpoint its interfaces, and has a group for each.
\* It fixes the parameters of a WebSocket and an MXL endpoint that its resolver takes from
\* what is fixed, needs no authorization, and fixes nothing to "auto".
EndpointsMade ==
    \A e \in Endpoint :
       /\ e.transport \in {"rtp", "websocket", "mqtt", "mxl"} /\ e.type \in {"sender", "receiver"}
       /\ e.legs \in Nat /\ e.describable \in BOOLEAN
       /\ e.transport = "rtp" =>
            /\ e.fixed = <<>>
            /\ \A leg \in 1..e.legs :
                 /\ IsSequence(e.hosts[leg]) /\ e.hosts[leg] # <<>>
                 /\ Auto \notin ToSet(e.hosts[leg]) /\ GroupOf[leg] # Auto
       /\ \A p \in DOMAIN e.fixed : e.fixed[p] # Auto
       /\ "connection_authorization" \in DOMAIN e.fixed => e.fixed["connection_authorization"] = FALSE
       /\ e.transport = "websocket" /\ e.type = "sender" => "connection_uri" \in DOMAIN e.fixed
       /\ e.transport = "mxl" => "mxl_domain_id" \in DOMAIN e.fixed
       /\ e.transport = "mxl" /\ e.type = "sender" => "mxl_flow_id" \in DOMAIN e.fixed

\* The parameters of a session description: only the interface of a multicast stream is
\* left to the receiver.
FilesParsed ==
    \A patch \in Patches :
       /\ IsSequence(patch.legs) /\ IsSequence(patch.file)
       /\ \A leg \in DOMAIN patch.file : \A p \in DOMAIN patch.file[leg] :
            /\ patch.file[leg][p] = Auto => p = "interface_ip"
            /\ p \in {"source_port", "destination_port"} => patch.file[leg][p] \in Nat

-----------------------------------------------------------------------------
(* PATCH *)

\* merge_patch: may the legs of a patch be merged into these?
Mergeable(legs, patch) ==
    /\ Len(legs) = Len(patch)
    /\ \A leg \in DOMAIN patch : DOMAIN patch[leg] \subseteq DOMAIN legs[leg]

Merge(legs, patch) == [leg \in DOMAIN legs |-> With(legs[leg], patch[leg])]

\* parse_rtp_transport_file: the first of two legs is enough for a receiver with one;
\* a receiver with two does not use the second for a stream with one
FileLegs(e, sdp) ==
    IF e.legs = 1 /\ Len(sdp) = 2 THEN Front(sdp)
    ELSE IF e.legs = 2 /\ Len(sdp) = 1 THEN Append(sdp, [rtp_enabled |-> FALSE])
    ELSE sdp

\* validate_staged_core: the schemas of the API say what may be "auto", and what a port is.
Conforms(patch) ==
    \A leg \in DOMAIN patch.legs : \A p \in DOMAIN patch.legs[leg] :
       LET value == patch.legs[leg][p]
       IN /\ value = Auto => p \in AutoParameters(endpoint.transport, endpoint.type)
          /\ p \in {"source_port", "destination_port"} => value \in Nat \cup {Auto}

\* Only receivers have a transport file, and those of MXL refuse one.
Parsed(patch) ==
    \/ patch.file = <<>>
    \/ /\ endpoint.type = "receiver" /\ endpoint.transport = "rtp"
       /\ Mergeable(staged.legs, FileLegs(endpoint, patch.file))

WithFile(patch) ==
    IF patch.file = <<>> THEN staged.legs
    ELSE Merge(staged.legs, FileLegs(endpoint, patch.file))

\* Mistaken: the transport file takes precedence.
FilePreferred(patch) ==
    LET legs == IF patch.legs = <<>> THEN staged.legs ELSE Merge(staged.legs, patch.legs) IN
    IF patch.file = <<>> THEN legs ELSE Merge(legs, FileLegs(endpoint, patch.file))

\* The legs of the patch take precedence over its transport file.
Patched(patch) ==
    IF patch.legs = <<>> THEN WithFile(patch) ELSE Merge(WithFile(patch), patch.legs)

Permitted(version) ==
    LET since == CASE endpoint.transport = "rtp"  -> 0
                   [] endpoint.transport \in {"websocket", "mqtt"} -> 1
                   [] endpoint.transport = "mxl" -> 2
        own   == IF endpoint.transport = "mxl" THEN 2 ELSE 1
    IN own <= version \/ since <= version

\* The patch is accepted.  A scheduled activation is only canceled; an immediate one
\* has other patches wait (Connection).
Stage(patch, version) ==
    /\ Conforms(patch)
    /\ Permitted(version)
    /\ \/ staged.mode = Null
       \/ staged.mode = "scheduled" /\ patch.mode = "cancel"
    /\ Parsed(patch)
    /\ patch.legs # <<>> => Mergeable(staged.legs, patch.legs)
    /\ Valid(endpoint, Patched(patch))
    /\ staged' = [legs   |-> Patched(patch),
                  enable |-> IF patch.enable = Free THEN staged.enable ELSE patch.enable,
                  peer   |-> IF patch.peer = Free THEN staged.peer ELSE patch.peer,
                  mode   |-> IF patch.mode \in {"immediate", "scheduled"} THEN patch.mode ELSE Null,
                  done   |-> FALSE]
    /\ accepted' = [before |-> staged.legs, patch |-> patch]
    /\ count < MaxPatches /\ count' = count + 1
    /\ UNCHANGED <<endpoint, active, subscription, transportfile, reader>>

-----------------------------------------------------------------------------
(* Activation *)

\* resolve_auto
Resolve(params, parameter, value) ==
    IF parameter \in DOMAIN params /\ params[parameter] = Auto
    THEN [params EXCEPT ![parameter] = value] ELSE params

\* Parameters that are by default another one, and ports next to another
CopyOf(params, type) ==
    LET ip == IF type = "sender" THEN "destination_ip"
              ELSE IF "multicast_ip" \in DOMAIN params /\ params["multicast_ip"] # Null
              THEN "multicast_ip" ELSE "interface_ip"
    IN [fec_destination_ip |-> ip, rtcp_destination_ip |-> ip]

NextTo ==
    [fec1D_destination_port |-> <<"destination_port", 2>>,
     fec2D_destination_port |-> <<"destination_port", 4>>,
     fec1D_source_port      |-> <<"source_port", 2>>,
     fec2D_source_port      |-> <<"source_port", 4>>,
     rtcp_destination_port  |-> <<"destination_port", 1>>,
     rtcp_source_port       |-> <<"source_port", 1>>]

\* resolve_rtp_auto
RtpDefaults(params, type) ==
    LET origin == IF type = "sender" THEN Resolve(params, "source_port", RtpPort) ELSE params
        ports  == Resolve(origin, "destination_port", RtpPort)
    IN [p \in DOMAIN ports |->
          IF ports[p] # Auto THEN ports[p]
          ELSE IF p \in DOMAIN CopyOf(ports, type) THEN ports[CopyOf(ports, type)[p]]
          ELSE IF p \in DOMAIN NextTo THEN ports[NextTo[p][1]] + NextTo[p][2]
          ELSE Auto]

\* The interface of a leg: the first address of the first leg's, the last of the other's
Host(e, leg) == IF leg = 1 THEN Head(e.hosts[leg]) ELSE Last(e.hosts[leg])

\* The resolver of the example, and of an MQTT application.  It is called with a copy.
Resolved(e, leg, params) ==
    CASE e.transport = "rtp" /\ e.type = "sender" ->
           RtpDefaults(Resolve(Resolve(params, "source_ip", Host(e, leg)),
                               "destination_ip", GroupOf[leg]), e.type)
      [] e.transport = "rtp" /\ e.type = "receiver" ->
           RtpDefaults(Resolve(params, "interface_ip", Host(e, leg)), e.type)
      [] e.transport = "websocket" /\ e.type = "sender" ->
           Resolve(Resolve(params, "connection_uri", e.fixed["connection_uri"]),
                   "connection_authorization", FALSE)
      [] e.transport = "websocket" /\ e.type = "receiver" ->
           Resolve(params, "connection_authorization", FALSE)
      [] e.transport = "mqtt" ->
           [p \in DOMAIN params |-> IF params[p] = Auto THEN Fixed(e, p, "chosen") ELSE params[p]]
      [] e.transport = "mxl" ->
           LET domain == Resolve(params, "mxl_domain_id", e.fixed["mxl_domain_id"]) IN
           IF e.type = "sender" THEN Resolve(domain, "mxl_flow_id", e.fixed["mxl_flow_id"])
           ELSE domain

Pending == staged.mode # Null /\ ~staged.done

\* A scheduled activation is over with this; an immediate one when its handler has seen it.
Over(done) ==
    IF done /\ staged.mode = "immediate" THEN [staged EXCEPT !.done = TRUE]
    ELSE [staged EXCEPT !.mode = Null]

Activating ==
    [legs   |-> [leg \in DOMAIN staged.legs |-> Resolved(endpoint, leg, staged.legs[leg])],
     enable |-> staged.enable,
     peer   |-> staged.peer]

\* Only senders of RTP have a transport file.
Described == endpoint.type = "sender" /\ endpoint.transport = "rtp"

\* set_resource_subscription: nobody is connected to what is not active.
Subscription(settings) ==
    [active |-> settings.enable, peer |-> IF settings.enable THEN settings.peer ELSE Null]

Activate ==
    /\ Pending
    /\ Described => endpoint.describable
    /\ active' = Activating
    /\ transportfile' = IF Described THEN {active'.legs} ELSE transportfile
    /\ subscription' = Subscription(active')
    /\ staged' = Over(TRUE)
    /\ UNCHANGED <<endpoint, reader, accepted, count>>

\* The resolver throws an exception: what is active is left as it is.
Unresolved ==
    /\ Pending
    /\ staged' = Over(FALSE)
    /\ UNCHANGED <<endpoint, active, subscription, transportfile, reader, accepted, count>>

\* The example has no transport file for the flow: the exception comes after the
\* parameters were made active, and these stay.
Indescribable ==
    /\ Pending
    /\ Described /\ ~endpoint.describable
    /\ active' = Activating
    /\ staged' = Over(FALSE)
    /\ UNCHANGED <<endpoint, subscription, transportfile, reader, accepted, count>>

\* handle_immediate_activation_pending
Finish ==
    /\ staged.done
    /\ staged' = [staged EXCEPT !.mode = Null, !.done = FALSE]
    /\ UNCHANGED <<endpoint, active, subscription, transportfile, reader, accepted, count>>

-----------------------------------------------------------------------------
(* GET *)

\* The routes of the resource
Routes(version) ==
    {"constraints", "staged", "active"} \cup
    (IF endpoint.type = "sender" THEN {"transportfile"} ELSE {}) \cup
    (IF version >= 1 THEN {"transporttype"} ELSE {})

\* What one of them answers; that of a receiver's transport file there is none.
Status(route, version) ==
    CASE route = "transporttype" /\ version < 1 -> 404
      [] route = "transportfile" /\ endpoint.type = "receiver" -> 404
      [] ~Permitted(version) -> 409
      [] route = "transportfile" /\ transportfile = {} -> 404
      [] OTHER -> 200

Listed(version) == Permitted(version)

\* An activation is in progress: the staged parameters are given when it is over.
GetWaits ==
    /\ reader = "none"
    /\ staged.mode = "immediate"
    /\ reader' = "waits"
    /\ UNCHANGED <<endpoint, staged, active, subscription, transportfile, accepted, count>>

GetStaged ==
    /\ reader \in {"none", "waits"}
    /\ staged.mode # "immediate"
    /\ reader' = staged.mode
    /\ UNCHANGED <<endpoint, staged, active, subscription, transportfile, accepted, count>>

\* immediate_activation_max has passed: 500 Internal Error.
GetTimeout ==
    /\ reader = "waits"
    /\ reader' = "none"
    /\ UNCHANGED <<endpoint, staged, active, subscription, transportfile, accepted, count>>

GetDone ==
    /\ reader \notin {"none", "waits"}
    /\ reader' = "none"
    /\ UNCHANGED <<endpoint, staged, active, subscription, transportfile, accepted, count>>

\* make_connection_rtp_sender and the like.  What is active is resolved by the example
\* before it inserts the endpoint, unless it is an RTP sender, which has an activation
\* scheduled if it is to be activated.
Init ==
    \E e \in Endpoint, scheduled \in BOOLEAN :
      LET legs == [leg \in 1..e.legs |-> Made(e)]
          fresh == e.transport = "rtp" /\ e.type = "sender"
      IN
      /\ scheduled => e.type = "sender" /\ e.transport \in {"rtp", "mxl"}
      /\ endpoint = e
      /\ staged = [legs |-> legs, enable |-> scheduled, peer |-> Null,
                   mode |-> IF scheduled THEN "scheduled" ELSE Null, done |-> FALSE]
      /\ active = [legs   |-> IF fresh THEN legs
                              ELSE [leg \in DOMAIN legs |-> Resolved(e, leg, legs[leg])],
                   enable |-> FALSE, peer |-> Null]
      /\ subscription = [active |-> FALSE, peer |-> Null]
      /\ transportfile = {}
      /\ reader = "none"
      /\ accepted = Null
      /\ count = 0

Next ==
    \/ \E patch \in Patches, version \in Version : Stage(patch, version)
    \/ Activate \/ Unresolved \/ Indescribable \/ Finish
    \/ GetWaits \/ GetStaged \/ GetTimeout \/ GetDone

Spec == Init /\ [][Next]_vars

-----------------------------------------------------------------------------
(* Properties *)

\* The types of the variables.
TypeOK ==
    /\ endpoint \in Endpoint
    /\ Len(staged.legs) = endpoint.legs /\ Len(active.legs) = endpoint.legs
    /\ staged.mode \in {Null, "immediate", "scheduled"} /\ staged.done \in BOOLEAN
    /\ reader \in {"none", "waits", Null, "immediate", "scheduled"}

\* What is staged and what is active has the parameters that the endpoint was made with,
\* in each leg: no patch and no transport file adds or removes any.
LegsKept ==
    \A leg \in 1..endpoint.legs :
       /\ DOMAIN staged.legs[leg] = DOMAIN Made(endpoint)
       /\ DOMAIN active.legs[leg] = DOMAIN Made(endpoint)

\* What is active is within the constraints of its leg, and nothing of it is "auto" (which
\* activations resolve, and the example before) but a receiver's FEC mode, whose meaning
\* the API leaves to the device, and the parameters of an RTP sender not yet activated.
ActiveResolved ==
    \A leg \in 1..endpoint.legs : \A p \in DOMAIN active.legs[leg] :
       LET value == active.legs[leg][p]
       IN \/ value # Auto /\ Allows(Constraints(endpoint, leg)[p], value)
          \/ value = Null /\ p \in NullParameters(endpoint.transport)
          \/ endpoint.type = "receiver" /\ p = "fec_mode"
          \/ Described /\ active.legs[leg] = Made(endpoint)

\* The last patch holds: what it says of a parameter is staged; what only its transport
\* file says of a leg that it has is staged too; a leg that its transport file has not is
\* disabled, unless the patch says otherwise; and the rest is as it was.
PatchHolds ==
    accepted # Null =>
       \A leg \in 1..endpoint.legs : \A p \in DOMAIN staged.legs[leg] :
          LET patch == accepted.patch
              said  == patch.legs # <<>> /\ p \in DOMAIN patch.legs[leg]
              filed == leg <= Len(patch.file) /\ p \in DOMAIN patch.file[leg]
              lacks == patch.file # <<>> /\ leg > Len(patch.file)
          IN staged.legs[leg][p] =
                IF said THEN patch.legs[leg][p]
                ELSE IF filed THEN patch.file[leg][p]
                ELSE IF lacks /\ p = "rtp_enabled" THEN FALSE
                ELSE accepted.before[leg][p]

\* Everything that tells whether and to whom the endpoint is connected agrees: its
\* IS-04 resource with what is active, and with the sender's transport file, unless the
\* flow of an RTP sender is one the example has no transport file for.
ActiveAgrees ==
    endpoint.describable =>
       /\ subscription = Subscription(active)
       /\ transportfile \subseteq {active.legs}
       /\ Described /\ subscription.active => transportfile # {}

\* A GET never shows an activation in progress.
InFlightHidden == reader # "immediate"

\* A version of the API lists the endpoint if and only if its routes answer, and the
\* endpoint lists the routes there are.
RoutesAnswer ==
    \A version \in Version :
       /\ \A older \in 0..version : Listed(older) => Listed(version)
       /\ \A route \in {"constraints", "staged", "active", "transportfile", "transporttype"} :
             IF Listed(version) /\ route \in Routes(version)
             THEN Status(route, version) = 200 \/ (route = "transportfile" /\ transportfile = {})
             ELSE Status(route, version) # 200

=============================================================================
