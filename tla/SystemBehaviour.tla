-------------------------- MODULE SystemBehaviour --------------------------
(***************************************************************************)
(* The client of a System API (IS-09): the thread that discovers services, *)
(* uses the first of them until it fails, and then the next                *)
(* (nmos/node_system_behaviour.cpp), with the chain of tasks that asks for *)
(* the global configuration again and again.                               *)
(*                                                                         *)
(* The thread and the last of the tasks hold the model's mutex; what they  *)
(* do between two waits, or two requests, is one action.                   *)
(*                                                                         *)
(* Left out: back-off times, shutdown, and exceptions other than those of  *)
(* the request and of the validation of its body.                          *)
(***************************************************************************)
EXTENDS Integers, Sequences

CONSTANTS
    Service,    \* System APIs, by their base uris
    Data,       \* configurations
    Valid,      \* those that the schema accepts
    None,       \* an empty uri, no configuration
    MaxServices \* bound: services on a list

VARIABLES
    mode,       \* the thread's mode
    at,         \* where it is in node_system_behaviour: "out" of it, "waits" for a
                \*   failure, or "joins" the tasks
    services,   \* settings.system_services
    client,     \* state.client
    known,      \* state.base_uri and state.data
    failed,     \* state.system_service_error
    fetch,      \* the tasks: "none", "waits" for the interval, or "requests"
    told,       \* what the handler was called with last
    answer,     \* history: the last valid answer, and from whom
    blamed      \* history: the services that have failed since the list was made

systemVars == <<mode, at, services, client, known, failed, fetch, told, answer, blamed>>

Nothing == [uri |-> None, data |-> None]

Distinct(s) == \A i, j \in DOMAIN s : i # j => s[i] # s[j]

\* What resolve_service finds, or the service of the settings
Lists == {s \in UNION {[1..n -> Service] : n \in 1..MaxServices} : Distinct(s)}

Init ==
    /\ mode = "initial" /\ at = "out"
    /\ services = <<>>
    /\ client = None /\ known = Nothing
    /\ failed = FALSE /\ fetch = "none"
    /\ told = Nothing /\ answer = Nothing
    /\ blamed = {}

-----------------------------------------------------------------------------
(* The thread *)

\* discover_system_services, at first and after all services have failed
Discover ==
    /\ mode \in {"initial", "rediscovery"} /\ at = "out"
    /\ \E list \in Lists \cup {<<>>} :
        /\ services' = list
        /\ mode' = IF list = <<>> THEN "background" ELSE "behaviour"
    /\ blamed' = {}
    /\ UNCHANGED <<at, client, known, failed, fetch, told, answer>>

\* system_services_background_discovery
BackgroundDiscovery ==
    /\ mode = "background"
    /\ \E list \in Lists : services' = list
    /\ mode' = "behaviour"
    /\ UNCHANGED <<at, client, known, failed, fetch, told, answer, blamed>>

\* The first step of the tasks: there is nothing to wait for before a service is
\* asked for the first time.
FirstStep(uri, s) == IF uri = s THEN "waits" ELSE "requests"

\* node_system_behaviour begins, with a state of its own.
Start ==
    /\ mode = "behaviour" /\ at = "out"
    /\ known' = Nothing
    /\ failed' = FALSE
    /\ client' = Head(services)
    /\ fetch' = FirstStep(None, Head(services))
    /\ at' = "waits"
    /\ UNCHANGED <<mode, services, told, answer, blamed>>

\* The service in use has failed: it is taken from the list, and the lock is given
\* up to wait for the tasks.
GiveUp ==
    /\ at = "waits" /\ failed
    /\ services' = Tail(services)
    /\ failed' = FALSE
    /\ at' = "joins"
    /\ UNCHANGED <<mode, client, known, fetch, told, answer, blamed>>

\* The next service is selected.
SelectNext ==
    /\ at = "joins" /\ fetch = "none"
    /\ services # <<>>
    /\ client' = Head(services)
    /\ fetch' = FirstStep(known.uri, Head(services))
    /\ at' = "waits"
    /\ UNCHANGED <<mode, services, known, failed, told, answer, blamed>>

\* There is none left.  The user is told, and services are discovered again.
Leave ==
    /\ at = "joins" /\ fetch = "none"
    /\ services = <<>>
    /\ client' = None
    /\ told' = Nothing
    /\ at' = "out"
    /\ mode' = "rediscovery"
    /\ UNCHANGED <<services, known, failed, fetch, answer, blamed>>

-----------------------------------------------------------------------------
(* The tasks: do_system_global_requests *)

\* changes in the system global configuration resource?
Changed(d) == known.uri # client \/ known.data # d

IntervalOver ==
    /\ fetch = "waits"
    /\ fetch' = "requests"
    /\ UNCHANGED <<mode, at, services, client, known, failed, told, answer, blamed>>

\* A configuration that is valid, or that was known
Received(d) ==
    /\ fetch = "requests"
    /\ d \in Valid \/ ~Changed(d)
    /\ known' = IF Changed(d) THEN [uri |-> client, data |-> d] ELSE known
    /\ told' = IF Changed(d) THEN [uri |-> client, data |-> d] ELSE told
    /\ answer' = [uri |-> client, data |-> d]
    /\ fetch' = FirstStep(known'.uri, client)
    /\ UNCHANGED <<mode, at, services, client, failed, blamed>>

\* The request fails, or its answer is not valid, which is found when it is known already.
Fails ==
    /\ fetch = "requests"
    /\ \/ known' = known
       \/ \E d \in Data \ Valid : Changed(d) /\ known' = [uri |-> client, data |-> d]
    /\ failed' = TRUE
    /\ fetch' = "none"
    /\ blamed' = blamed \cup {client}
    /\ UNCHANGED <<mode, at, services, client, told, answer>>

Next ==
    \/ Discover \/ BackgroundDiscovery \/ Start \/ GiveUp \/ SelectNext \/ Leave
    \/ IntervalOver \/ (\E d \in Data : Received(d)) \/ Fails

Spec == Init /\ [][Next]_systemVars

-----------------------------------------------------------------------------
(* Properties *)

Known == [uri : Service \cup {None}, data : Data \cup {None}]

TypeOK ==
    /\ mode \in {"initial", "background", "behaviour", "rediscovery"}
    /\ at \in {"out", "waits", "joins"}
    /\ services \in Lists \cup {<<>>}
    /\ client \in Service \cup {None}
    /\ known \in Known /\ told \in Known /\ answer \in Known
    /\ failed \in BOOLEAN
    /\ fetch \in {"none", "waits", "requests"}
    /\ blamed \subseteq Service

\* "another System API should be selected from the discovered list": the service in
\* use is the first of the list, and those that are left on it have not failed.
SelectedFirst ==
    at = "waits" =>
        /\ services # <<>> /\ client = Head(services)
        /\ \A i \in DOMAIN services : services[i] \in blamed => failed /\ i = 1

\* The user has been told what the service in use answered last, and which service that
\* is; and told that there is none when there is none in use.
ToldIsCurrent ==
    /\ fetch = "waits" => told = answer /\ answer.uri = client
    /\ at = "out" => told = Nothing

=============================================================================
