--------------------------- MODULE OcspBehaviour ---------------------------
(***************************************************************************)
(* The thread that asks OCSP servers for the status of the certificates of *)
(* this server (nmos/ocsp_behaviour.cpp), and the response that is kept    *)
(* for TLS handshakes (nmos/ocsp_state.h, ocsp_response_handler.cpp).      *)
(*                                                                         *)
(* As with the System API the first server is used until it fails, but     *)
(* the state of the requests is the thread's, and the servers and the      *)
(* request itself come from the certificates, which are loaded again when  *)
(* all servers have failed.                                                *)
(*                                                                         *)
(* Abstracted: the certificates are the number of their renewals; back-off *)
(* times, the length of the interval and shutdown are left out.            *)
(***************************************************************************)
EXTENDS Integers, Sequences

CONSTANTS
    Server,         \* OCSP servers
    None,
    MaxServices,    \* bound: servers on a list
    MaxRenewals     \* bound: how often the certificates are renewed

VARIABLES
    mode,       \* the thread's mode: "initial" or "behaviour"
    at,         \* where it is in ocsp_behaviour: "out" of it, "waits", or "joins" the tasks
    services,   \* ocsp_uris
    client,     \* state.client
    base,       \* state.base_uri
    failed,     \* state.ocsp_service_error
    fetch,      \* the tasks: "none", "waits" for the interval, or "requests"
    files,      \* the certificates that load_server_certificates would load
    certs,      \* the certificates that state.ocsp_request is about, or 0
    cached,     \* ocsp_state.ocsp_response: from whom, and about which certificates
    blamed      \* history: the servers that have failed since the list was made

ocspVars == <<mode, at, services, client, base, failed, fetch, files, certs, cached, blamed>>

Distinct(s) == \A i, j \in DOMAIN s : i # j => s[i] # s[j]

\* What get_ocsp_uris makes of the certificates: only new uris are added.
Lists == {s \in UNION {[1..n -> Server] : n \in 1..MaxServices} : Distinct(s)}

Init ==
    /\ mode = "initial" /\ at = "out"
    /\ services = <<>>
    /\ client = None /\ base = None
    /\ failed = FALSE /\ fetch = "none"
    /\ files = 1 /\ certs = 0
    /\ cached = [server |-> None, certs |-> 0]
    /\ blamed = {}

-----------------------------------------------------------------------------
(* The thread *)

\* The certificates are loaded and name their servers.  When no request can be made
\* of them, the mode has been changed already, and the request is what it was.  When they
\* name none, nothing changes.
Load ==
    /\ mode = "initial"
    /\ services' \in Lists
    /\ mode' = "behaviour"
    /\ certs' \in {certs, files}
    /\ blamed' = {}
    /\ UNCHANGED <<at, client, base, failed, fetch, files, cached>>

\* The first step of the tasks: a server that is asked for the first time is asked at once,
\* and known from then on.
Ask(uri, s) ==
    /\ client' = s
    /\ base' = s
    /\ fetch' = IF uri = s THEN "waits" ELSE "requests"

\* ocsp_behaviour begins with no server known, which is why its first wait ends at once.
Start ==
    /\ mode = "behaviour" /\ at = "out"
    /\ Ask(None, Head(services))
    /\ at' = "waits"
    /\ UNCHANGED <<mode, services, failed, files, certs, cached, blamed>>

\* The server in use has failed.
GiveUp ==
    /\ at = "waits" /\ failed
    /\ services' = Tail(services)
    /\ failed' = FALSE
    /\ at' = "joins"
    /\ UNCHANGED <<mode, client, base, fetch, files, certs, cached, blamed>>

SelectNext ==
    /\ at = "joins" /\ fetch = "none"
    /\ services # <<>>
    /\ Ask(base, Head(services))
    /\ at' = "waits"
    /\ UNCHANGED <<mode, services, failed, files, certs, cached, blamed>>

Leave ==
    /\ at = "joins" /\ fetch = "none"
    /\ services = <<>>
    /\ client' = None
    /\ at' = "out"
    /\ mode' = "initial"
    /\ UNCHANGED <<services, base, failed, fetch, files, certs, cached, blamed>>

-----------------------------------------------------------------------------
(* The tasks: do_certificate_status_requests *)

IntervalOver ==
    /\ fetch = "waits"
    /\ fetch' = "requests"
    /\ UNCHANGED <<mode, at, services, client, base, failed, files, certs, cached, blamed>>

\* The response is cached, and the tasks go on.
Received ==
    /\ fetch = "requests"
    /\ cached' = [server |-> client, certs |-> certs]
    /\ Ask(base, client)
    /\ UNCHANGED <<mode, at, services, failed, files, certs, blamed>>

Fails ==
    /\ fetch = "requests"
    /\ failed' = TRUE
    /\ fetch' = "none"
    /\ blamed' = blamed \cup {client}
    /\ UNCHANGED <<mode, at, services, client, base, files, certs, cached>>

\* The certificates are renewed.
Renew ==
    /\ files < 1 + MaxRenewals
    /\ files' = files + 1
    /\ UNCHANGED <<mode, at, services, client, base, failed, fetch, certs, cached, blamed>>

Next ==
    \/ Load \/ Start \/ GiveUp \/ SelectNext \/ Leave
    \/ IntervalOver \/ Received \/ Fails \/ Renew

Spec == Init /\ [][Next]_ocspVars

-----------------------------------------------------------------------------
(* Properties *)

TypeOK ==
    /\ mode \in {"initial", "behaviour"}
    /\ at \in {"out", "waits", "joins"}
    /\ services \in Lists \cup {<<>>}
    /\ client \in Server \cup {None} /\ base \in Server \cup {None}
    /\ failed \in BOOLEAN
    /\ fetch \in {"none", "waits", "requests"}
    /\ files \in 1..(1 + MaxRenewals)
    /\ certs \in 0..files
    /\ cached \in [server : Server \cup {None}, certs : 0..files]
    /\ blamed \subseteq Server

\* "select the next available OCSP server": the server in use is the first of the
\* list, and those that are left on it have not failed since it was made.
SelectedFirst ==
    at = "waits" =>
        /\ services # <<>> /\ client = Head(services)
        /\ \A i \in DOMAIN services : services[i] \in blamed => failed /\ i = 1

\* Nobody waits for an interval before the server in use has answered the request as it
\* is now: what is cached then is the answer.
CachedIsCurrent == fetch = "waits" => cached = [server |-> client, certs |-> certs]

\* What the behaviour sends is a request that has been made.  It does not hold: the
\* mode is set before the request is made.
SendsARequest == fetch = "requests" => certs # 0

=============================================================================
