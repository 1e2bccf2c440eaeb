--------------------------- MODULE Authorization ---------------------------
(***************************************************************************)
(* The client of an IS-10 authorization server: the behaviour thread       *)
(* (nmos/authorization_behaviour.cpp), the requests it makes (nmos/        *)
(* authorization_operation.cpp) and the callback to which the browser is   *)
(* redirected in the authorization code flow (nmos/authorization_redirect_ *)
(* api.cpp).                                                               *)
(*                                                                         *)
(* The thread waits for each request, so that one action sends it and one  *)
(* takes its outcome.  The callback runs concurrently with it, in its own  *)
(* sections under the mutex of the authorization state.  A server stands   *)
(* for its service, its issuer and its endpoints.                          *)
(*                                                                         *)
(* Left out: the contents of metadata and of tokens but for their issuer,  *)
(* the back-off between discoveries, and the thread that fetches the keys  *)
(* of the issuers of tokens presented to the node.                         *)
(***************************************************************************)
EXTENDS Naturals, Sequences, FiniteSets

CONSTANTS
    Server,          \* authorization servers
    MaxDiscoveries,  \* bound: discoveries that find some
    MaxFlows,        \* bound: authorization code flows started
    MaxRestarts      \* bound: restarts of the node

None == "none"

VARIABLES
    settings,     \* authorization_flow, validate_openid_client, scope and keys
    mode,         \* of the thread
    asked,        \* a request is outstanding, or a flow is waited for
    services,     \* settings.authorization_services
    failed,       \* authorization_service_error
    server,       \* authorization_server_uri
    clients,      \* the servers whose client_metadata is cached
    file,         \* those whose client_metadata is saved
    lapsed,       \* those where the client_secret has expired
    registered,   \* how often each has registered the client
    keys,         \* those whose public keys are cached
    token,        \* bearer_token: its issuer
    held,         \* bearer_token of the token_shared_state
    flow,         \* authorization_flow
    state,        \* the state parameter: the number of the flow that made it
    flows,        \* the server of each flow started so far
    callback,     \* the handler of a redirect
    waking,       \* the thread has the model's mutex to evaluate its condition
    count         \* of discoveries and restarts

client == <<clients, file, lapsed, registered>>

tokens == <<keys, token, held>>

redirection == <<flow, state, flows, callback, waking>>

authorizationVars ==
    <<settings, mode, asked, services, failed, server, client, tokens, redirection, count>>

Settings == [flow : {"client_credentials", "authorization_code"}, openid : BOOLEAN,
             scoped : BOOLEAN, keys : BOOLEAN]

NoCallback == [at |-> "idle", state |-> 0, code |-> 0, server |-> None]

Init ==
    /\ settings \in Settings
    /\ mode = "discovery"
    /\ asked = FALSE
    /\ services = <<>>
    /\ failed = FALSE
    /\ server = None
    /\ clients = {} /\ file = {} /\ lapsed = {}
    /\ registered = [s \in Server |-> 0]
    /\ keys = {}
    /\ token = None /\ held = None
    /\ flow = "request_code"
    /\ state = 0
    /\ flows = <<>>
    /\ callback = NoCallback
    /\ waking = FALSE
    /\ count = [discoveries |-> 0, restarts |-> 0]

Distinct(s) == \A i, j \in DOMAIN s : s[i] = s[j] => i = j

\* What discovery can find: services in the order of their priorities
Discoverable == {s \in UNION {[1..n -> Server] : n \in 1..Cardinality(Server)} : Distinct(s)}

\* The callback has the mutex of the authorization state.
Locked == callback.at \in {"failing", "replying"}

-----------------------------------------------------------------------------
(* The thread: discovery and choice of a server *)

Discover ==
    /\ mode \in {"discovery", "background"}
    /\ count.discoveries < MaxDiscoveries
    /\ services' \in Discoverable
    /\ mode' = "metadata"
    /\ count' = [count EXCEPT !.discoveries = @ + 1]
    /\ UNCHANGED <<settings, asked, failed, server, client, tokens, redirection>>

DiscoverNone ==
    /\ mode = "discovery"
    /\ services' = <<>>
    /\ mode' = "background"
    /\ UNCHANGED <<settings, asked, failed, server, client, tokens, redirection, count>>

\* "If the chosen Authorization API does not respond correctly at any time,
\* another Authorization API should be selected from the discovered list."
RemainingServices == IF failed THEN Tail(services) ELSE services

RequestMetadata ==
    /\ mode = "metadata" /\ ~asked
    /\ services' = RemainingServices
    /\ failed' = FALSE
    /\ asked' = (services' # <<>>)
    /\ mode' = IF services' = <<>> THEN "discovery" ELSE mode
    /\ UNCHANGED <<settings, server, client, tokens, redirection, count>>

MetadataFails ==
    /\ mode = "metadata" /\ asked
    /\ failed' = TRUE
    /\ asked' = FALSE
    /\ UNCHANGED <<settings, mode, services, server, client, tokens, redirection, count>>

\* is_access_token_expired validates the token with the keys of its issuer.
TokenIsBad(s) == token # s \/ s \notin keys

\* The grant flow to start with when the client is registered
Grant(s) ==
    IF settings.flow = "client_credentials" THEN "operation"
    ELSE IF TokenIsBad(s) THEN "code_flow" ELSE "operation_now"

\* Mistaken: the server chosen first is kept.
FirstServer(s) == IF server = None THEN s ELSE server

\* authorization_server_uri is recorded when the metadata is received.
Current(s) == s

MetadataReceived ==
    LET s == Current(Head(services)) IN
    /\ mode = "metadata" /\ asked
    /\ ~Locked
    /\ server' = s
    /\ mode' = IF ~settings.scoped THEN "operation"
               ELSE IF s \notin clients THEN "registration"
               ELSE IF settings.openid THEN "openid"
               ELSE IF s \in lapsed THEN "registration"
               ELSE Grant(s)
    /\ asked' = FALSE
    /\ UNCHANGED <<settings, services, failed, client, tokens, redirection, count>>

-----------------------------------------------------------------------------
(* The thread: registration of the client *)

\* The OpenID Connect server returns the client's metadata, which is saved.
OpenidKnown ==
    /\ mode = "openid"
    /\ ~Locked
    /\ clients' = clients \cup {server}
    /\ file' = file \cup {server}
    /\ lapsed' = lapsed \ {server}
    /\ mode' = Grant(server)
    /\ UNCHANGED <<settings, asked, services, failed, server, registered, tokens, redirection, count>>

\* It does not know the client, or the request fails: the client is erased from
\* the cache.
OpenidFails ==
    /\ mode = "openid"
    /\ ~Locked
    /\ clients' = clients \ {server}
    /\ mode' = "registration"
    /\ UNCHANGED <<settings, asked, services, failed, server, file, lapsed, registered, tokens, redirection, count>>

Registered ==
    /\ mode = "registration"
    /\ ~Locked
    /\ registered' = [registered EXCEPT ![server] = @ + 1]
    /\ clients' = clients \cup {server}
    /\ file' = file \cup {server}
    /\ lapsed' = lapsed \ {server}
    /\ mode' = IF settings.flow = "client_credentials" THEN "operation" ELSE "code_flow"
    /\ UNCHANGED <<settings, asked, services, failed, server, tokens, redirection, count>>

\* The thread starts again with the next server.
GivesUp ==
    /\ failed' = TRUE
    /\ mode' = "metadata"
    /\ asked' = FALSE

\* Refused, or registered by the server but with no valid answer
RegistrationFails ==
    /\ mode = "registration"
    /\ GivesUp
    /\ \/ UNCHANGED registered
       \/ registered' = [registered EXCEPT ![server] = @ + 1]
    /\ UNCHANGED <<settings, services, server, clients, file, lapsed, tokens, redirection, count>>

-----------------------------------------------------------------------------
(* The thread: the authorization code flow *)

\* The thread has the model's mutex, then that of the authorization state.
StartFlow ==
    /\ mode = "code_flow" /\ ~asked
    /\ Len(flows) < MaxFlows
    /\ ~Locked
    /\ flow' = "request_code"
    /\ flows' = Append(flows, server)
    /\ state' = Len(flows')
    /\ asked' = TRUE
    /\ UNCHANGED <<settings, mode, services, failed, server, client, tokens, callback, waking, count>>

\* The thread is notified, or has waited for authorization_code_flow_max: it has
\* the model's mutex.
Wake ==
    /\ mode = "code_flow" /\ asked
    /\ waking' = TRUE
    /\ UNCHANGED <<settings, mode, asked, services, failed, server, client, tokens, flow, state, flows, callback, count>>

FlowSucceeds ==
    /\ waking /\ ~Locked
    /\ flow = "access_token_received"
    /\ mode' = "operation"
    /\ asked' = FALSE
    /\ waking' = FALSE
    /\ UNCHANGED <<settings, services, failed, server, client, tokens, flow, state, flows, callback, count>>

\* It failed, or it is too late.
FlowFails ==
    /\ waking /\ ~Locked
    /\ flow # "access_token_received"
    /\ GivesUp
    /\ waking' = FALSE
    /\ UNCHANGED <<settings, services, server, client, tokens, flow, state, flows, callback, count>>

FlowWaits ==
    /\ waking /\ ~Locked
    /\ flow \notin {"access_token_received", "failed"}
    /\ waking' = FALSE
    /\ UNCHANGED <<settings, mode, asked, services, failed, server, client, tokens, flow, state, flows, callback, count>>

-----------------------------------------------------------------------------
(* The thread: authorization_operation *)

InOperation == mode \in {"operation", "operation_now"}

StartOperation ==
    /\ InOperation /\ ~asked
    /\ ~Locked
    /\ asked' = TRUE
    /\ held' = token
    /\ UNCHANGED <<settings, mode, services, failed, server, client, keys, token, redirection, count>>

\* update_jwks, or erase_jwks if the server has no keys any more
KeysReceived ==
    /\ InOperation /\ asked
    /\ settings.keys
    /\ ~Locked
    /\ keys' \in {keys \cup {server}, keys \ {server}}
    /\ UNCHANGED <<settings, mode, asked, services, failed, server, client, token, held, redirection, count>>

\* A server grants a token for the client's credentials, or for a refresh token
\* that it has issued.
TokenReceived ==
    /\ InOperation /\ asked
    /\ settings.scoped
    /\ settings.flow = "client_credentials" \/ held = server
    /\ ~Locked
    /\ token' = server
    /\ held' = server
    /\ UNCHANGED <<settings, mode, asked, services, failed, server, client, keys, redirection, count>>

\* A request for keys or for a token fails.
OperationFails ==
    /\ InOperation /\ asked
    /\ settings.keys \/ settings.scoped
    /\ GivesUp
    /\ held' = None
    /\ UNCHANGED <<settings, services, server, client, keys, token, redirection, count>>

-----------------------------------------------------------------------------
(* The callback of the authorization code flow *)

\* The handler takes the state and the server's and the client's metadata.
Redirected ==
    /\ callback.at = "idle"
    /\ \E n \in DOMAIN flows :
        callback' = [at |-> "checking", state |-> state, code |-> n, server |-> server]
    /\ flow' = "request_code"
    /\ UNCHANGED <<settings, mode, asked, services, failed, server, client, tokens, state, flows, waking, count>>

\* process_error_response: the redirect is not of this flow, or has an error.  The
\* handler keeps the mutex of the authorization state and wants the model's.
Rejects ==
    /\ callback.at = "checking"
    /\ flow' = "failed"
    /\ callback' = [callback EXCEPT !.at = "failing"]
    /\ UNCHANGED <<settings, mode, asked, services, failed, server, client, tokens, state, flows, waking, count>>

Exchanges ==
    /\ callback.at = "checking"
    /\ callback.code = callback.state
    /\ flow # "failed"
    /\ callback' = [callback EXCEPT !.at = "exchange"]
    /\ UNCHANGED <<settings, mode, asked, services, failed, server, client, tokens, flow, state, flows, waking, count>>

\* The server that gave the code gives a token for it.
TokenExchanged ==
    /\ callback.at = "exchange"
    /\ flows[callback.code] = callback.server
    /\ flow' = "access_token_received"
    /\ token' = callback.server
    /\ callback' = [callback EXCEPT !.at = "received"]
    /\ UNCHANGED <<settings, mode, asked, services, failed, server, client, keys, held, state, flows, waking, count>>

ExchangeFails ==
    /\ callback.at = "exchange"
    /\ flow' = "failed"
    /\ callback' = [callback EXCEPT !.at = "replying"]
    /\ UNCHANGED <<settings, mode, asked, services, failed, server, client, tokens, state, flows, waking, count>>

\* The last task takes the mutex again.
Finishes ==
    /\ callback.at = "received"
    /\ callback' = [callback EXCEPT !.at = "replying"]
    /\ UNCHANGED <<settings, mode, asked, services, failed, server, client, tokens, flow, state, flows, waking, count>>

\* It has the model's mutex, notifies and replies.
Replies ==
    /\ Locked
    /\ ~waking
    /\ callback' = NoCallback
    /\ UNCHANGED <<settings, mode, asked, services, failed, server, client, tokens, flow, state, flows, waking, count>>

-----------------------------------------------------------------------------
(* Time and restarts *)

\* The client_secret of a server expires.
SecretExpires(s) ==
    /\ s \in file
    /\ lapsed' = lapsed \cup {s}
    /\ UNCHANGED <<settings, mode, asked, services, failed, server, clients, file, registered, tokens, redirection, count>>

\* The token in use expires: it is no longer valid with the keys of its issuer.
TokenExpires ==
    /\ token # None
    /\ token' = None
    /\ UNCHANGED <<settings, mode, asked, services, failed, server, client, keys, held, redirection, count>>

\* Mistaken: the clients are not loaded.
NotLoaded == {}

\* load_authorization_clients
Loaded == file

Restart ==
    /\ count.restarts < MaxRestarts
    /\ count' = [count EXCEPT !.restarts = @ + 1]
    /\ mode' = "discovery"
    /\ asked' = FALSE
    /\ services' = <<>>
    /\ failed' = FALSE
    /\ server' = None
    /\ clients' = Loaded
    /\ keys' = {} /\ token' = None /\ held' = None
    /\ flow' = "request_code"
    /\ state' = 0
    /\ callback' = NoCallback
    /\ waking' = FALSE
    /\ UNCHANGED <<settings, file, lapsed, registered, flows>>

-----------------------------------------------------------------------------
Behaviour ==
    \/ Discover \/ DiscoverNone \/ RequestMetadata \/ MetadataFails \/ MetadataReceived
    \/ OpenidKnown \/ OpenidFails \/ Registered \/ RegistrationFails
    \/ StartFlow \/ Wake \/ FlowSucceeds \/ FlowFails \/ FlowWaits
    \/ StartOperation \/ KeysReceived \/ TokenReceived \/ OperationFails

Callback == Redirected \/ Rejects \/ Exchanges \/ TokenExchanged \/ Finishes \/ ExchangeFails \/ Replies

Next ==
    \/ Behaviour
    \/ Callback
    \/ \E s \in Server : SecretExpires(s)
    \/ TokenExpires
    \/ Restart

Spec == Init /\ [][Next]_authorizationVars

-----------------------------------------------------------------------------
(* Properties *)

Modes == {"discovery", "background", "metadata", "openid", "registration",
          "code_flow", "operation", "operation_now"}

TypeOK ==
    /\ settings \in Settings
    /\ mode \in Modes
    /\ asked \in BOOLEAN /\ failed \in BOOLEAN /\ waking \in BOOLEAN
    /\ services \in Discoverable \cup {<<>>}
    /\ \A s \in {server, token, held} : s \in Server \cup {None}
    /\ clients \subseteq Server /\ file \subseteq Server /\ lapsed \subseteq file
    /\ keys \subseteq Server
    /\ registered \in [Server -> Nat]
    /\ flow \in {"request_code", "access_token_received", "failed"}
    /\ Len(flows) <= MaxFlows
    /\ state \in 0..Len(flows)
    /\ callback.at \in {"idle", "checking", "failing", "exchange", "received", "replying"}
    /\ waking => mode = "code_flow" /\ asked

\* The server whose metadata, client and token are used is the first of the list,
\* the one whose priority was highest and which is given up if it fails, through
\* any sequence of failures, discoveries and restarts.
SelectedServer ==
    mode \in {"openid", "registration", "code_flow", "operation", "operation_now"} =>
        /\ services # <<>>
        /\ server = Head(services)

\* "in case of a device restart to prevent duplicate registrations": without
\* OpenID Connect no client is registered with a server when one that has not
\* expired is saved for it, before or after restarts and changes of server.
OnlyWhenNeeded ==
    ~settings.openid => \A s \in Server : registered'[s] > registered[s] => s \notin file \ lapsed

NoNeedlessRegistration == [][OnlyWhenNeeded]_authorizationVars

\* "parameter 'state' ... does not match with the expected 'state'": only the
\* redirect of the flow that is waited for gives it a token, so that a token is
\* refreshed by the server that issued it.
RefreshesOwnToken ==
    InOperation /\ asked /\ settings.flow = "authorization_code" /\ held # None => held = server

\* The thread and the callback never wait for each other's mutex.
NoDeadlock == ~(waking /\ Locked)

=============================================================================
