---------------------------- MODULE EventsClient ----------------------------
(***************************************************************************)
(* The client of IS-07 event sources (nmos/events_ws_client.cpp), with the *)
(* handlers that tie it to a node's receivers (nmos/connection_events_     *)
(* activation.cpp): an activation of a receiver subscribes or unsubscribes *)
(* it, and a connection that is closed deactivates its receivers.          *)
(*                                                                         *)
(* Two mutexes are involved: that of the model, which the activation       *)
(* thread holds when it calls the client, and that of the client, which    *)
(* the close and message handlers hold when they call back.  What is done  *)
(* with both, or with no other to be had, is one action.                   *)
(*                                                                         *)
(* Each activation makes at most one client, which has its number.  What   *)
(* follows a subscription asynchronously is a chain of tasks, one for each *)
(* activation: the operation on the old connection, the connection to the  *)
(* new one and the subscription command.  A task that fails ends it.       *)
(*                                                                         *)
(* Left out: heartbeats, the contents of messages, and the closing of all  *)
(* connections when the client is destroyed.                               *)
(***************************************************************************)
EXTENDS Naturals, FiniteSets

CONSTANTS
    Receiver,       \* ids of WebSocket receivers
    Uri,            \* connection_uri of their transport parameters
    Source,         \* ext_is_07_source_id
    MaxActivations  \* bound: activations of receivers

Client == 1..MaxActivations

None == 0   \* no client

VARIABLES
    params,         \* the active parameters of each receiver
    subscriptions,  \* what each receiver is subscribed to in the client
    connections,    \* the client in use for each uri
    client,         \* the state of each
    heard,          \* the sources of the last command each has sent
    closing,        \* where its close handler is
    chain,          \* the chain of tasks of each activation
    activating,     \* the receiver that is activated, with the model's mutex held
    count,          \* how many activations there have been
    holder,         \* the client whose close handler holds the client's mutex
    readers         \* those whose message handler holds it, shared

locks == <<activating, holder, readers>>

eventsClientVars == <<params, subscriptions, connections, client, heard, closing, chain, count, locks>>

\* Not active: master_enable is false, and the rest is not read.
Off == [enable |-> FALSE, uri |-> "none", source |-> "none"]

Params == [enable : {TRUE}, uri : Uri, source : Source] \cup {Off}

NotSubscribed == [uri |-> "none", source |-> "none"]

NoChain == [at |-> "none", old |-> None, ends |-> "succeeds", uri |-> "none"]

Idle == "none"

Init ==
    /\ params = [r \in Receiver |-> Off]
    /\ subscriptions = [r \in Receiver |-> NotSubscribed]
    /\ connections = [u \in Uri |-> None]
    /\ client = [k \in Client |-> [uri |-> "none", status |-> "unused"]]
    /\ heard = [k \in Client |-> {}]
    /\ closing = [k \in Client |-> "no"]
    /\ chain = [n \in Client |-> NoChain]
    /\ activating = Idle
    /\ count = 0
    /\ holder = None
    /\ readers = {}

\* The receivers with a subscription to a uri, and their sources
Subscribed(subs, u) == {r \in Receiver : subs[r].uri = u}

Sources(subs, u) == {subs[r].source : r \in Subscribed(subs, u)}

\* websocket_callback_client::close; one that has not begun to connect is not
\* kept from doing so later.
Closed(status) == IF status \in {"connecting", "open"} THEN "closing" ELSE status

-----------------------------------------------------------------------------
(* The activation thread: subscribe and unsubscribe *)

\* The thread has the model's mutex and makes the parameters active.
Activate(r, p) ==
    /\ activating = Idle
    /\ count < MaxActivations
    /\ params' = [params EXCEPT ![r] = p]
    /\ activating' = r
    /\ count' = count + 1
    /\ UNCHANGED <<subscriptions, connections, client, heard, closing, chain, holder, readers>>

\* Mistaken: the old connection is forgotten.
LeavesSilently(r) == FALSE

\* The old connection is told of the sources that remain on it, or closed if
\* there are none, when the subscription ends or changes its uri.
Leaves(r) ==
    /\ subscriptions[r] # NotSubscribed
    /\ ~params[r].enable \/ params[r].uri # subscriptions[r].uri
    /\ connections[subscriptions[r].uri] # None

\* The thread has the client's mutex, too: the subscription is inserted,
\* replaced or erased, and the chain of tasks begins.
Subscribe(r) ==
    LET n     == count
        p     == params[r]
        subs  == [subscriptions EXCEPT ![r] =
                    IF p.enable THEN [uri |-> p.uri, source |-> p.source] ELSE NotSubscribed]
        left  == subscriptions[r].uri
        old   == IF Leaves(r) THEN connections[left] ELSE None
        stays == old # None /\ Subscribed(subs, left) # {}
        kept  == IF old # None /\ ~stays THEN [connections EXCEPT ![left] = None] ELSE connections
        opens == p.enable /\ kept[p.uri] = None
    IN
    /\ activating = r
    /\ holder = None /\ readers = {}
    /\ subscriptions' = subs
    /\ connections' = IF opens THEN [kept EXCEPT ![p.uri] = n] ELSE kept
    /\ heard' = IF stays /\ client[old].status = "open"
                THEN [heard EXCEPT ![old] = Sources(subs, left)] ELSE heard
    /\ client' = [k \in Client |->
                    IF k = old /\ ~stays THEN [client[k] EXCEPT !.status = Closed(@)]
                    ELSE IF k = n /\ opens THEN [uri |-> p.uri, status |-> "new"]
                    ELSE client[k]]
    /\ chain' = [chain EXCEPT ![n] =
                    [at   |-> IF old # None THEN "old" ELSE IF opens THEN "connect"
                              ELSE IF p.enable THEN "command" ELSE "done",
                     old  |-> old,
                     ends |-> IF old = None \/ client[old].status = "open" THEN "succeeds"
                              ELSE IF stays THEN "fails" ELSE "either",
                     uri  |-> IF p.enable THEN p.uri ELSE "none"]]
    /\ activating' = Idle
    /\ UNCHANGED <<params, closing, count, holder, readers>>

-----------------------------------------------------------------------------
(* The chain of tasks *)

To(n, stage) == chain' = [chain EXCEPT ![n].at = stage]

\* The command has been sent on the old connection, or that has been closed.
OldSucceeds(n) ==
    /\ chain[n].at = "old"
    /\ chain[n].ends # "fails"
    /\ client[chain[n].old].status # "closing"
    /\ To(n, IF chain[n].uri = "none" THEN "done"
             ELSE IF client[n].status = "new" THEN "connect" ELSE "command")
    /\ UNCHANGED <<params, subscriptions, connections, client, heard, closing, count, locks>>

\* The old connection was not open, so that sending fails, and closing may fail:
\* no later task is run.
OldFails(n) ==
    /\ chain[n].at = "old"
    /\ chain[n].ends # "succeeds"
    /\ To(n, "failed")
    /\ UNCHANGED <<params, subscriptions, connections, client, heard, closing, count, locks>>

Connect(n) ==
    /\ chain[n].at = "connect"
    /\ To(n, "connecting")
    /\ client' = [client EXCEPT ![n].status = "connecting"]
    /\ UNCHANGED <<params, subscriptions, connections, heard, closing, count, locks>>

Connected(n) ==
    /\ chain[n].at = "connecting"
    /\ client[n].status = "connecting"
    /\ To(n, "command")
    /\ client' = [client EXCEPT ![n].status = "open"]
    /\ UNCHANGED <<params, subscriptions, connections, heard, closing, count, locks>>

ConnectFails(n) ==
    /\ chain[n].at = "connecting"
    /\ client[n].status \in {"connecting", "closing"}
    /\ To(n, "failed")
    /\ client' = [client EXCEPT ![n].status = "closed"]
    /\ closing' = [closing EXCEPT ![n] = "due"]
    /\ UNCHANGED <<params, subscriptions, connections, heard, count, locks>>

\* The subscription command with the sources as they are by now, under the
\* shared lock
Command(n) ==
    LET k       == connections[chain[n].uri]
        sources == Sources(subscriptions, chain[n].uri)
        sends   == k # None /\ sources # {}
    IN
    /\ chain[n].at = "command"
    /\ holder = None
    /\ heard' = IF sends /\ client[k].status = "open" THEN [heard EXCEPT ![k] = sources] ELSE heard
    /\ To(n, IF sends /\ client[k].status # "open" THEN "failed" ELSE "done")
    /\ UNCHANGED <<params, subscriptions, connections, client, closing, count, locks>>

-----------------------------------------------------------------------------
(* What the client library does *)

\* The connection breaks, or is closed by the server.
Break(k) ==
    /\ client[k].status = "open"
    /\ client' = [client EXCEPT ![k].status = "closed"]
    /\ closing' = [closing EXCEPT ![k] = "due"]
    /\ UNCHANGED <<params, subscriptions, connections, heard, chain, count, locks>>

\* It is closed at our request.
CloseCompletes(k) ==
    /\ client[k].status = "closing"
    /\ chain[k].at # "connecting"
    /\ client' = [client EXCEPT ![k].status = "closed"]
    /\ closing' = [closing EXCEPT ![k] = "due"]
    /\ UNCHANGED <<params, subscriptions, connections, heard, chain, count, locks>>

\* Mistaken: the handler does not wait for the close handler.
MessageUnlocked(k) ==
    /\ client[k].status = "open"
    /\ k \notin readers
    /\ readers' = readers \cup {k}
    /\ UNCHANGED <<params, subscriptions, connections, client, heard, closing, chain, count, activating, holder>>

\* A message is received: its handler holds the client's mutex and calls back.
MessageReceived(k) ==
    /\ client[k].status = "open"
    /\ k \notin readers
    /\ holder = None
    /\ readers' = readers \cup {k}
    /\ UNCHANGED <<params, subscriptions, connections, client, heard, closing, chain, count, activating, holder>>

\* The application's handler has the model's mutex, too, and returns.
MessageHandled(k) ==
    /\ k \in readers
    /\ activating = Idle
    /\ readers' = readers \ {k}
    /\ UNCHANGED <<params, subscriptions, connections, client, heard, closing, chain, count, activating, holder>>

\* The close handler has the client's mutex and erases the connection of its uri,
\* whichever client that is of.
CloseHandler(k) ==
    LET u == client[k].uri
        found == connections[u]
    IN
    /\ closing[k] = "due"
    /\ holder = None /\ readers = {}
    /\ holder' = k
    /\ closing' = [closing EXCEPT ![k] = "user"]
    /\ connections' = [connections EXCEPT ![u] = None]
    /\ client' = [j \in Client |-> IF j = found THEN [client[j] EXCEPT !.status = Closed(@)] ELSE client[j]]
    /\ UNCHANGED <<params, subscriptions, heard, chain, count, activating, readers>>

\* The active receivers with a uri
ReceiversOf(u) == {r \in Receiver : params[r].enable /\ params[r].uri = u}

\* The application's close handler has the model's mutex, too, and sets the
\* master_enable of the receivers to false.
UserClose(k) ==
    /\ closing[k] = "user"
    /\ activating = Idle
    /\ params' = [r \in Receiver |-> IF r \in ReceiversOf(client[k].uri)
                                     THEN Off ELSE params[r]]
    /\ closing' = [closing EXCEPT ![k] = "done"]
    /\ holder' = None
    /\ UNCHANGED <<subscriptions, connections, client, heard, chain, count, activating, readers>>

-----------------------------------------------------------------------------
Next ==
    \/ \E r \in Receiver : Subscribe(r) \/ \E p \in Params : Activate(r, p)
    \/ \E n \in Client : OldSucceeds(n) \/ OldFails(n) \/ Connect(n) \/ Connected(n)
                            \/ ConnectFails(n) \/ Command(n)
    \/ \E k \in Client : Break(k) \/ CloseCompletes(k) \/ MessageReceived(k) \/ MessageHandled(k)
                            \/ CloseHandler(k) \/ UserClose(k)

Spec == Init /\ [][Next]_eventsClientVars

-----------------------------------------------------------------------------
(* Properties *)

TypeOK ==
    /\ params \in [Receiver -> Params]
    /\ subscriptions \in [Receiver -> [uri : Uri, source : Source] \cup {NotSubscribed}]
    /\ connections \in [Uri -> Client \cup {None}]
    /\ client \in [Client -> [uri : Uri \cup {"none"},
                              status : {"unused", "new", "connecting", "open", "closing", "closed"}]]
    /\ heard \in [Client -> SUBSET Source]
    /\ closing \in [Client -> {"no", "due", "user", "done"}]
    /\ chain \in [Client -> [at   : {"none", "old", "connect", "connecting", "command", "done", "failed"},
                             old  : Client \cup {None},
                             ends : {"succeeds", "fails", "either"},
                             uri  : Uri \cup {"none"}]]
    /\ activating \in Receiver \cup {Idle}
    /\ count \in 0..MaxActivations
    /\ holder \in Client \cup {None}
    /\ \A k \in Client : closing[k] = "user" <=> holder = k
    /\ readers \subseteq Client
    /\ readers = {} \/ holder = None

\* "this handler reflects Events WebSocket connection errors into the /active
\* endpoint of all associated receivers": a receiver that is active, except
\* while its activation is under way, is subscribed to what its parameters say,
\* and there is a connection for it, or the handler of one that was closed is
\* just deactivating it.
ActiveIsConnected ==
    \A r \in Receiver : params[r].enable /\ activating # r =>
        LET u == params[r].uri IN
        /\ subscriptions[r] = [uri |-> u, source |-> params[r].source]
        /\ connections[u] # None \/ (holder # None /\ client[holder].uri = u)

\* The tasks that are to send a command for a uri
Commanding(u) == {n \in Client : chain[n].uri = u /\ chain[n].at \notin {"done", "failed"}}

Failed(u) == {n \in Client : chain[n].uri = u /\ chain[n].at = "failed"}

\* The sources asked for last on an open connection are those that the receivers
\* are subscribed to, when no task that would ask for them is outstanding or has
\* failed, in whatever order receivers came to and left the connection.
SourcesRequested ==
    \A u \in Uri :
        LET k == connections[u] IN
        k # None /\ client[k].status = "open" /\ Commanding(u) = {} /\ Failed(u) = {}
            => heard[k] = Sources(subscriptions, u)

\* "extend this client's lifetime beyond the close operation to avoid deadlock":
\* a handler that holds the client's mutex never waits for the model's while the
\* activation thread, which holds that, waits for the client's.
NoDeadlock == activating # Idle => holder = None /\ readers = {}

\* "erase this connection (but not the associated subscriptions)": the close
\* handler of a client leaves the connection of another alone.
ErasesOwnConnection ==
    [][\A k \in Client : closing[k] = "due" /\ closing'[k] = "user"
        => \A u \in Uri : connections[u] # None /\ connections'[u] = None => connections[u] = k]_eventsClientVars

\* "by opening a new connection (and potentially closing an existing connection)":
\* a connection that is needed is opened whatever becomes of the old one.
OpensConnection == \A n \in Client : chain[n].at = "failed" => client[n].status # "new"

=============================================================================
