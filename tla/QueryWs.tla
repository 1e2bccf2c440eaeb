------------------------------ MODULE QueryWs ------------------------------
(***************************************************************************)
(* Push notification in the registry: Query API subscriptions              *)
(* (nmos/query_api.cpp), the WebSocket connections to them and the thread  *)
(* that sends the events (nmos/query_ws_api.cpp), and the resource events  *)
(* that every change of the registry queues (nmos/query_utils.cpp).        *)
(*                                                                         *)
(* Every handler, and each pass of the sending thread, holds model.mutex   *)
(* exclusively and is one action; the thread releases it while it sends.   *)
(*                                                                         *)
(* Abstracted: a resource is reduced to its value, and a subscription to   *)
(* the values its path and parameters match; the timestamps are kept as    *)
(* the comparisons made with them (fresh, recent, armed), for a system     *)
(* clock that does not go back; authorization is off.                      *)
(***************************************************************************)
EXTENDS Naturals, Sequences, FiniteSets, SequencesExt

CONSTANTS
    Resource,       \* ids of queryable resources
    Value,          \* the data they may have
    Null,           \* web::json::value::null()
    Subscription,   \* ids of subscriptions, each used once
    Persistent,     \* those created with persist = true
    Match(_, _),    \* Match(s, v): subscription s matches data v
    Conn,           \* WebSocket connections, each used once
    Limit,          \* paging.limit of the subscriptions: events per message
    MaxEvents       \* bound: events waiting in one grain

ASSUME ParameterAssumption ==
    /\ IsFiniteSet(Resource)
    /\ Subscription # {}
    /\ Null \notin Value
    /\ Persistent \subseteq Subscription
    /\ Limit \in Nat \ {0}
    /\ MaxEvents \in Nat
    /\ \A s \in Subscription, v \in Value : Match(s, v) \in BOOLEAN

Data == Value \cup {Null}

Event == [res : Resource, pre : Data, post : Data]

VARIABLES
    content,    \* the data of each registered resource
    subscription, \* "absent", "extant" or "erased"
    forever,    \* subscriptions whose health is health_forever
    grains,     \* the sub_resources of each subscription
    grain,      \* the grain of each connection: "none", "extant" or "erased"
    flow,       \* the subscription of each connection
    events,     \* the events waiting in each grain
    recent,     \* grains whose last message is younger than max_update_rate
    websockets, \* the connections in the websockets map
    link,       \* each connection as the WebSocket listener sees it
    sender,     \* where the sending thread is
    outbox,     \* the messages it has prepared
    fresh,      \* most_recent_message < most_recent_update(resources)
    armed,      \* grains whose next message earliest_necessary_update waits for
    signalled,  \* the condition was notified while the thread was waiting
    view        \* history: what each client knows from its messages

registry == <<content, subscription, forever, grains, grain, flow, events, recent, websockets>>

thread == <<sender, outbox, armed>>

vars == <<registry, link, thread, fresh, signalled, view>>

-----------------------------------------------------------------------------
\* An event of the subscription: data that does not match is as good as none.
Seen(s, v) == IF v # Null /\ Match(s, v) THEN v ELSE Null

Projection(s) == [r \in Resource |-> Seen(s, content[r])]

\* what a client knows before its first message
Nothing == [r \in Resource |-> Null]

LastAbout(r, queue) ==
    CHOOSE i \in DOMAIN queue : queue[i].res = r /\ \A j \in DOMAIN queue : j > i => queue[j].res # r

\* what it knows after the events of a queue
Apply(known, queue) ==
    [r \in Resource |-> IF \E i \in DOMAIN queue : queue[i].res = r
                       THEN queue[LastAbout(r, queue)].post
                       ELSE known[r]]

\* model.notify() wakes the sending thread only if it is waiting
Notified == signalled' = (sender = "waiting" \/ signalled)

Running == sender # "terminated"

\* Mistaken: data that matched before, and does not now, is not an event.
ReceiversAfter(pre, post) ==
    {c \in Conn : /\ grain[c] = "extant"
                  /\ subscription[flow[c]] = "extant"
                  /\ c \in grains[flow[c]]
                  /\ Seen(flow[c], post) # Null}

\* insert_resource_events: the grains that receive an event when the data of r
\* changes from pre to post, those of the extant subscriptions that match
Receivers(pre, post) ==
    {c \in Conn : /\ grain[c] = "extant"
                  /\ subscription[flow[c]] = "extant"
                  /\ c \in grains[flow[c]]
                  /\ Seen(flow[c], pre) # Null \/ Seen(flow[c], post) # Null}

\* Mistaken: the event has the data before the change that did not match.
QueuedUnmatched(r, pre, post) ==
    [c \in Conn |->
        IF c \in Receivers(pre, post)
        THEN Append(events[c], [res |-> r, pre |-> pre, post |-> Seen(flow[c], post)])
        ELSE events[c]]

Queued(r, pre, post) ==
    [c \in Conn |->
        IF c \in Receivers(pre, post)
        THEN Append(events[c], [res |-> r, pre |-> Seen(flow[c], pre), post |-> Seen(flow[c], post)])
        ELSE events[c]]

Init ==
    /\ content = [r \in Resource |-> Null]
    /\ subscription = [s \in Subscription |-> "absent"]
    /\ forever = {}
    /\ grains = [s \in Subscription |-> {}]
    /\ grain = [c \in Conn |-> "none"]
    /\ flow = [c \in Conn |-> CHOOSE s \in Subscription : TRUE]
    /\ events = [c \in Conn |-> <<>>]
    /\ recent = {}
    /\ websockets = {}
    /\ link = [c \in Conn |-> "idle"]
    /\ sender = "ready"
    /\ outbox = [c \in Conn |-> <<>>]
    /\ fresh = TRUE
    /\ armed = {}
    /\ signalled = FALSE
    /\ view = [c \in Conn |-> Nothing]

-----------------------------------------------------------------------------
(* Changes of the registry: the Registration API and the expiry thread *)

\* A resource is registered, updated or deleted: updated is set.
Change(r, v) ==
    /\ Running
    /\ content[r] # Null \/ v # Null
    /\ content' = [content EXCEPT ![r] = v]
    /\ events' = Queued(r, content[r], v)
    /\ \A c \in Conn : Len(events'[c]) <= MaxEvents
    /\ fresh' = TRUE
    /\ Notified
    /\ UNCHANGED <<subscription, forever, grains, grain, flow, recent, websockets, link, thread, view>>

\* A resource expires: updated is set only in the grains that have an event.
Expire(r) ==
    /\ Running
    /\ content[r] # Null
    /\ content' = [content EXCEPT ![r] = Null]
    /\ events' = Queued(r, content[r], Null)
    /\ \A c \in Conn : Len(events'[c]) <= MaxEvents
    /\ fresh' = (fresh \/ events' # events)
    /\ Notified
    /\ UNCHANGED <<subscription, forever, grains, grain, flow, recent, websockets, link, thread, view>>

\* A subscription whose health was not kept up expires; it has no grain.
ExpireSubscription(s) ==
    /\ Running
    /\ subscription[s] = "extant"
    /\ s \notin forever
    /\ subscription' = [subscription EXCEPT ![s] = "erased"]
    /\ Notified
    /\ UNCHANGED <<content, forever, grains, grain, flow, events, recent, websockets, link, thread, fresh, view>>

-----------------------------------------------------------------------------
(* The Query API *)

\* erase_resource of grains: their data, the waiting events and the timestamp
\* of the last message with it, becomes null
EraseGrains(gone) ==
    /\ grain' = [c \in Conn |-> IF c \in gone THEN "erased" ELSE grain[c]]
    /\ events' = [c \in Conn |-> IF c \in gone THEN <<>> ELSE events[c]]
    /\ recent' = recent \ gone

\* POST /subscriptions with new parameters; otherwise an extant one is returned
\* and its health, unless forever, set to the current time
Subscribe(s) ==
    /\ Running
    /\ subscription[s] = "absent"
    /\ subscription' = [subscription EXCEPT ![s] = "extant"]
    /\ forever' = IF s \in Persistent THEN forever \cup {s} ELSE forever
    /\ fresh' = TRUE
    /\ UNCHANGED <<content, grains, grain, flow, events, recent, websockets, link, thread, signalled, view>>

\* DELETE /subscriptions/{id}: the subscription and its grains are erased, and
\* nobody is notified
Unsubscribe(s) ==
    /\ Running
    /\ s \in Persistent
    /\ subscription[s] = "extant"
    /\ subscription' = [subscription EXCEPT ![s] = "erased"]
    /\ EraseGrains({c \in grains[s] : grain[c] = "extant"})
    /\ fresh' = TRUE
    /\ UNCHANGED <<content, forever, grains, flow, websockets, link, thread, signalled, view>>

-----------------------------------------------------------------------------
(* The handlers of the Query API WebSocket listener *)

\* The validate handler accepts a connection to the path of a subscription.
Validate(c, s) ==
    /\ Running
    /\ link[c] = "idle"
    /\ subscription[s] = "extant"
    /\ link' = [link EXCEPT ![c] = "validated"]
    /\ flow' = [flow EXCEPT ![c] = s]
    /\ UNCHANGED <<content, subscription, forever, grains, grain, events, recent, websockets, thread, fresh, signalled, view>>

\* The handshake is complete: the open handler creates the grain.
Open(c) ==
    LET s == flow[c]
        matched == {r \in Resource : Projection(s)[r] # Null}
    IN
    /\ Running
    /\ link[c] = "validated"
    /\ subscription[s] = "extant"
    /\ link' = [link EXCEPT ![c] = "open"]
    /\ grain' = [grain EXCEPT ![c] = "extant"]
    /\ grains' = [grains EXCEPT ![s] = @ \cup {c}]
    /\ events' = [events EXCEPT ![c] =
                    SetToSeq({[res |-> r, pre |-> content[r], post |-> content[r]] : r \in matched})]
    /\ forever' = forever \cup {s}
    /\ websockets' = websockets \cup {c}
    /\ fresh' = TRUE
    /\ Notified
    /\ UNCHANGED <<content, subscription, flow, recent, thread, view>>

\* The subscription has gone since the connection was validated: the handler
\* only logs, and the connection stays open.
OpenInvalid(c) ==
    /\ Running
    /\ link[c] = "validated"
    /\ subscription[flow[c]] # "extant"
    /\ link' = [link EXCEPT ![c] = "open"]
    /\ UNCHANGED <<registry, thread, fresh, signalled, view>>

\* The client closes the connection, or it breaks: the listener is about to
\* call the close handler, which needs the lock.
Disconnect(c) ==
    /\ Running
    /\ link[c] = "open"
    /\ link' = [link EXCEPT ![c] = "disconnected"]
    /\ view' = [view EXCEPT ![c] = Nothing]
    /\ UNCHANGED <<registry, thread, fresh, signalled>>

\* Mistaken: other connections to the subscription do not count.
LastAlways(c) == TRUE

\* No connection to the subscription remains.
LastConnection(c) == grains[flow[c]] \subseteq {c}

\* The close handler, for a connection that is in the websockets map
Close(c) ==
    LET s     == flow[c]
        known == grain[c] = "extant"
    IN
    /\ Running
    /\ link[c] \in {"disconnected", "closing"}
    /\ c \in websockets
    /\ link' = [link EXCEPT ![c] = "closed"]
    /\ websockets' = websockets \ {c}
    /\ EraseGrains({c})
    /\ IF known /\ subscription[s] = "extant"
       THEN /\ grains' = [grains EXCEPT ![s] = @ \ {c}]
            /\ forever' = IF LastConnection(c) /\ s \notin Persistent THEN forever \ {s} ELSE forever
       ELSE UNCHANGED <<grains, forever>>
    /\ fresh' = (fresh \/ known)
    /\ Notified
    /\ UNCHANGED <<content, subscription, flow, thread, view>>

\* The close handler, for one that is not (any more)
CloseUnknown(c) ==
    /\ Running
    /\ link[c] \in {"disconnected", "closing"}
    /\ c \notin websockets
    /\ link' = [link EXCEPT ![c] = "closed"]
    /\ UNCHANGED <<registry, thread, fresh, signalled, view>>

-----------------------------------------------------------------------------
(* send_query_ws_events_thread *)

\* Connections to be closed because their grain, or subscription, has gone
Deleted == {c \in websockets : grain[c] # "extant" \/ subscription[flow[c]] # "extant"}

Waiting == {c \in websockets \ Deleted : events[c] # <<>>}

Due == Waiting \ recent

\* Mistaken: all of the events are sent at once.
WholeMessage(c) == events[c]

Message(c) == SubSeq(events[c], 1, IF Limit < Len(events[c]) THEN Limit ELSE Len(events[c]))

Postponed(c) == SubSeq(events[c], Limit + 1, Len(events[c]))

\* Mistaken: those for which it is too early are forgotten.
NextDue == {c \in Due : Postponed(c) # <<>>}

\* The grains that earliest_necessary_update is to account for
NextUpdate == (Waiting \ Due) \cup {c \in Due : Postponed(c) # <<>>}

\* One pass over the websockets: close those deleted, prepare a message of at
\* most Limit events for those that may have one, and reset their grains.
Pass ==
    /\ \A c \in Deleted : link[c] = "open"
    /\ link' = [c \in Conn |-> IF c \in Deleted THEN "closing" ELSE link[c]]
    /\ websockets' = websockets \ Deleted
    /\ grain' = [c \in Conn |-> IF c \in Deleted THEN "erased" ELSE grain[c]]
    /\ view' = [c \in Conn |-> IF c \in Deleted THEN Nothing ELSE view[c]]
    /\ outbox' = [c \in Conn |-> IF c \in Due THEN Message(c) ELSE <<>>]
    /\ events' = [c \in Conn |-> IF c \in Due THEN Postponed(c)
                               ELSE IF c \in Deleted THEN <<>>
                               ELSE events[c]]
    /\ recent' = (recent \ Deleted) \cup Due
    /\ armed' = NextUpdate
    /\ fresh' = (Due # {} \/ \E c \in Deleted : grain[c] = "extant")
    /\ sender' = "sending"
    /\ signalled' = FALSE
    /\ UNCHANGED <<content, subscription, forever, grains, flow>>

\* listener.close of a connection that is already closing throws, wait()
\* rethrows, and nothing in the thread catches it.
PassThrows ==
    /\ \E c \in Deleted : link[c] # "open"
    /\ sender' = "terminated"
    /\ UNCHANGED <<registry, link, outbox, armed, fresh, signalled, view>>

\* The predicate of the wait holds.
PassFresh == sender = "ready" /\ fresh /\ (Pass \/ PassThrows)

\* The wait times out, when max_update_rate allows one of the grains a message.
PassTimeout ==
    /\ sender = "waiting" \/ (sender = "ready" /\ ~fresh)
    /\ armed \ recent # {}
    /\ (Pass \/ PassThrows)

\* The predicate does not hold, nor has the time passed: the thread blocks.
Wait ==
    /\ sender = "ready"
    /\ ~fresh
    /\ armed \subseteq recent
    /\ sender' = "waiting"
    /\ signalled' = FALSE
    /\ UNCHANGED <<registry, link, outbox, armed, fresh, view>>

\* The thread wakes, notified or spuriously, and evaluates the predicate again.
Wake ==
    /\ sender = "waiting"
    /\ sender' = "ready"
    /\ signalled' = FALSE
    /\ UNCHANGED <<registry, link, outbox, armed, fresh, view>>

\* Without the lock, one message is sent; an error is only logged.
Send(c) ==
    /\ sender = "sending"
    /\ outbox[c] # <<>>
    /\ outbox' = [outbox EXCEPT ![c] = <<>>]
    /\ view' = IF link[c] = "open" THEN [view EXCEPT ![c] = Apply(@, outbox[c])] ELSE view
    /\ UNCHANGED <<registry, link, sender, armed, fresh, signalled>>

\* The lock is taken again.
Sent ==
    /\ sender = "sending"
    /\ \A c \in Conn : outbox[c] = <<>>
    /\ sender' = "ready"
    /\ UNCHANGED <<registry, link, outbox, armed, fresh, signalled, view>>

\* max_update_rate_ms has passed since the last message of the connection.
Elapse(c) ==
    /\ Running
    /\ c \in recent
    /\ recent' = recent \ {c}
    /\ UNCHANGED <<content, subscription, forever, grains, grain, flow, events, websockets, link, thread, fresh, signalled, view>>

-----------------------------------------------------------------------------
Thread ==
    \/ PassFresh
    \/ PassTimeout
    \/ Wait
    \/ signalled /\ Wake
    \/ \E c \in Conn : Send(c)
    \/ Sent

Next ==
    \/ \E r \in Resource, v \in Data : Change(r, v)
    \/ \E r \in Resource : Expire(r)
    \/ \E s \in Subscription : ExpireSubscription(s) \/ Subscribe(s) \/ Unsubscribe(s)
    \/ \E c \in Conn, s \in Subscription : Validate(c, s)
    \/ \E c \in Conn : Open(c) \/ OpenInvalid(c) \/ Disconnect(c) \/ Close(c) \/ CloseUnknown(c)
    \/ Thread
    \/ Wake
    \/ \E c \in Conn : Elapse(c)

Spec == Init /\ [][Next]_vars

\* The thread runs when it can (a spurious wake-up is not counted on), time
\* passes, and a handler that has been called gets the lock.
Fairness ==
    /\ WF_vars(Thread)
    /\ \A c \in Conn : WF_vars(Elapse(c)) /\ WF_vars(Close(c) \/ CloseUnknown(c))

FairSpec == Spec /\ Fairness

-----------------------------------------------------------------------------
(* Properties *)

\* The values of the variables; a message holds at most paging.limit events.
TypeOK ==
    /\ content \in [Resource -> Data]
    /\ subscription \in [Subscription -> {"absent", "extant", "erased"}]
    /\ forever \subseteq Subscription
    /\ grains \in [Subscription -> SUBSET Conn]
    /\ grain \in [Conn -> {"none", "extant", "erased"}]
    /\ flow \in [Conn -> Subscription]
    /\ events \in [Conn -> Seq(Event)]
    /\ recent \subseteq Conn
    /\ websockets \subseteq Conn
    /\ link \in [Conn -> {"idle", "validated", "open", "disconnected", "closing", "closed"}]
    /\ sender \in {"ready", "waiting", "sending", "terminated"}
    /\ outbox \in [Conn -> Seq(Event)]
    /\ \A c \in Conn : Len(outbox[c]) <= Limit
    /\ fresh \in BOOLEAN
    /\ armed \subseteq Conn
    /\ signalled \in BOOLEAN
    /\ view \in [Conn -> [Resource -> Data]]

\* A connection that is being served
Served(c) == link[c] = "open" /\ c \in websockets /\ grain[c] = "extant"

\* What a client knows, with the message that is being sent and the events
\* that wait for it, is the registry as its subscription sees it: no event is
\* lost or doubled, by throttling, paging, or changes while a message is sent.
FeedConsistent ==
    \A c \in Conn : Served(c) =>
        Apply(view[c], outbox[c] \o events[c]) = Projection(flow[c])

\* Each waiting event follows from the one before: its pre is what the client
\* will know by then, but for the initial events that tell it the first time.
EventsChain ==
    \A c \in Conn : Served(c) =>
        LET queue == outbox[c] \o events[c] IN
        \A i \in DOMAIN queue :
            LET known == Apply(view[c], SubSeq(queue, 1, i - 1))[queue[i].res] IN
            queue[i].pre = known \/ (known = Null /\ queue[i].pre = queue[i].post)

\* "never expire a subscription while it has connections", and let it expire
\* when it has none, unless it is persistent; and "a grain without a subscription
\* shouldn't be possible".
HealthFollowsConnections ==
    /\ \A c \in Conn : grain[c] = "extant" =>
        subscription[flow[c]] = "extant" /\ c \in grains[flow[c]] /\ c \in websockets
    /\ \A s \in Subscription : subscription[s] = "extant" /\ s \notin Persistent =>
        (s \in forever <=> \E c \in Conn : grain[c] = "extant" /\ flow[c] = s)

\* When the registry stops changing, each client gets to know what it contains.
Delivered ==
    \A c \in Conn :
        \/ []<><<content' # content>>_vars
        \/ <>[](Served(c) => view[c] = Projection(flow[c]))
        \/ <>(sender = "terminated")

\* The active behaviours "are implemented by long-running threads": the sending
\* thread runs until the registry is shut down.
SenderSurvives == Running

\* A thread that modifies the model "uses the condition variable to notify
\* waiting threads": the connections to a deleted subscription are closed.
DeletedCloses ==
    \A c \in Conn : (link[c] = "open" /\ grain[c] = "erased") ~> (link[c] # "open" \/ sender = "terminated")

=============================================================================
