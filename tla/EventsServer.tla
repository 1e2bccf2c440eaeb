---------------------------- MODULE EventsServer ----------------------------
(***************************************************************************)
(* The WebSocket server of IS-07 event sources (nmos/events_ws_api.cpp):   *)
(* the handlers that validate, open and close connections and receive      *)
(* commands, the thread that sends messages, and the thread that expires   *)
(* connections without health commands.                                    *)
(*                                                                         *)
(* A connection has one subscription with one grain, created and erased    *)
(* together; they are one record, and so is their health.  Everything      *)
(* between two waits, or between two messages sent, is done with the       *)
(* model's mutex held, and is one action.                                  *)
(*                                                                         *)
(* Abstracted: the state of a source is a number that grows; the messages  *)
(* of a pass are sent in the order of each connection, but connections in  *)
(* any order; reboot and shutdown messages are not sent by this code;      *)
(* bearer tokens, malformed commands and shutdown of the server are left   *)
(* out.                                                                    *)
(***************************************************************************)
EXTENDS Integers, SequencesExt

CONSTANTS
    Source,         \* ids of event sources
    Connection,     \* ids of the connections that clients may make
    Health,         \* what a health message is about, instead of a source
    Interval,       \* events_expiry_interval
    MaxNow,         \* bound: the clock stops here
    MaxState,       \* bound: states of a source
    MaxCommands,    \* bound: subscription commands received on a connection
    MaxBeats        \* bound: health commands received on a connection

VARIABLES
    state,      \* the current state of each source
    enabled,    \* is the sender active?
    wire,       \* each connection: "none", "open" or "closed"
    notice,     \* connections whose close handler is still to run
    entries,    \* the websockets: connections known to the model
    grain,      \* the subscription and the grain of each connection
    updated,    \* most_recent_message < most_recent_update(resources)
    notified,   \* has the sending thread been notified?
    outgoing,   \* what the sending thread has taken with it for each connection, still to be sent
    now,        \* the clock, in seconds
    wake,       \* the least health the expiry thread sleeps by
    expiry,     \* is the expiry thread about to take the exclusive lock?
    sent,       \* history: the last message sent on each connection about each
                \*   source, and the number of health messages
    received,   \* history: the subscription commands received on each connection
    asked,      \* history: and the health commands
    overtaken   \* history: sources of each connection whose sync message was put before an
                \*   older message about them, left by an earlier subscription

model == <<entries, grain, updated, notified>>

world == <<state, enabled>>

history == <<sent, received, asked, overtaken>>

eventsServerVars == <<world, wire, notice, model, outgoing, now, wake, expiry, history>>

\* The messages about a source, with its state, and those that answer a health
\* command
Event == (Source \X (0..MaxState)) \cup {<<Health, 0>>}

\* No message about the source has been sent.
Untold == -1

NoGrain == [there |-> FALSE, sources |-> {}, health |-> 0, events |-> <<>>]

Connected == {c \in Connection : grain[c].there}

Init ==
    /\ state = [s \in Source |-> 0]
    /\ enabled = TRUE
    /\ wire = [c \in Connection |-> "none"]
    /\ notice = {}
    /\ entries = {}
    /\ grain = [c \in Connection |-> NoGrain]
    /\ updated = FALSE
    /\ notified = FALSE
    /\ outgoing = [c \in Connection |-> <<>>]
    /\ now = 0
    /\ wake = 0
    /\ expiry = FALSE
    /\ sent = [c \in Connection |-> [x \in Source \cup {Health} |-> IF x = Health THEN 0 ELSE Untold]]
    /\ received = [c \in Connection |-> 0]
    /\ asked = [c \in Connection |-> 0]
    /\ overtaken = [c \in Connection |-> {}]

\* A resource is modified and model.notify() called.
Notify == updated' = TRUE /\ notified' = TRUE

-----------------------------------------------------------------------------
(* The handlers of the listener *)

\* The validate handler accepts only connections to a sender that is active.
Validate == enabled

\* The validate and the open handler
Open(c) ==
    /\ wire[c] = "none"
    /\ Validate
    /\ wire' = [wire EXCEPT ![c] = "open"]
    /\ grain' = [grain EXCEPT ![c] = [NoGrain EXCEPT !.there = TRUE, !.health = now]]
    /\ entries' = entries \cup {c}
    /\ Notify
    /\ UNCHANGED <<world, notice, outgoing, now, wake, expiry, history>>

\* The client closes its connection, or it breaks.
Disconnect(c) ==
    /\ wire[c] = "open"
    /\ wire' = [wire EXCEPT ![c] = "closed"]
    /\ notice' = notice \cup {c}
    /\ UNCHANGED <<world, model, outgoing, now, wake, expiry, history>>

\* The close handler; when the sending thread has closed the connection there is
\* nothing left for it to do.
Close(c) ==
    /\ c \in notice
    /\ notice' = notice \ {c}
    /\ IF c \in entries
       THEN /\ grain' = [grain EXCEPT ![c] = NoGrain]
            /\ entries' = entries \ {c}
            /\ updated' = (updated \/ grain[c].there)
            /\ notified' = TRUE
       ELSE UNCHANGED model
    /\ UNCHANGED <<world, wire, outgoing, now, wake, expiry, history>>

\* make_resource_events: the sync events of the sources
Sync(sources) == SetToSeq({<<s, state[s]>> : s \in sources})

\* Mistaken: what has not been sent yet is discarded.
SyncOnly(c, sources) == Sync(sources)

\* The sync events go in front of what has not been sent yet.
Resynced(c, sources) == Sync(sources) \o grain[c].events

\* The message handler has a command to handle.
Receives(c) ==
    /\ wire[c] = "open"
    /\ c \in entries /\ grain[c].there

\* A message about the source waits for the sending thread.
Waits(c, s) == \E e \in Range(grain[c].events) : e[1] = s

SubscriptionCommand(c, sources) ==
    /\ Receives(c)
    /\ received[c] < MaxCommands
    /\ grain' = [grain EXCEPT ![c].sources = sources, ![c].events = Resynced(c, sources)]
    /\ Notify
    /\ received' = [received EXCEPT ![c] = @ + 1]
    /\ overtaken' = [overtaken EXCEPT ![c] = {s \in sources : IF s \in grain[c].sources THEN s \in @ ELSE Waits(c, s)}]
    /\ UNCHANGED <<world, wire, notice, entries, outgoing, now, wake, expiry, sent, asked>>

\* A health command renews the connection, and is answered.
HealthCommand(c) ==
    /\ Receives(c)
    /\ asked[c] < MaxBeats
    /\ grain' = [grain EXCEPT ![c].health = now, ![c].events = Append(@, <<Health, 0>>)]
    /\ Notify
    /\ asked' = [asked EXCEPT ![c] = @ + 1]
    /\ UNCHANGED <<world, wire, notice, entries, outgoing, now, wake, expiry, sent, received, overtaken>>

\* A source changes its state, by modify_resource and notify.
Change(s) ==
    /\ state[s] < MaxState
    /\ state' = [state EXCEPT ![s] = @ + 1]
    /\ grain' = [c \in Connection |->
                    IF grain[c].there /\ s \in grain[c].sources
                    THEN [grain[c] EXCEPT !.events = Append(@, <<s, state[s] + 1>>)]
                    ELSE grain[c]]
    /\ Notify
    /\ overtaken' = [c \in Connection |-> overtaken[c] \ {s}]
    /\ UNCHANGED <<enabled, wire, notice, entries, outgoing, now, wake, expiry, sent, received, asked>>

\* The sender is activated or deactivated: its connections stay.
Enable ==
    /\ enabled' = ~enabled
    /\ UNCHANGED <<state, wire, notice, model, outgoing, now, wake, expiry, history>>

-----------------------------------------------------------------------------
(* send_events_ws_messages_thread *)

\* One pass over the websockets: those without a grain are closed, the messages
\* of the others are taken and their grains emptied.
Pass ==
    /\ \A c \in Connection : outgoing[c] = <<>>
    /\ updated
    /\ LET gone  == {c \in entries : ~grain[c].there}
           ready == {c \in entries \ gone : grain[c].events # <<>>}
       IN
       /\ wire' = [c \in Connection |-> IF c \in gone THEN "closed" ELSE wire[c]]
       /\ notice' = notice \cup {c \in gone : wire[c] = "open"}
       /\ entries' = entries \ gone
       /\ outgoing' = [c \in Connection |-> IF c \in ready THEN grain[c].events ELSE <<>>]
       /\ grain' = [c \in Connection |-> IF c \in ready THEN [grain[c] EXCEPT !.events = <<>>] ELSE grain[c]]
       /\ updated' = (ready # {})
    /\ notified' = FALSE
    /\ UNCHANGED <<world, now, wake, expiry, history>>

\* One message is sent without the lock.  Sending on a connection that is closed
\* fails, which is only logged.
Send(c) ==
    /\ outgoing[c] # <<>>
    /\ LET about == Head(outgoing[c])[1]
           told  == IF about = Health THEN sent[c][Health] + 1 ELSE Head(outgoing[c])[2]
       IN  sent' = IF wire[c] = "open" THEN [sent EXCEPT ![c] = [@ EXCEPT ![about] = told]] ELSE sent
    /\ outgoing' = [outgoing EXCEPT ![c] = Tail(@)]
    /\ UNCHANGED <<world, wire, notice, model, now, wake, expiry, received, asked, overtaken>>

-----------------------------------------------------------------------------
(* erase_expired_events_resources_thread *)

LeastHealth == IF Connected = {} THEN now ELSE Min({grain[c].health : c \in Connected})

\* Mistaken: the health is compared with the expiry thread's own deadline.
ExpiredSinceWake == {c \in Connected : grain[c].health <= wake}

\* Connections without a health command for longer than Interval
Expired == {c \in Connected : grain[c].health < now - Interval}

\* The thread wakes, under the shared lock.  It may also take the exclusive one
\* only to forget what has expired before.
ExpiryCheck ==
    /\ ~expiry
    /\ now >= wake + Interval + 1
    /\ expiry' \in {TRUE, LeastHealth < now - Interval}
    /\ wake' = LeastHealth
    /\ UNCHANGED <<world, wire, notice, model, outgoing, now, history>>

\* The thread has the exclusive lock, and looks again.
ExpiryErase ==
    /\ expiry
    /\ expiry' = FALSE
    /\ grain' = [c \in Connection |-> IF c \in Expired THEN NoGrain ELSE grain[c]]
    /\ updated' = (updated \/ Expired # {})
    /\ notified' = (notified \/ Expired # {})
    /\ wake' = LET left == Connected \ Expired IN
               IF left = {} THEN now ELSE Min({grain[c].health : c \in left})
    /\ UNCHANGED <<world, wire, notice, entries, outgoing, now, history>>

Tick ==
    /\ now < MaxNow
    /\ now' = now + 1
    /\ UNCHANGED <<world, wire, notice, model, outgoing, wake, expiry, history>>

-----------------------------------------------------------------------------
Next ==
    \/ \E c \in Connection :
        \/ Open(c) \/ Disconnect(c) \/ Close(c) \/ HealthCommand(c) \/ Send(c)
        \/ \E sources \in SUBSET Source : SubscriptionCommand(c, sources)
    \/ \E s \in Source : Change(s)
    \/ Enable \/ Pass \/ ExpiryCheck \/ ExpiryErase \/ Tick

Spec == Init /\ [][Next]_eventsServerVars

-----------------------------------------------------------------------------
(* Properties *)

TypeOK ==
    /\ state \in [Source -> 0..MaxState]
    /\ wire \in [Connection -> {"none", "open", "closed"}]
    /\ notice \subseteq {c \in Connection : wire[c] = "closed"}
    /\ entries \subseteq Connection
    /\ grain \in [Connection -> [there : BOOLEAN, sources : SUBSET Source,
                                 health : 0..now, events : Seq(Event)]]
    /\ outgoing \in [Connection -> Seq(Event)]
    /\ sent \in [Connection -> [Source \cup {Health} -> Int]]
    /\ received \in [Connection -> 0..MaxCommands]
    /\ asked \in [Connection -> 0..MaxBeats]
    /\ overtaken \in [Connection -> SUBSET Source]
    /\ {updated, notified, enabled, expiry} \subseteq BOOLEAN
    /\ now \in 0..MaxNow
    /\ wake \in 0..now

\* What is still to be sent on a connection
Unsent(c) == outgoing[c] \o grain[c].events

\* Where it is about a source, or is health
About(c, x) == {n \in DOMAIN Unsent(c) : Unsent(c)[n][1] = x}

\* The state of a source that a client is told last
ToldLast(c, s) ==
    IF About(c, s) = {} THEN sent[c][s]
    ELSE LET last == CHOOSE n \in About(c, s) : \A m \in About(c, s) : m <= n IN Unsent(c)[last][2]

\* "update the grain with the current (sync) data for state messages without
\* discarding any outstanding events (health messages, for example)": on a live
\* connection the last message about a source that is subscribed to, sent or to
\* be sent, tells its current state, although sync messages overtake older ones;
\* and every health command has its answer.  Except for what is overtaken: if a client
\* takes a source up again while messages about it wait that are from before it gave
\* it up, those are sent last, and the source may have changed in between.
FeedCurrent ==
    \A c \in Connected : wire[c] = "open" =>
        /\ \A s \in grain[c].sources \ overtaken[c] : ToldLast(c, s) = state[s]
        /\ sent[c][Health] + Cardinality(About(c, Health)) = asked[c]

\* Every connection is known to the model as long as it lives: an open one that
\* has no grain, having expired, is closed by the sending thread, which has been
\* notified, and a grain is only there as long as the connection or the run of
\* its close handler is to come.
ExpiredIsClosed ==
    \A c \in Connection :
        /\ c \in entries /\ ~grain[c].there => updated /\ notified
        /\ wire[c] = "open" => c \in entries
        /\ grain[c].there => c \in entries /\ (wire[c] = "open" \/ c \in notice)

\* "it is deleted if a health command is not received soon enough": a connection
\* is only given up by the expiry thread if it has been silent for longer than
\* the interval, whatever was received while the thread waited for its lock.
SilentWhenExpired ==
    \A c \in Connection : expiry /\ ~expiry' /\ grain[c].there /\ ~grain'[c].there
        => now - grain[c].health > Interval

NoEarlyExpiry == [][SilentWhenExpired]_eventsServerVars

=============================================================================
