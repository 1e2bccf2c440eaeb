-------------------------- MODULE ControlProtocol --------------------------
(***************************************************************************)
(* The sessions of the control protocol (IS-12):                           *)
(* nmos/control_protocol_ws_api.cpp, with the methods that set, add and    *)
(* remove items of a sequence (nmos/control_protocol_methods.cpp) and the  *)
(* requests of the configuration API (nmos/configuration_api.cpp) that     *)
(* change the same device.                                                 *)
(*                                                                         *)
(* A session is a connection with its subscription and its grain, created  *)
(* and erased together; they are one record.  Each handler holds the       *)
(* model's mutex exclusively and is one action, and so is a pass of the    *)
(* thread that sends messages; each message is sent without the lock.      *)
(*                                                                         *)
(* Abstracted: the status of an answer, and methods that change nothing,   *)
(* other than Get; a value is a number.  A pass for the sake of a resource *)
(* that was modified and erased since is a pass all the same.              *)
(***************************************************************************)
EXTENDS Restore

CONSTANTS
    Connection,     \* ids of the connections that clients may make
    Worker,         \* the oids of those workers that anybody asks for
    Changes,        \* the changes made to sequences of items: value changed, or item
                    \*   changed, added or removed
    InitMembers,    \* the members that the block begins with
    DataSets,       \* the data sets that the device is restored from
    Trials,         \* data sets, and what the user's code does then, in three Booleans
    MaxItems,       \* bound: the items of a sequence
    MaxCommands,    \* bound: messages received on a connection
    MaxChanges,     \* bound: changes made to properties
    MaxRestores     \* bound: restores

VARIABLES
    device,     \* the block: its members, and the objects by oid
    wire,       \* each connection: "none", "open" or "closed"
    notice,     \* connections whose close handler is still to run
    grain,      \* the subscription and the grain of each connection
    updated,    \* most_recent_message < most_recent_update(resources)
    notified,   \* will the thread look at that again?
    outgoing,   \* what the thread has taken with it, still to be sent
    copy,       \* what each client believes of each oid, from what it was sent
    asked,      \* history: the messages received on each connection
    answered,   \* history: the answers sent on each connection
    changes,    \* history: the changes made
    restores    \* history: the restores

model == <<device, grain, updated, notified>>

history == <<asked, answered, changes, restores>>

controlProtocolVars == <<device, wire, notice, grain, updated, notified, outgoing, copy, history>>

Oid == Worker \cup {Block}

NoGrain == [there |-> FALSE, oids |-> {}, events |-> <<>>]

Sessions == {c \in Connection : grain[c].there}

Unknown == [is |-> "unknown"]

Existing == {Block} \cup DOMAIN device.objects

\* What a client is told of an oid when it asks: members or properties
Current(oid) ==
    IF oid = Block THEN [is |-> "block", members |-> device.members]
    ELSE [is |-> "worker", object |-> device.objects[oid]]

Init ==
    /\ device = [members |-> InitMembers,
                 objects |-> [o \in {m.oid : m \in InitMembers} |->
                                [role  |-> (CHOOSE m \in InitMembers : m.oid = o).role,
                                 items |-> <<>>, fixed |-> 0, born |-> 0]]]
    /\ wire = [c \in Connection |-> "none"]
    /\ notice = {}
    /\ grain = [c \in Connection |-> NoGrain]
    /\ updated = FALSE
    /\ notified = FALSE
    /\ outgoing = <<>>
    /\ copy = [c \in Connection |-> [o \in Oid |-> Unknown]]
    /\ asked = [c \in Connection |-> 0]
    /\ answered = [c \in Connection |-> 0]
    /\ changes = 0
    /\ restores = 0

-----------------------------------------------------------------------------
(* Changes to a property, and their notifications *)

\* The index must not be out of bounds.
Allowed(change, items) ==
    CASE change.kind \in {"changed", "removed"} -> change.index <= Len(items)
      [] change.kind = "added"                  -> Len(items) < MaxItems
      [] OTHER                                  -> TRUE

\* The sequence afterwards, and what a client makes of the notification
After(change, items) ==
    CASE change.kind = "value"   -> change.items
      [] change.kind = "changed" -> [items EXCEPT ![change.index] = change.value]
      [] change.kind = "added"   -> Append(items, change.value)
      [] change.kind = "removed" -> RemoveAt(items, change.index)

\* Mistaken: the last notification comes first.
LastFirst(events, new) == new \o events

\* insert_notification_events: all sessions that subscribe to the oid are told.
Queued(events, new) == events \o new

Notified(sessions, oid, new) ==
    [c \in Connection |->
        IF sessions[c].there /\ oid \in sessions[c].oids
        THEN [sessions[c] EXCEPT !.events = Queued(@, new)] ELSE sessions[c]]

\* nmos::nc::modify_resource of an object, by one of its methods
Changing(oid, change) ==
    LET items == device.objects[oid].items
        new   == IF Allowed(change, items) THEN After(change, items) ELSE items
    IN
    [device   |-> [device EXCEPT !.objects[oid].items = new],
     sessions |-> IF new = items THEN grain
                  ELSE Notified(grain, oid, <<[is |-> "changed", oid |-> oid, change |-> change]>>)]

-----------------------------------------------------------------------------
(* The handlers of the listener *)

Open(c) ==
    /\ wire[c] = "none"
    /\ wire' = [wire EXCEPT ![c] = "open"]
    /\ grain' = [grain EXCEPT ![c] = [NoGrain EXCEPT !.there = TRUE]]
    /\ updated' = TRUE
    /\ notified' = TRUE
    /\ UNCHANGED <<device, notice, outgoing, copy, history>>

\* The client closes its connection, or it breaks: the client is gone.
Disconnect(c) ==
    /\ wire[c] = "open"
    /\ wire' = [wire EXCEPT ![c] = "closed"]
    /\ notice' = notice \cup {c}
    /\ copy' = [copy EXCEPT ![c] = [o \in Oid |-> Unknown]]
    /\ UNCHANGED <<model, outgoing, history>>

\* The close handler: subscription and grain are erased and forgotten at once.
Close(c) ==
    /\ c \in notice
    /\ notice' = notice \ {c}
    /\ grain' = [grain EXCEPT ![c] = NoGrain]
    /\ notified' = TRUE
    /\ UNCHANGED <<device, wire, updated, outgoing, copy, history>>

\* A message is received, and is always answered, after the notifications of what
\* it has changed.
Answer(c, sessions, answer) ==
    /\ wire[c] = "open" /\ grain[c].there
    /\ asked[c] < MaxCommands
    /\ asked' = [asked EXCEPT ![c] = @ + 1]
    /\ grain' = [sessions EXCEPT ![c].events = Append(@, answer)]
    /\ updated' = TRUE
    /\ notified' = TRUE
    /\ UNCHANGED <<wire, notice, outgoing, copy, answered, restores>>

\* The commands of a message: to change an object.  Should a later one throw something
\* unforeseen, an error is the answer for all, and the change stays.
ChangeCommand(c, oid, change) ==
    /\ oid \in DOMAIN device.objects
    /\ changes < MaxChanges
    /\ Answer(c, Changing(oid, change).sessions, [is |-> "response"])
    /\ device' = Changing(oid, change).device
    /\ changes' = changes + 1

\* Or to get its properties: the same, if it does not exist, as one without effect
GetCommand(c, oid) ==
    /\ Answer(c, grain, IF oid \in Existing THEN [is |-> "got", oid |-> oid, value |-> Current(oid)]
                        ELSE [is |-> "response"])
    /\ UNCHANGED <<device, changes>>

\* A subscription message replaces the oids subscribed to by those that exist.
SubscriptionMessage(c, oids) ==
    /\ Answer(c, [grain EXCEPT ![c].oids = oids \cap Existing], [is |-> "subscribed"])
    /\ UNCHANGED <<device, changes>>

-----------------------------------------------------------------------------
(* The configuration API *)

\* PUT of the value of a property notifies the thread.  PATCH of a method does not.
HttpChange(role, change) ==
    /\ Reachable(device, role) /\ MemberAt(device, role).oid \in Worker
    /\ changes < MaxChanges
    /\ changes' = changes + 1
    /\ LET oid == MemberAt(device, role).oid IN
       /\ device' = Changing(oid, change).device
       /\ grain' = Changing(oid, change).sessions
    /\ updated' = TRUE
    /\ \/ change.kind = "value" /\ notified' = TRUE
       \/ UNCHANGED notified
    /\ UNCHANGED <<wire, notice, outgoing, copy, asked, answered, restores>>

\* The notifications of a restore that has not thrown: of the block's members, and
\* then of the properties of each object that was and is there.
RestoreEvents(after) ==
    LET same == {o \in DOMAIN device.objects \cap DOMAIN after.objects :
                    device.objects[o].born = after.objects[o].born}
    IN
    (IF device.members = after.members THEN <<>>
     ELSE <<[is |-> "members", oid |-> Block, members |-> after.members]>>)
    \o SetToSeq({[is |-> "changed", oid |-> o, change |-> [kind |-> "value", items |-> after.objects[o].items]] :
                    o \in {p \in same : device.objects[p].items # after.objects[p].items}})
    \o SetToSeq({[is |-> "fixed", oid |-> o, fixed |-> after.objects[o].fixed] :
                    o \in {p \in same : device.objects[p].fixed # after.objects[p].fixed}})

\* The user's code does all it is asked to.
Willing == [removes |-> TRUE, creates |-> TRUE, allows |-> TRUE]

\* PUT of bulk properties; after an exception, and the reply 400, the thread is not
\* notified.  PATCH, which validates them, changes nothing.
PutBulk(data) ==
    /\ restores < MaxRestores
    /\ restores' = restores + 1
    /\ LET result == Restored(device, data, Willing, Sessions # {}, FALSE, restores + 1)
           events == IF result.thrown THEN <<>> ELSE RestoreEvents(result.device)
       IN
       /\ device' = result.device
       /\ grain' = FoldLeft(LAMBDA g, e : Notified(g, e.oid, <<e>>), grain, events)
       /\ updated' = (updated \/ device' # device)
       /\ notified' = (notified \/ ~result.thrown)
    /\ UNCHANGED <<wire, notice, outgoing, copy, asked, answered, changes>>

-----------------------------------------------------------------------------
(* send_control_protocol_ws_messages_thread *)

\* One pass over the sessions takes all messages.  When there is no update any more
\* the thread sleeps.  (No connection is there without its grain, which only the
\* close handler erases.)
Pass ==
    /\ outgoing = <<>>
    /\ notified
    /\ LET ready == SetToSeq({c \in Sessions : grain[c].events # <<>>})
           Of(c) == [n \in DOMAIN grain[c].events |-> [to |-> c, event |-> grain[c].events[n]]]
       IN
       IF updated
       THEN /\ outgoing' = FlattenSeq([n \in DOMAIN ready |-> Of(ready[n])])
            /\ grain' = [c \in Connection |-> [grain[c] EXCEPT !.events = <<>>]]
            /\ updated' = (ready # <<>>)
            /\ UNCHANGED notified
       ELSE /\ notified' = FALSE
            /\ UNCHANGED <<grain, updated, outgoing>>
    /\ UNCHANGED <<device, wire, notice, copy, history>>

\* What a client makes of a notification
Renewed(value, event) ==
    CASE event.is = "changed" -> [value EXCEPT !.object.items = After(event.change, @)]
      [] event.is = "fixed"   -> [value EXCEPT !.object.fixed = event.fixed]
      [] event.is = "members" -> [value EXCEPT !.members = event.members]

\* What a client believes after a message.  It believes nothing of what it has been
\* told before it subscribed.
Learned(known, event) ==
    CASE event.is = "subscribed" -> [o \in Oid |-> Unknown]
      [] event.is = "got"        -> [known EXCEPT ![event.oid] = event.value]
      [] event.is = "response"   -> known
      [] OTHER -> IF known[event.oid] = Unknown THEN known
                  ELSE [known EXCEPT ![event.oid] = Renewed(@, event)]

IsAnswer(event) == event.is \in {"response", "got", "subscribed"}

\* A message is sent.  Sending on a connection that is closed fails, which is only
\* logged.
Send ==
    /\ outgoing # <<>>
    /\ LET to    == Head(outgoing).to
           event == Head(outgoing).event
       IN
       IF wire[to] = "open"
       THEN /\ copy' = [copy EXCEPT ![to] = Learned(@, event)]
            /\ answered' = [answered EXCEPT ![to] = @ + IF IsAnswer(event) THEN 1 ELSE 0]
       ELSE UNCHANGED <<copy, answered>>
    /\ outgoing' = Tail(outgoing)
    /\ UNCHANGED <<model, wire, notice, asked, changes, restores>>

-----------------------------------------------------------------------------
Next ==
    \/ \E c \in Connection :
        \/ Open(c) \/ Disconnect(c) \/ Close(c)
        \/ \E oid \in Worker, change \in Changes : ChangeCommand(c, oid, change)
        \/ \E oid \in Oid : GetCommand(c, oid)
        \/ \E oids \in SUBSET Oid : SubscriptionMessage(c, oids)
    \/ \E role \in Role, change \in Changes : HttpChange(role, change)
    \/ \E data \in DataSets : PutBulk(data)
    \/ Pass \/ Send

Spec == Init /\ [][Next]_controlProtocolVars

-----------------------------------------------------------------------------
(* Properties *)

TypeOK ==
    /\ \A m \in device.members : m.role \in Role /\ m.oid \in Nat /\ m.constant \in BOOLEAN
    /\ \A o \in DOMAIN device.objects :
        /\ o \in Nat \ {Block}
        /\ device.objects[o].role \in Role
        /\ Len(device.objects[o].items) \in 0..MaxItems
        /\ device.objects[o].born \in 0..restores
    /\ wire \in [Connection -> {"none", "open", "closed"}]
    /\ notice \subseteq {c \in Connection : wire[c] = "closed"}
    /\ \A c \in Connection :
        /\ grain[c].there \in BOOLEAN
        /\ grain[c].oids \subseteq Oid
        /\ asked[c] \in 0..MaxCommands
    /\ {updated, notified} \subseteq BOOLEAN

\* The messages still to be sent on a connection
Unsent(c) ==
    LET taken == SelectSeq(outgoing, LAMBDA m : m.to = c) IN
    [n \in DOMAIN taken |-> taken[n].event] \o grain[c].events

\* What a client believes of an object it has subscribed to is the object as it is,
\* once it has been sent what is waiting for it: the notifications of changes made
\* by itself, by others, by the configuration API and by a restore, together with
\* the values it has asked for, are in the order of the changes.  (An object that
\* has replaced another with the same oid is known by the members of the block.)
\* And each message has its answer.
ViewCurrent ==
    \A c \in Sessions : wire[c] = "open" =>
        LET view == FoldLeft(Learned, copy[c], Unsent(c)) IN
        /\ \A o \in grain[c].oids \cap Existing :
            \/ view[o] = Unknown
            \/ o # Block /\ view[o].object.born # device.objects[o].born
            \/ view[o] = Current(o)
        /\ answered[c] + Len(SelectSeq(Unsent(c), IsAnswer)) = asked[c]

\* Restores do what they report, and what validation foretells, whether or not there
\* are sessions.  Which device there is does not depend on what has been received on
\* a connection, so that it is enough to look at those where nothing has been yet.
RestoreTrue ==
    (\A c \in Connection : asked[c] = 0) =>
        \A trial \in Trials, sessions \in BOOLEAN :
            LET Of(validate) ==
                    Restored(device, trial.data, trial.callback, sessions, validate, restores + 1)
            IN
            /\ Of(FALSE).thrown \/ Honoured(device, trial.data, Of(FALSE))
            /\ Foretold(device, trial.data, Of(TRUE), Of(FALSE))

\* "unable to delete resource so report the error and don't update block" and "Ignore
\* specified OID and generate new one": the block's members are always the objects
\* there are.
BlocksIntact == Intact(device)

\* "wait for the thread to be interrupted either because there are resource changes,
\* or because the server is being shut down": it never sleeps while there are
\* messages to send.
Woken == ~notified /\ outgoing = <<>> => \A c \in Sessions : grain[c].events = <<>>

=============================================================================
