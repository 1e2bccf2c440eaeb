--------------------------- MODULE ChannelMapping ---------------------------
(***************************************************************************)
(* Activations of IS-08 channel mappings: POST and DELETE of activations   *)
(* (nmos/channelmapping_api.cpp), the wait for immediate ones (nmos/       *)
(* activation_utils.cpp) and the thread that performs immediate and        *)
(* scheduled ones (nmos/channelmapping_activation.cpp).                    *)
(*                                                                         *)
(* An activation is distributed across the staged endpoints of the outputs *)
(* it is for.  Everything between two waits is done with model.mutex held  *)
(* exclusively, and is one action.                                         *)
(*                                                                         *)
(* Abstracted: a request and its activation are one number; GET changes    *)
(* nothing and is left out, and so are the IS-04 versions of sources and   *)
(* devices, removal of an output and shutdown.                             *)
(***************************************************************************)
EXTENDS Integers, FiniteSets, SequencesExt

CONSTANTS
    Output, Input,
    Unrouted,       \* the route of an output channel that has no input
    Channels,       \* how many channels each input and output has
    Routable,       \* the inputs, or Unrouted, that each output can be routed from
    BlockSize,      \* capabilities of each input: the size of its blocks,
    Reordering,     \*   and whether its channels can be reordered
    InitialMap,     \* the active map of each output at first
    Bodies,         \* the requests that may be made
    Late,           \* can the thread be so late that a handler stops waiting?
    MaxRequests     \* bound: requests made

\* Channels are numbered from 0.
Channel(io) == 0..(Channels[io] - 1)

\* Input channels, those that do not exist included, and none
Route == (Input \X Nat) \cup {Unrouted}

Modes == {"immediate", "scheduled"}

ASSUME MappingAssumption ==
    /\ Output \cap Input = {}
    /\ Unrouted \notin Input \cup (Input \X Nat)
    /\ Channels \in [Output \cup Input -> Nat]
    /\ Routable \in [Output -> SUBSET (Input \cup {Unrouted})]
    /\ BlockSize \in [Input -> Nat \ {0}]
    /\ Reordering \in [Input -> BOOLEAN]
    /\ DOMAIN InitialMap = Output
    /\ \A o \in Output : InitialMap[o] \in [Channel(o) -> Route]
    /\ Late \in BOOLEAN
    /\ MaxRequests \in Nat

\* The members of the action's JSON object, in the order they are gone through
ASSUME BodyAssumption ==
    \A b \in Bodies :
        /\ b.mode \in Modes
        /\ b.action \in Seq(Range(b.action)) \ {<<>>}
        /\ \A i \in DOMAIN b.action :
            LET m == b.action[i] IN
            m.output \in Output /\ \A c \in DOMAIN m.patch : c \in Nat /\ m.patch[c] \in Route
        /\ \A i, j \in DOMAIN b.action : b.action[i].output = b.action[j].output => i = j

Request == 1..MaxRequests

\* What the capabilities promise of a map: channels come from inputs that the
\* output can be routed from; of a block all channels are routed to the output
\* or none is; an input that cannot reorder has one offset.
MeetsConstraints(o, map) ==
    LET From(i) == {c \in DOMAIN map : map[c] # Unrouted /\ map[c][1] = i} IN
    /\ DOMAIN map = Channel(o)
    /\ \A c \in DOMAIN map : IF map[c] = Unrouted THEN Unrouted \in Routable[o]
                             ELSE map[c][1] \in Routable[o] /\ map[c][2] \in Channel(map[c][1])
    /\ \A i \in Input :
        /\ \A c \in From(i), k \in Channel(i) :
            k \div BlockSize[i] = map[c][2] \div BlockSize[i]
                => \E d \in From(i) : map[d][2] = k
        /\ Reordering[i] \/ \A c, d \in From(i) : map[c][2] - c = map[d][2] - d

\* The application sets up its outputs so.
ASSUME InitialMapAssumption == \A o \in Output : MeetsConstraints(o, InitialMap[o])

None == 0

VARIABLES
    staged,     \* the staged activation of each output
    active,     \* its active map
    body,       \* the body of each request that has been made
    pc,         \* where its handler is
    pos,        \* the member of the action that it waits for
    result,     \* its reply; later, of a scheduled one, what became of it
    due,        \* activations whose scheduled time has passed
    fresh,      \* most_recent_update < most_recent_update(channelmapping_resources)
    armed,      \* activations that earliest_scheduled_activation accounts for
    signalled,  \* waiting requests, or the thread, that have been notified
    applied     \* history: the outputs on which each activation became active

outputs == <<staged, active, applied>>

requests == <<body, pc, pos, result>>

thread == <<fresh, armed>>

vars == <<outputs, requests, due, thread, signalled>>

Thread == 0     \* the activation thread, among those that wait

NoPatch == <<>>

Patch == {NoPatch} \cup UNION {{b.action[i].patch : i \in DOMAIN b.action} : b \in Bodies}

Activation == [mode : Modes \cup {"null"}, id : Request \cup {None}, patch : Patch, done : BOOLEAN]

NotPending == [mode |-> "null", id |-> None, patch |-> NoPatch, done |-> FALSE]

NoBody == [mode |-> "immediate", action |-> <<>>]

Members(b) == {b.action[i].output : i \in DOMAIN b.action}

\* merge_patch: the channels that are in the patch are replaced.
Merged(map, patch) == [c \in DOMAIN map |-> IF c \in DOMAIN patch THEN patch[c] ELSE map[c]]

-----------------------------------------------------------------------------
(* Validation of a request *)

\* validate_output_caps: each channel exists, on the output and on an input it
\* can be routed from.
OutputCaps(o, patch) ==
    \A c \in DOMAIN patch :
        /\ c \in Channel(o)
        /\ IF patch[c] = Unrouted
           THEN Unrouted \in Routable[o]
           ELSE patch[c][1] \in Routable[o] /\ patch[c][2] < Channels[patch[c][1]]

\* The state of validate_input_caps before the first channel
NoInput == [ok |-> TRUE, input |-> Unrouted, block |-> {}, last |-> 0, offset |-> [i \in {} |-> 0]]

\* The channels of the current block are all there.
BlockIsComplete(s) == s.input # Unrouted => Cardinality(s.block) = BlockSize[s.input]

\* The next channel c of the output, which comes from channel k of an input i.
\* Those of the current block are in order if the input cannot reorder them.
NextChannel(s, c, i, k) ==
    LET size   == BlockSize[i]
        other  == i # s.input
        block  == IF other \/ Cardinality(s.block) = size THEN {} ELSE s.block
        fixed  == ~Reordering[i]
        offset == IF other /\ fixed /\ i \notin DOMAIN s.offset
                  THEN [j \in DOMAIN s.offset \cup {i} |-> IF j = i THEN k - c ELSE s.offset[j]]
                  ELSE s.offset
    IN
    [ok     |-> /\ s.ok
                /\ other => BlockIsComplete(s)
                /\ other /\ fixed => k % size = 0
                /\ fixed => offset[i] = k - c
                /\ \A j \in block : k \div size = j \div size
                /\ fixed /\ block # {} => k = s.last + 1
                /\ k \notin block,
     input  |-> i,
     block  |-> block \cup {k},
     last   |-> k,
     offset |-> offset]

\* validate_input_caps: the channels of the output are gone through in order.
InputCaps(o, map) ==
    LET upto[n \in 0..Channels[o]] ==
            IF n = 0 THEN NoInput
            ELSE IF map[n - 1] = Unrouted THEN upto[n - 1]
            ELSE NextChannel(upto[n - 1], n - 1, map[n - 1][1], map[n - 1][2])
        last == upto[Channels[o]]
    IN  last.ok /\ BlockIsComplete(last)

\* validate_output_not_locked
NotLocked(o) == staged[o].mode = "null"

\* Mistaken: the patch is validated on its own, as if nothing were routed.
ValidAlone(o, patch) ==
    OutputCaps(o, patch) /\ InputCaps(o, Merged([c \in Channel(o) |-> Unrouted], patch))

\* A member of the action meets the constraints of its output and its inputs.
ValidMember(o, patch) == OutputCaps(o, patch) /\ InputCaps(o, Merged(active[o], patch))

ValidAction(b) ==
    \A i \in DOMAIN b.action :
        LET m == b.action[i] IN NotLocked(m.output) /\ ValidMember(m.output, m.patch)

-----------------------------------------------------------------------------
(* The handlers of POST and DELETE *)

Waiting(q) == pc[q] = "await"

\* model.notify(), by a request that is not waiting itself
Notify(q) == signalled' = (signalled \cup {p \in Request : Waiting(p)} \cup {Thread}) \ {q}

NextRequest(q) == pc[q] = "none" /\ \A p \in Request : p < q => pc[p] # "none"

Init ==
    /\ staged = [o \in Output |-> NotPending]
    /\ active = InitialMap
    /\ applied = [q \in Request |-> {}]
    /\ body = [q \in Request |-> NoBody]
    /\ pc = [q \in Request |-> "none"]
    /\ pos = [q \in Request |-> 1]
    /\ result = [q \in Request |-> "none"]
    /\ due = {}
    /\ fresh = FALSE
    /\ armed = {}
    /\ signalled = {}

\* The request is refused as a whole: 400 Bad Request, 423 Locked, or what the
\* application's validation threw.
PostRefused(q, b) ==
    /\ NextRequest(q)
    /\ body' = [body EXCEPT ![q] = b]
    /\ pc' = [pc EXCEPT ![q] = "replied"]
    /\ result' = [result EXCEPT ![q] = "refused"]
    /\ UNCHANGED <<outputs, pos, due, thread, signalled>>

\* Mistaken: the activation id is not set.
StagedUnnamed(q, b, o) == [NotPending EXCEPT !.mode = b.mode]

\* merge_activation, for one member of the action
Staged(q, b, o) ==
    [mode |-> b.mode, id |-> q, done |-> FALSE,
     patch |-> LET i == CHOOSE j \in DOMAIN b.action : b.action[j].output = o IN b.action[i].patch]

\* Every output is staged.  202 Accepted for a scheduled activation; for an
\* immediate one the handler waits for its first output.
Post(q, b) ==
    /\ NextRequest(q)
    /\ ValidAction(b)
    /\ staged' = [o \in Output |-> IF o \in Members(b) THEN Staged(q, b, o) ELSE staged[o]]
    /\ body' = [body EXCEPT ![q] = b]
    /\ pc' = [pc EXCEPT ![q] = IF b.mode = "immediate" THEN "await" ELSE "replied"]
    /\ result' = [result EXCEPT ![q] = IF b.mode = "immediate" THEN "none" ELSE "accepted"]
    /\ fresh' = TRUE
    /\ Notify(q)
    /\ UNCHANGED <<active, applied, pos, due, armed>>

Awaited(q) == body[q].action[pos[q]].output

\* The staged activation is the one of the request.
Own(q, o) == staged[o].mode = "immediate" /\ staged[o].id = q

\* Mistaken: the handler does not wait.
NoWait(q, o) == TRUE

\* wait_activation_modified: the staged activation is not what was requested.
Modified(q, o) == ~Own(q, o) \/ staged[o].done

\* The first output, of those not seen to yet, whose activation is not there to
\* be reported
Stop(q) ==
    LET action == body[q].action IN
    Min({i \in pos[q]..Len(action) : LET o == action[i].output IN ~Own(q, o) \/ ~Modified(q, o)}
          \cup {Len(action) + 1})

\* handle_immediate_activation_pending for one output after the other: its
\* activation is reported, and unlocked.  The handler waits again for one that
\* is not modified yet.  For one that is no longer its own it throws, and the
\* remaining outputs are left as they are.
Finish(q) ==
    LET action   == body[q].action
        stop     == Stop(q)
        reported == {action[i].output : i \in pos[q]..(stop - 1)}
        last     == stop > Len(action)
        throws   == ~last /\ ~Own(q, action[stop].output)
    IN
    /\ Waiting(q)
    /\ Modified(q, Awaited(q))
    /\ staged' = [o \in Output |-> IF o \in reported THEN NotPending ELSE staged[o]]
    /\ fresh' = (fresh \/ reported # {})
    /\ pos' = [pos EXCEPT ![q] = IF last THEN @ ELSE stop]
    /\ pc' = [pc EXCEPT ![q] = IF last \/ throws THEN "replied" ELSE "await"]
    /\ result' = [result EXCEPT ![q] = IF last THEN "ok" ELSE IF throws THEN "error" ELSE @]
    /\ IF reported # {} THEN Notify(q) ELSE signalled' = signalled \ {q}
    /\ UNCHANGED <<active, applied, body, due, armed>>

\* immediate_activation_max has passed: 500 Internal Error.
Timeout(q) ==
    /\ Late
    /\ Waiting(q)
    /\ ~Modified(q, Awaited(q))
    /\ pc' = [pc EXCEPT ![q] = "replied"]
    /\ result' = [result EXCEPT ![q] = "error"]
    /\ signalled' = signalled \ {q}
    /\ UNCHANGED <<outputs, body, pos, due, thread>>

\* Mistaken: the search ends at the first output.
OneScheduledFor(q) ==
    LET S == {o \in Output : staged[o].mode = "scheduled" /\ staged[o].id = q}
    IN  IF S = {} THEN {} ELSE {CHOOSE o \in S : TRUE}

\* The outputs on which a scheduled activation is pending
ScheduledFor(q) == {o \in Output : staged[o].mode = "scheduled" /\ staged[o].id = q}

\* DELETE of an activation: nobody is notified.
Delete(q) ==
    /\ ScheduledFor(q) # {}
    /\ staged' = [o \in Output |-> IF o \in ScheduledFor(q) THEN NotPending ELSE staged[o]]
    /\ result' = [result EXCEPT ![q] = "deleted"]
    /\ due' = due \ {q}
    /\ fresh' = TRUE
    /\ UNCHANGED <<active, applied, body, pc, pos, armed, signalled>>

-----------------------------------------------------------------------------
(* channelmapping_activation_thread *)

\* Immediate activations that are not processed yet, and scheduled ones whose
\* time has passed
Pending ==
    {o \in Output : \/ staged[o].mode = "immediate" /\ ~staged[o].done
                    \/ staged[o].mode = "scheduled" /\ staged[o].id \in due}

\* Activations that are scheduled
Scheduled == {q \in Request : ScheduledFor(q) # {}}

\* Mistaken: the thread does not work out when to wake next.
NothingScheduled == {}

\* What earliest_scheduled_activation is to account for
NextScheduled == Scheduled \ due

\* One pass over the outputs.  The application's callback throws for those in
\* failed: they are unlocked, but their maps have changed.
Pass(failed) ==
    /\ fresh \/ armed \cap due # {}
    /\ failed \subseteq Pending
    /\ active' = [o \in Output |->
                    IF o \in Pending THEN Merged(active[o], staged[o].patch) ELSE active[o]]
    /\ applied' = [q \in Request |-> applied[q] \cup {o \in Pending : staged[o].id = q}]
    /\ staged' = [o \in Output |->
                    IF o \notin Pending THEN staged[o]
                    ELSE IF staged[o].mode = "scheduled" \/ o \in failed THEN NotPending
                    ELSE [staged[o] EXCEPT !.done = TRUE]]
    /\ due' = due \ {staged[o].id : o \in Pending}
    /\ armed' = NextScheduled
    /\ fresh' = FALSE
    /\ signalled' = (signalled \cup {q \in Request : Pending # {} /\ Waiting(q)}) \ {Thread}
    /\ UNCHANGED requests

\* The clock passes the time of a scheduled activation.
Elapse(q) ==
    /\ q \in Scheduled \ due
    /\ due' = due \cup {q}
    /\ UNCHANGED <<outputs, requests, thread, signalled>>

\* A notified waiter finds its predicate false, and waits again.
WakeInVain(w) ==
    /\ w \in signalled
    /\ IF w = Thread THEN ~fresh ELSE Waiting(w) /\ ~Modified(w, Awaited(w))
    /\ signalled' = signalled \ {w}
    /\ UNCHANGED <<outputs, requests, due, thread>>

Activate == \E failed \in SUBSET Output : Pass(failed)

Next ==
    \/ \E q \in Request, b \in Bodies : PostRefused(q, b) \/ Post(q, b)
    \/ \E q \in Request : Finish(q) \/ Timeout(q) \/ Delete(q) \/ Elapse(q)
    \/ Activate
    \/ \E w \in Request \cup {Thread} : WakeInVain(w)

Spec == Init /\ [][Next]_vars

\* A handler goes on when it is notified, the thread when it is notified or it is
\* time.
Fairness ==
    /\ \A q \in Request : WF_vars(q \in signalled /\ Finish(q))
    /\ WF_vars((Thread \in signalled \/ armed \cap due # {}) /\ Activate)
    /\ \A q \in Request : WF_vars(Elapse(q))

FairSpec == Spec /\ Fairness

-----------------------------------------------------------------------------
(* Properties *)

\* Types; an output is locked by a request that staged it, and a scheduled
\* activation that is due is pending.
TypeOK ==
    /\ staged \in [Output -> Activation]
    /\ \A o \in Output :
        /\ staged[o].mode = "null" <=> staged[o].id = None
        /\ staged[o].mode # "null" => o \in Members(body[staged[o].id])
    /\ DOMAIN active = Output
    /\ \A o \in Output : active[o] \in [Channel(o) -> Route]
    /\ body \in [Request -> Bodies \cup {NoBody}]
    /\ pc \in [Request -> {"none", "await", "replied"}]
    /\ pos \in [Request -> Nat]
    /\ \A q \in Request : pos[q] \in 1..(Len(body[q].action) + 1)
    /\ result \in [Request -> {"none", "refused", "accepted", "deleted", "ok", "error"}]
    /\ due \subseteq Scheduled
    /\ fresh \in BOOLEAN
    /\ armed \subseteq Request
    /\ signalled \subseteq Request \cup {Thread}
    /\ applied \in [Request -> SUBSET Output]

\* "Validate constraints": every active map meets the constraints at all times,
\* although an action is validated against the map that is active when it is
\* posted and merged into the one that is active when it takes effect.
ActiveMeetsConstraints == \A o \in Output : MeetsConstraints(o, active[o])

\* An activation of several outputs becomes active on all of them at once or on
\* none, is listed for all of them until then, and never again afterwards,
\* whatever is posted or deleted meanwhile.
AllOrNothing ==
    \A q \in Request :
        /\ applied[q] \in {{}, Members(body[q])}
        /\ ScheduledFor(q) \in {{}, Members(body[q])}
        /\ ScheduledFor(q) # {} => applied[q] = {}

\* A reply is true: of an immediate activation that is reported every output has
\* become active, and of one that is refused or deleted none ever does.
RepliesTrue ==
    \A q \in Request :
        /\ result[q] = "ok" => applied[q] = Members(body[q])
        /\ result[q] \in {"refused", "deleted"} =>
            /\ applied[q] = {}
            /\ \A o \in Output : staged[o].id # q

\* Every request is answered, and every scheduled activation performed or
\* deleted in the end.
ActivationsEnd ==
    \A q \in Request :
        /\ Waiting(q) ~> pc[q] = "replied"
        /\ ScheduledFor(q) # {} ~> ScheduledFor(q) = {}

\* "an in-flight immediate activation will also cause any subsequent activation
\* of the same output(s) to receive 423 Locked until the immediate activation
\* is finished": no output stays locked by a request that has been answered.
LockReleased == \A o \in Output : staged[o].mode = "immediate" => Waiting(staged[o].id)

=============================================================================
