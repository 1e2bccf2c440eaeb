----------------------------- MODULE Connection -----------------------------
(***************************************************************************)
(* PATCH of the staged parameters of IS-05 senders and receivers, single   *)
(* or in a bulk request (nmos/connection_api.cpp, nmos/activation_utils    *)
(* .cpp), and the thread that performs their immediate and scheduled       *)
(* activations (nmos/connection_activation.cpp).                           *)
(*                                                                         *)
(* A request holds model.mutex exclusively from one wait to the next: it   *)
(* is the holder, and each of its items is one action.  Every wait gives   *)
(* the mutex up, so that other requests and the thread run then.           *)
(*                                                                         *)
(* Abstracted: parameters are the item that staged them, and the IS-04     *)
(* subscription, which changes with them, is one with the active           *)
(* parameters; an activation time is only set or not; GET changes nothing  *)
(* and is left out, and so are removal of a resource and shutdown.         *)
(***************************************************************************)
EXTENDS Naturals, Sequences, FiniteSets

CONSTANTS
    Resource,       \* ids of senders and receivers
    Bodies,         \* the item sequences a request may have; one is "single"
    MaxItems,       \* bound: items of a request
    MaxRequests,    \* bound: requests made,
    MaxStarved      \*   and made of a starved thread

Kinds == {"stage", "cancel", "immediate", "scheduled"}

ASSUME ParameterAssumption ==
    /\ Bodies \subseteq Seq([res : Resource, kind : Kinds])
    /\ MaxItems \in Nat
    /\ \A b \in Bodies : Len(b) \in 1..MaxItems
    /\ MaxRequests \in Nat
    /\ MaxStarved \in 0..MaxRequests

\* Requests are numbered in the order of their request times.
Request == 1..MaxRequests

None == 0   \* no request

VARIABLES
    staged,     \* the staged endpoint of each resource
    active,     \* its active endpoint
    body,       \* the items of each request
    pc,         \* where its handler is
    pos,        \* the item it is at
    results,    \* the results of its items
    holder,     \* the request that holds model.mutex, or None
    due,        \* resources whose scheduled activation time has passed
    fresh,      \* most_recent_update < most_recent_update(connection_resources)
    armed,      \* resources that earliest_scheduled_activation accounts for
    signalled,  \* waiting requests, or the thread, that have been notified
    starved,    \* can the thread be kept from the mutex for so long that a
                \* handler gives up an activation it has asked for?
    count       \* history: how often the parameters of an item became active

resources == <<staged, active, due, count>>

handlers == <<body, pc, pos, results>>

thread == <<fresh, armed>>

vars == <<resources, handlers, holder, thread, signalled, starved>>

Thread == 0     \* the activation thread, among those that wait

Items == Request \X (1..MaxItems)

NotPending(params) == [params |-> params, mode |-> "null", request |-> None, done |-> FALSE]

\* It has been activated: its activation_time is set.
Processed(s) == [params |-> s.params, mode |-> s.mode, request |-> s.request, done |-> TRUE]

Initial == <<None, 1>>

Item(q) == body[q][pos[q]]

\* merge_activation: what the patch makes of the staged endpoint
Merged(q) ==
    LET params == <<q, pos[q]>> IN
    IF Item(q).kind \in {"immediate", "scheduled"}
    THEN [params |-> params, mode |-> Item(q).kind, request |-> q, done |-> FALSE]
    ELSE NotPending(params)

Immediate(r) == staged[r].mode = "immediate"

Scheduled == {r \in Resource : staged[r].mode = "scheduled"}

Waiters == {q \in Request : pc[q] \in {"blocked", "await"}}

\* model.notify(), by a request that is not waiting itself
Notify(q) == signalled' = (signalled \cup Waiters \cup {Thread}) \ {q}

Init ==
    /\ staged = [r \in Resource |-> NotPending(Initial)]
    /\ active = [r \in Resource |-> Initial]
    /\ body = [q \in Request |-> <<>>]
    /\ pc = [q \in Request |-> "none"]
    /\ pos = [q \in Request |-> 1]
    /\ results = [q \in Request |-> <<>>]
    /\ holder = None
    /\ due = {}
    /\ fresh = FALSE
    /\ armed = {}
    /\ signalled = {}
    /\ starved \in BOOLEAN
    /\ count = [i \in Items |-> 0]

-----------------------------------------------------------------------------
(* The handlers of PATCH and of bulk POST *)

\* The handler has the mutex, and the request time, which is later than others.
Receive(q, items) ==
    /\ holder = None
    /\ pc[q] = "none"
    /\ starved => q <= MaxStarved
    /\ \A p \in Request : p < q => pc[p] # "none"
    /\ holder' = q
    /\ pc' = [pc EXCEPT ![q] = "patch"]
    /\ body' = [body EXCEPT ![q] = items]
    /\ UNCHANGED <<resources, pos, results, thread, signalled, starved>>

\* The item has its result.  After the last one the thread is notified: by a
\* bulk request always, by a single one if it was successful.
Record(q, result) ==
    LET last == pos[q] = Len(body[q]) IN
    /\ results' = [results EXCEPT ![q] = Append(@, result)]
    /\ pos' = [pos EXCEPT ![q] = IF last THEN 1 ELSE @ + 1]
    /\ pc' = [pc EXCEPT ![q] = IF last THEN "collect" ELSE "patch"]
    /\ holder' = q
    /\ IF last /\ (Len(body[q]) > 1 \/ result = "ok")
       THEN Notify(q)
       ELSE signalled' = signalled \ {q}
    /\ body' = body

\* The patch is merged and valid: the staged endpoint is updated.
Stage(q) ==
    LET r == Item(q).res IN
    /\ staged' = [staged EXCEPT ![r] = Merged(q)]
    /\ due' = due \ {r}
    /\ fresh' = TRUE
    /\ Record(q, "ok")
    /\ UNCHANGED <<active, count, armed, starved>>

\* It is refused, or an exception is thrown: nothing is changed.
Refuse(q) ==
    /\ Record(q, "error")
    /\ UNCHANGED <<resources, thread, starved>>

\* A scheduled activation is outstanding: 423 Locked.
PatchLocked(q) ==
    /\ holder = q /\ pc[q] = "patch"
    /\ staged[Item(q).res].mode = "scheduled"
    /\ Item(q).kind # "cancel"
    /\ Refuse(q)

\* An earlier item of the same request is activated: 400 Bad Request.
PatchSame(q) ==
    /\ holder = q /\ pc[q] = "patch"
    /\ Immediate(Item(q).res)
    /\ staged[Item(q).res].request = q
    /\ Refuse(q)

\* Mistaken: the mutex is not released for the wait.
PatchBlocksAll(q) ==
    /\ holder = q /\ pc[q] = "patch"
    /\ Immediate(Item(q).res)
    /\ staged[Item(q).res].request # q
    /\ pc' = [pc EXCEPT ![q] = "blocked"]
    /\ UNCHANGED <<resources, body, pos, results, holder, thread, signalled, starved>>

\* wait_immediate_activation_not_pending
PatchBlocks(q) ==
    /\ holder = q /\ pc[q] = "patch"
    /\ Immediate(Item(q).res)
    /\ staged[Item(q).res].request # q
    /\ pc' = [pc EXCEPT ![q] = "blocked"]
    /\ holder' = None
    /\ UNCHANGED <<resources, body, pos, results, thread, signalled, starved>>

Patch(q) ==
    /\ holder = q /\ pc[q] = "patch"
    /\ ~Immediate(Item(q).res)
    /\ staged[Item(q).res].mode = "scheduled" => Item(q).kind = "cancel"
    /\ Stage(q)

\* The patch does not match the schema, the constraints or the application's
\* own validation, or the resource is not there: a 4xx or 5xx result.
PatchInvalid(q) ==
    /\ holder = q /\ pc[q] = "patch"
    /\ Refuse(q)

\* The wait is over: what follows the wait does not look for a scheduled
\* activation again.
Unblocked(q) ==
    /\ holder = None /\ pc[q] = "blocked"
    /\ ~Immediate(Item(q).res)
    /\ Stage(q) \/ Refuse(q)

\* Mistaken: the wait has no timeout.
NoTimeout(q) == FALSE

\* immediate_activation_max has passed: 500 Internal Error.
BlockedTimeout(q) ==
    /\ holder = None /\ pc[q] = "blocked"
    /\ Immediate(Item(q).res)
    /\ Refuse(q)

\* Mistaken: the reply does not wait for the last activation.
RemainingFirst(q, i) ==
    {j \in i..(Len(body[q]) - 1) : results[q][j] = "ok" /\ body[q][j].kind = "immediate"}

\* The items from the i-th on whose immediate activation is to be awaited
Remaining(q, i) ==
    {j \in i..Len(body[q]) : results[q][j] = "ok" /\ body[q][j].kind = "immediate"}

First(S) == CHOOSE i \in S : \A j \in S : i <= j

\* The staged activation is not what the item made of it.
Modified(q, i) ==
    LET s == staged[body[q][i].res] IN
    s.mode # "immediate" \/ s.request # q \/ s.done

\* Mistaken: any change of the activation is taken for its success.
Anyones(q, i) == TRUE

\* The staged activation of the item is still the one it asked for.
Own(q, i) == Immediate(body[q][i].res) /\ staged[body[q][i].res].request = q

\* handle_immediate_activation_pending, when the wait is over: the activation
\* is reported, and the resource unlocked, if it is still the one of the item.
Finish(q, i) ==
    LET r    == body[q][i].res
        mine == Own(q, i)
    IN
    /\ staged' = IF mine THEN [staged EXCEPT ![r] = NotPending(@.params)] ELSE staged
    /\ fresh' = (fresh \/ mine)
    /\ results' = IF mine THEN results ELSE [results EXCEPT ![q][i] = "error"]
    /\ IF mine THEN Notify(q) ELSE signalled' = signalled \ {q}
    /\ pos' = [pos EXCEPT ![q] = i + 1]
    /\ pc' = [pc EXCEPT ![q] = "collect"]
    /\ holder' = q
    /\ UNCHANGED <<active, due, count, body, armed, starved>>

\* The next item whose activation is awaited, if there is one, or the reply
Collect(q) ==
    LET todo == Remaining(q, pos[q]) IN
    /\ holder = q /\ pc[q] = "collect"
    /\ IF todo # {} /\ Modified(q, First(todo))
       THEN Finish(q, First(todo))
       ELSE /\ holder' = None
            /\ pc' = [pc EXCEPT ![q] = IF todo = {} THEN "replied" ELSE "await"]
            /\ pos' = [pos EXCEPT ![q] = IF todo = {} THEN 1 ELSE First(todo)]
            /\ UNCHANGED <<resources, body, results, thread, signalled, starved>>

\* wait_activation_modified returns
Awaited(q) ==
    /\ holder = None /\ pc[q] = "await"
    /\ Modified(q, pos[q])
    /\ Finish(q, pos[q])

\* immediate_activation_max has passed: 500 Internal Error.
AwaitTimeout(q) ==
    /\ starved
    /\ holder = None /\ pc[q] = "await"
    /\ ~Modified(q, pos[q])
    /\ results' = [results EXCEPT ![q][pos[q]] = "error"]
    /\ pos' = [pos EXCEPT ![q] = @ + 1]
    /\ pc' = [pc EXCEPT ![q] = "collect"]
    /\ holder' = q
    /\ signalled' = signalled \ {q}
    /\ UNCHANGED <<resources, body, thread, starved>>

-----------------------------------------------------------------------------
(* connection_activation_thread *)

\* Mistaken: an immediate activation that is processed is processed again.
PendingAgain ==
    {r \in Resource : Immediate(r) /\ staged[r].request # None} \cup (Scheduled \cap due)

\* Immediate activations that are neither processed nor cancelled, and
\* scheduled ones whose time has passed
Pending ==
    {r \in Resource : Immediate(r) /\ staged[r].request # None /\ ~staged[r].done}
        \cup (Scheduled \cap due)

\* Mistaken: the thread does not work out when to wake next.
NothingNext == {}

\* The resources that earliest_scheduled_activation is to account for
NextScheduled == Scheduled \ due

\* One pass over the resources; resolve_auto throws for those in failed, and
\* they are unlocked without becoming active.
Pass(failed) ==
    LET done == Pending \ failed IN
    /\ holder = None
    /\ fresh \/ armed \cap due # {}
    /\ failed \subseteq Pending
    /\ staged' = [r \in Resource |->
                    IF r \in done /\ Immediate(r) THEN Processed(staged[r])
                    ELSE IF r \in Pending THEN NotPending(staged[r].params)
                    ELSE staged[r]]
    /\ active' = [r \in Resource |-> IF r \in done THEN staged[r].params ELSE active[r]]
    /\ count' = [i \in Items |-> IF \E r \in done : staged[r].params = i THEN count[i] + 1 ELSE count[i]]
    /\ due' = due \ Pending
    /\ armed' = NextScheduled
    /\ fresh' = FALSE
    /\ signalled' = IF Pending # {} THEN (signalled \cup Waiters) \ {Thread} ELSE signalled \ {Thread}
    /\ UNCHANGED <<handlers, holder, starved>>

\* The clock passes the time of a scheduled activation.
Elapse(r) ==
    /\ r \in Scheduled \ due
    /\ due' = due \cup {r}
    /\ UNCHANGED <<staged, active, count, handlers, holder, thread, signalled, starved>>

-----------------------------------------------------------------------------
\* A notified waiter finds its predicate false, and waits again.
WakeInVain(w) ==
    /\ holder = None
    /\ w \in signalled
    /\ IF w = Thread THEN ~fresh
       ELSE IF pc[w] = "blocked" THEN Immediate(Item(w).res)
       ELSE ~Modified(w, pos[w])
    /\ signalled' = signalled \ {w}
    /\ UNCHANGED <<resources, handlers, holder, thread, starved>>

Handle(q) == PatchLocked(q) \/ PatchSame(q) \/ PatchBlocks(q) \/ Patch(q) \/ PatchInvalid(q) \/ Collect(q)

Activate == \E failed \in SUBSET Resource : Pass(failed)

Next ==
    \/ \E q \in Request, items \in Bodies : Receive(q, items)
    \/ \E q \in Request :
        Handle(q) \/ Unblocked(q) \/ BlockedTimeout(q) \/ Awaited(q) \/ AwaitTimeout(q)
    \/ Activate
    \/ \E w \in Request \cup {Thread} : WakeInVain(w)
    \/ \E r \in Resource : Elapse(r)

Spec == Init /\ [][Next]_vars

\* A handler that runs goes on; a waiting one wakes if it has been notified, or
\* its timeout passes, and the thread if it has been notified or it is time.
\* Requests are finitely many, so that the mutex is free in the end.
Fairness ==
    /\ WF_vars(\E q \in Request : Handle(q))
    /\ WF_vars(\E q \in Request : BlockedTimeout(q) \/ (q \in signalled /\ (Unblocked(q) \/ Awaited(q))))
    /\ WF_vars((Thread \in signalled \/ armed \cap due # {}) /\ Activate)
    /\ \A r \in Resource : WF_vars(Elapse(r))

FairSpec == Spec /\ Fairness

-----------------------------------------------------------------------------
(* Properties *)

\* Types, and that of the requests at most one, which is not waiting, holds the
\* mutex.
TypeOK ==
    /\ staged \in [Resource -> [params : Items \cup {Initial}, mode : {"null", "immediate", "scheduled"},
                              request : Request \cup {None}, done : BOOLEAN]]
    /\ active \in [Resource -> Items \cup {Initial}]
    /\ body \in [Request -> Bodies \cup {<<>>}]
    /\ pc \in [Request -> {"none", "patch", "blocked", "collect", "await", "replied"}]
    /\ pos \in [Request -> 1..(MaxItems + 1)]
    /\ results \in [Request -> Seq({"ok", "error"})]
    /\ \A q \in Request : Len(results[q]) <= Len(body[q])
    /\ holder \in Request \cup {None}
    /\ \A q \in Request : holder = q <=> pc[q] \in {"patch", "collect"}
    /\ due \subseteq Scheduled
    /\ fresh \in BOOLEAN
    /\ armed \subseteq Resource
    /\ signalled \subseteq Waiters \cup {Thread}
    /\ starved \in BOOLEAN
    /\ count \in [Items -> Nat]

\* "If it's successful, the activation_time [...] will be used in the response.
\* If it fails, [...] an error response is sent": the answer to an immediate
\* activation is success only if its parameters became active, whatever other
\* requests and activations came in between, and failure only if they did not,
\* or if the thread was so late that the request stopped waiting for it.
Outcome ==
    \A q \in Request : pc[q] = "replied" =>
        \A i \in 1..Len(body[q]) : body[q][i].kind = "immediate" =>
            /\ results[q][i] = "ok" => count[<<q, i>>] = 1
            /\ count[<<q, i>>] = 1 => results[q][i] = "ok" \/ starved

\* No parameters become active twice, by the two activations of an item that
\* overlap, nor those of an item that did not ask for it or was cancelled.
ActivatedOnce ==
    \A q \in Request : \A i \in 1..MaxItems :
        count[<<q, i>>] <= IF i <= Len(body[q]) /\ body[q][i].kind \in {"immediate", "scheduled"}
                          THEN 1 ELSE 0

\* The "per-resource lock" always has an owner that will release it: a request
\* that has not been answered, whose item is the one that is staged and whose
\* activation is still to be reported; unless its request stopped waiting.
LockOwned ==
    ~starved => \A r \in Resource : Immediate(r) =>
        LET q == staged[r].request IN
        /\ pc[q] \notin {"none", "replied"}
        /\ \E i \in 1..Len(results[q]) :
            /\ staged[r].params = <<q, i>>
            /\ results[q][i] = "ok"
            /\ pc[q] \in {"collect", "await"} => pos[q] <= i

\* Every request is answered, those that wait for one another included.
Answered == \A q \in Request : (pc[q] # "none") ~> (pc[q] = "replied")

\* A scheduled activation is performed or cancelled in the end.
ScheduledEnds == \A r \in Resource : (staged[r].mode = "scheduled") ~> (staged[r].mode # "scheduled")

\* "Reject any patch, other than cancellation, when a scheduled activation is
\* outstanding."
ScheduledLocked ==
    [][\A r \in Resource : \A q \in Request :
        staged[r].mode = "scheduled" /\ holder' = q /\ staged'[r] # staged[r]
            => body[q][pos[q]].kind = "cancel"]_vars

=============================================================================
