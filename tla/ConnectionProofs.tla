-------------------------- MODULE ConnectionProofs --------------------------
(***************************************************************************)
(* The safety of Connection for every set of resources, and for requests   *)
(* of every number and length; and that of Transport for every set of      *)
(* endpoints, of any number of legs, and of patches.                       *)
(***************************************************************************)
EXTENDS Connection, DataFacts, TLAPS

-----------------------------------------------------------------------------
(* The inductive invariant *)

\* Where each handler is: one result per item it has dealt with.
Handlers ==
    \A q \in Request :
        /\ pc[q] = "none" => body[q] = <<>> /\ results[q] = <<>> /\ pos[q] = 1
        /\ pc[q] # "none" => body[q] # <<>>
        /\ pc[q] \in {"patch", "blocked"} => pos[q] <= Len(body[q]) /\ Len(results[q]) = pos[q] - 1
        /\ pc[q] \in {"collect", "await", "replied"} => Len(results[q]) = Len(body[q])
        /\ pc[q] = "await" => pos[q] \in Remaining(q, pos[q])

\* What is staged was asked for by an item that has its result.
StagedByItem ==
    \A r \in Resource :
        LET s == staged[r] IN
        /\ s.mode = "null" <=> s.request = None
        /\ s.done => s.mode = "immediate"
        /\ s.mode # "null" =>
            \E i \in DOMAIN results[s.request] :
                /\ s.params = <<s.request, i>>
                /\ body[s.request][i] = [res |-> r, kind |-> s.mode]

\* The staged activation is that of item i of request q.
StagedFor(q, i) ==
    LET r == body[q][i].res IN staged[r].mode # "null" /\ staged[r].params = <<q, i>>

\* An activation that is staged has become active if it is done, and only then;
\* parameters become active once, if their item asked for it and was accepted.
Counted ==
    \A q \in Request : \A i \in 1..MaxItems :
        /\ count[<<q, i>>] \in {0, 1}
        /\ count[<<q, i>>] = 1 =>
            i \in DOMAIN results[q] /\ body[q][i].kind \in {"immediate", "scheduled"}
        /\ i \in DOMAIN results[q] /\ StagedFor(q, i) =>
            (count[<<q, i>>] = 1 <=> staged[body[q][i].res].done)

\* The item has not been collected yet.
Outstanding(q, i) == pc[q] \in {"patch", "blocked"} \/ (pc[q] \in {"collect", "await"} /\ pos[q] <= i)

\* The lock of a resource is held for an item that is still to be collected.
Owned ==
    ~starved => \A r \in Resource : Immediate(r) =>
        LET q == staged[r].request IN
        \E i \in DOMAIN results[q] :
            staged[r].params = <<q, i>> /\ results[q][i] = "ok" /\ Outstanding(q, i)

SafetyInv == TypeOK /\ Handlers /\ StagedByItem /\ Counted /\ Owned

\* The item was accepted as an immediate activation.
Accepted(q, i) == results[q][i] = "ok" /\ body[q][i].kind = "immediate"

\* Between its items for one resource the request does not give the mutex up, so
\* that at most one of them is accepted as an immediate activation.
OneAccepted ==
    \A q \in Request :
        /\ \A i, j \in DOMAIN results[q] :
            Accepted(q, i) /\ Accepted(q, j) /\ body[q][i].res = body[q][j].res => i = j
        /\ pc[q] \in {"patch", "blocked"} =>
            \A i \in DOMAIN results[q] :
                Accepted(q, i) /\ body[q][i].res = Item(q).res => pc[q] = "patch" /\ Own(q, i)

\* An accepted activation is staged until it is collected, or has failed; one that
\* has been collected was reported truly.
Reported ==
    \A q \in Request : \A i \in DOMAIN results[q] : body[q][i].kind = "immediate" =>
        /\ results[q][i] = "ok" /\ Outstanding(q, i) =>
            IF Own(q, i) THEN staged[body[q][i].res].params = <<q, i>> ELSE count[<<q, i>>] = 0
        /\ results[q][i] = "ok" /\ ~Outstanding(q, i) => count[<<q, i>>] = 1
        /\ results[q][i] = "error" /\ ~starved => count[<<q, i>>] = 0

OutcomeInv == SafetyInv /\ OneAccepted /\ Reported

-----------------------------------------------------------------------------
(* Facts about the operators *)

\* A body that was received is a sequence of items, of a bounded length.
LEMMA BodyFacts ==
    ASSUME NEW b \in Bodies \cup {<<>>}
    PROVE  /\ b \in Seq([res : Resource, kind : Kinds])
           /\ Len(b) \in 0..MaxItems
           /\ b = <<>> <=> Len(b) = 0
           /\ DOMAIN b = 1..Len(b)
           /\ \A i \in 1..Len(b) : b[i].res \in Resource /\ b[i].kind \in Kinds
<1> DEFINE Row == [res : Resource, kind : Kinds]
<1>1. b \in Seq(Row)
  <2>1. CASE b = <<>>
    BY <2>1
  <2>2. CASE b \in Bodies
    BY <2>2, ParameterAssumption
  <2> QED
    BY <2>1, <2>2
<1>2. Len(b) \in 0..MaxItems
  BY ParameterAssumption
<1>3. DOMAIN b = 1..Len(b) /\ (b = <<>> <=> Len(b) = 0)
  BY <1>1
<1>4. \A i \in 1..Len(b) : b[i] \in Row
  <2> HIDE DEF Row
  <2> QED
    BY <1>1
<1> QED
  BY <1>1, <1>2, <1>3, <1>4

\* The first of the items is one of them.
LEMMA FirstIsLeast ==
    ASSUME NEW S \in SUBSET Nat, S # {}
    PROVE  First(S) \in S /\ \A j \in S : First(S) <= j
BY NatMin DEF First

-----------------------------------------------------------------------------
(* Types *)

\* An item gets its result.
LEMMA RecordTypes ==
    ASSUME TypeOK, Handlers, NEW q \in Request, NEW result \in {"ok", "error"},
           pc[q] \in {"patch", "blocked"}, holder \in {None, q}, Record(q, result)
    PROVE  /\ results' \in [Request -> Seq({"ok", "error"})]
           /\ \A p \in Request : Len(results'[p]) <= Len(body'[p])
           /\ pos' \in [Request -> 1..(MaxItems + 1)]
           /\ pc' \in [Request -> {"none", "patch", "blocked", "collect", "await", "replied"}]
           /\ body' = body
           /\ holder' = q
           /\ \A p \in Request : holder' = p <=> pc'[p] \in {"patch", "collect"}
           /\ signalled' \subseteq Waiters' \cup {Thread}
           /\ Handlers'
<1> DEFINE last == pos[q] = Len(body[q])
<1>1. /\ body[q] \in Bodies \cup {<<>>} /\ Len(body[q]) \in 0..MaxItems
      /\ results[q] \in Seq({"ok", "error"})
      /\ pos[q] \in 1..(MaxItems + 1) /\ pos[q] <= Len(body[q]) /\ Len(results[q]) = pos[q] - 1
      /\ MaxItems \in Nat
  BY BodyFacts, ParameterAssumption DEF TypeOK, Handlers
<1>2. /\ results' = [results EXCEPT ![q] = Append(results[q], result)]
      /\ pos' = [pos EXCEPT ![q] = IF last THEN 1 ELSE pos[q] + 1]
      /\ pc' = [pc EXCEPT ![q] = IF last THEN "collect" ELSE "patch"]
      /\ holder' = q
      /\ body' = body
  BY DEF Record
<1>3. Append(results[q], result) \in Seq({"ok", "error"}) /\ Len(Append(results[q], result)) = pos[q]
  BY <1>1
<1>4. /\ results' \in [Request -> Seq({"ok", "error"})]
      /\ \A p \in Request : Len(results'[p]) <= Len(body'[p])
      /\ pos' \in [Request -> 1..(MaxItems + 1)]
      /\ pc' \in [Request -> {"none", "patch", "blocked", "collect", "await", "replied"}]
  BY <1>1, <1>2, <1>3 DEF TypeOK
<1>5. \A p \in Request : holder' = p <=> pc'[p] \in {"patch", "collect"}
  BY <1>2 DEF TypeOK, None, Request
<1>6. signalled' \subseteq Waiters' \cup {Thread}
  <2>1. Waiters' = Waiters \ {q}
    BY <1>2 DEF Waiters, TypeOK
  <2>2. signalled' = signalled \ {q} \/ signalled' = (signalled \cup Waiters \cup {Thread}) \ {q}
    BY DEF Record, Notify
  <2> QED
    BY <2>1, <2>2 DEF TypeOK
<1>7. Handlers'
  <2> SUFFICES ASSUME NEW p \in Request
               PROVE  /\ pc'[p] = "none" => body'[p] = <<>> /\ results'[p] = <<>> /\ pos'[p] = 1
                      /\ pc'[p] # "none" => body'[p] # <<>>
                      /\ pc'[p] \in {"patch", "blocked"} => pos'[p] <= Len(body'[p]) /\ Len(results'[p]) = pos'[p] - 1
                      /\ pc'[p] \in {"collect", "await", "replied"} => Len(results'[p]) = Len(body'[p])
                      /\ pc'[p] = "await" => pos'[p] \in Remaining(p, pos[p])'
    BY DEF Handlers
  <2>1. CASE p = q
    BY <2>1, <1>1, <1>2, <1>3 DEF TypeOK, Handlers
  <2>2. CASE p # q
    BY <2>2, <1>2 DEF TypeOK, Handlers, Remaining
  <2> QED
    BY <2>1, <2>2
<1> QED
  BY <1>2, <1>4, <1>5, <1>6, <1>7

\* A wait or an item leaves the results alone.
LEMMA TypeStep ==
    ASSUME TypeOK, Handlers, [Next]_vars
    PROVE  TypeOK' /\ Handlers'
<1> USE ParameterAssumption
<1>a. \A q \in Request : /\ body[q] \in Bodies \cup {<<>>} /\ Len(body[q]) \in 0..MaxItems
                         /\ \A i \in 1..Len(body[q]) : body[q][i].res \in Resource /\ body[q][i].kind \in Kinds
  BY BodyFacts DEF TypeOK
<1>1. ASSUME NEW q \in Request, NEW items \in Bodies, Receive(q, items)
      PROVE  TypeOK' /\ Handlers'
  <2>1. Len(items) \in 1..MaxItems /\ items # <<>>
    OBVIOUS
  <2>2. results[q] = <<>> /\ pos[q] \in 1..(MaxItems + 1)
    BY <1>1 DEF Receive, TypeOK, Handlers
  <2>3. Waiters' = Waiters
    BY <1>1 DEF Receive, Waiters, TypeOK
  <2> QED
    <3>1. /\ holder = None /\ pc[q] = "none" /\ holder' = q
          /\ pc' = [pc EXCEPT ![q] = "patch"] /\ body' = [body EXCEPT ![q] = items]
          /\ UNCHANGED <<staged, active, due, count, pos, results, fresh, armed, signalled, starved>>
      BY <1>1 DEF Receive, resources, thread
    <3>2. TypeOK'
      <4>1. \A p \in Request : holder' = p <=> pc'[p] \in {"patch", "collect"}
        BY <3>1 DEF TypeOK, None, Request
      <4>2. \A p \in Request : Len(results'[p]) <= Len(body'[p])
        BY <3>1, <2>1, <2>2 DEF TypeOK
      <4> QED
        BY <3>1, <2>3, <4>1, <4>2 DEF TypeOK, Scheduled
    <3>3. pos[q] = 1
      BY <3>1 DEF Handlers
    <3>4. Handlers'
      BY <3>1, <3>3, <2>1, <2>2 DEF TypeOK, Handlers, Remaining
    <3> QED
      BY <3>2, <3>4
<1>2. ASSUME NEW q \in Request, pc[q] \in {"patch", "blocked"}, holder \in {None, q}, Stage(q)
      PROVE  TypeOK' /\ Handlers'
  <2>1. pos[q] \in 1..Len(body[q]) /\ pos[q] \in 1..MaxItems
    BY <1>2, <1>a DEF TypeOK, Handlers
  <2>2. Item(q).res \in Resource /\ Item(q).kind \in Kinds
    BY <2>1, <1>a DEF Item
  <2>3. Merged(q) \in [params : Items \cup {Initial}, mode : {"null", "immediate", "scheduled"},
                       request : Request \cup {None}, done : BOOLEAN]
    BY <2>1, <2>2 DEF Merged, NotPending, Items, Kinds
  <2>4. staged' = [staged EXCEPT ![Item(q).res] = Merged(q)] /\ due' = due \ {Item(q).res} /\ fresh' = TRUE
        /\ Record(q, "ok") /\ UNCHANGED <<active, count, armed, starved>>
    BY <1>2 DEF Stage
  <2>5. due' \subseteq Scheduled'
    BY <2>2, <2>3, <2>4 DEF Scheduled, TypeOK
  <2> QED
    BY <2>2, <2>3, <2>4, <2>5, <1>2, RecordTypes DEF TypeOK
<1>3. ASSUME NEW q \in Request, pc[q] \in {"patch", "blocked"}, holder \in {None, q}, Refuse(q)
      PROVE  TypeOK' /\ Handlers'
  BY <1>3, RecordTypes DEF TypeOK, Refuse, resources, thread, Scheduled
<1>4. ASSUME NEW q \in Request, PatchBlocks(q)
      PROVE  TypeOK' /\ Handlers'
  <2>1. Waiters \subseteq Waiters'
    BY <1>4 DEF PatchBlocks, Waiters, TypeOK
  <2>2. TypeOK'
    BY <1>4, <2>1 DEF PatchBlocks, TypeOK, resources, thread, None, Request, Scheduled
  <2>3. Handlers'
    BY <1>4 DEF PatchBlocks, TypeOK, Handlers, Remaining
  <2> QED
    BY <2>2, <2>3
<1>5. ASSUME NEW q \in Request, NEW i \in Remaining(q, pos[q]), pc[q] \in {"collect", "await"},
             holder \in {None, q}, Finish(q, i)
      PROVE  TypeOK' /\ Handlers'
  <2> DEFINE r == body[q][i].res
             mine == Own(q, i)
  <2>1. i \in 1..Len(body[q]) /\ i \in Nat /\ Len(results[q]) = Len(body[q]) /\ r \in Resource
        /\ Len(body[q]) \in 0..MaxItems
    BY <1>5, <1>a DEF Remaining, TypeOK, Handlers
  <2>2. /\ staged' = IF mine THEN [staged EXCEPT ![r] = NotPending(staged[r].params)] ELSE staged
        /\ results' = IF mine THEN results ELSE [results EXCEPT ![q] = [results[q] EXCEPT ![i] = "error"]]
        /\ pos' = [pos EXCEPT ![q] = i + 1]
        /\ pc' = [pc EXCEPT ![q] = "collect"]
        /\ holder' = q
        /\ fresh' = (fresh \/ mine)
        /\ UNCHANGED <<active, due, count, body, armed, starved>>
    BY <1>5 DEF Finish
  <2>3. [results[q] EXCEPT ![i] = "error"] \in Seq({"ok", "error"})
        /\ Len([results[q] EXCEPT ![i] = "error"]) = Len(results[q])
    BY <2>1 DEF TypeOK
  <2>4. results' \in [Request -> Seq({"ok", "error"})] /\ \A p \in Request : Len(results'[p]) = Len(results[p])
    BY <2>2, <2>3 DEF TypeOK
  <2>5. Waiters' = Waiters \ {q}
    BY <2>2 DEF Waiters, TypeOK
  <2>6. signalled' \subseteq Waiters' \cup {Thread}
    BY <1>5, <2>5 DEF Finish, Notify, TypeOK
  <2>7. staged' \in [Resource -> [params : Items \cup {Initial}, mode : {"null", "immediate", "scheduled"},
                                  request : Request \cup {None}, done : BOOLEAN]]
    BY <2>1, <2>2 DEF TypeOK, NotPending
  <2>8. due' \subseteq Scheduled'
    BY <2>1, <2>2 DEF TypeOK, Scheduled, Own, Immediate
  <2>9. \A p \in Request : holder' = p <=> pc'[p] \in {"patch", "collect"}
    BY <1>5, <2>2 DEF TypeOK, None, Request
  <2>10. TypeOK'
    BY <2>1, <2>2, <2>4, <2>6, <2>7, <2>8, <2>9 DEF TypeOK
  <2>11. Handlers'
    BY <1>5, <2>1, <2>2, <2>4 DEF TypeOK, Handlers, Remaining
  <2> QED
    BY <2>10, <2>11
<1>6. ASSUME NEW q \in Request, Collect(q)
      PROVE  TypeOK' /\ Handlers'
  <2> DEFINE todo == Remaining(q, pos[q])
  <2>1. todo \subseteq 1..Len(body[q]) /\ todo \subseteq Nat /\ holder = q /\ pc[q] = "collect"
    BY <1>6, <1>a DEF Remaining, Collect, TypeOK
  <2>2. todo # {} => First(todo) \in todo
    BY <2>1, FirstIsLeast
  <2>3. CASE todo # {} /\ Modified(q, First(todo))
    BY <2>1, <2>2, <2>3, <1>5, <1>6 DEF Collect
  <2>4. CASE ~(todo # {} /\ Modified(q, First(todo)))
    <3>1. /\ holder' = None
          /\ pc' = [pc EXCEPT ![q] = IF todo = {} THEN "replied" ELSE "await"]
          /\ pos' = [pos EXCEPT ![q] = IF todo = {} THEN 1 ELSE First(todo)]
          /\ UNCHANGED <<resources, body, results, thread, signalled, starved>>
      BY <1>6, <2>4 DEF Collect
    <3>2. pos' \in [Request -> 1..(MaxItems + 1)]
      BY <3>1, <2>1, <2>2, <1>a DEF TypeOK
    <3>3. Waiters \subseteq Waiters'
      BY <3>1, <2>1 DEF Waiters, TypeOK
    <3>4. TypeOK'
      <4>1. \A p \in Request : holder' = p <=> pc'[p] \in {"patch", "collect"}
        BY <3>1, <2>1 DEF TypeOK, None, Request
      <4> QED
        BY <3>1, <3>2, <3>3, <4>1 DEF TypeOK, resources, thread, Scheduled
    <3>5. todo # {} => First(todo) \in Remaining(q, First(todo))
      BY <2>1, <2>2 DEF Remaining
    <3>6. Handlers'
      BY <3>1, <3>5, <2>1 DEF TypeOK, Handlers, Remaining
    <3> QED
      BY <3>4, <3>6
  <2> QED
    BY <2>3, <2>4
<1>7. ASSUME NEW q \in Request, AwaitTimeout(q)
      PROVE  TypeOK' /\ Handlers'
  <2> DEFINE i == pos[q]
  <2>1. /\ i \in 1..Len(body[q]) /\ Len(results[q]) = Len(body[q]) /\ Len(body[q]) \in 0..MaxItems
        /\ holder = None /\ pc[q] = "await"
    BY <1>7, <1>a DEF AwaitTimeout, Remaining, TypeOK, Handlers
  <2>2. /\ results' = [results EXCEPT ![q] = [results[q] EXCEPT ![i] = "error"]]
        /\ pos' = [pos EXCEPT ![q] = i + 1]
        /\ pc' = [pc EXCEPT ![q] = "collect"]
        /\ holder' = q
        /\ signalled' = signalled \ {q}
        /\ UNCHANGED <<resources, body, thread, starved>>
    BY <1>7 DEF AwaitTimeout
  <2>3. [results[q] EXCEPT ![i] = "error"] \in Seq({"ok", "error"})
        /\ Len([results[q] EXCEPT ![i] = "error"]) = Len(results[q])
    BY <2>1 DEF TypeOK
  <2>4. results' \in [Request -> Seq({"ok", "error"})] /\ \A p \in Request : Len(results'[p]) = Len(results[p])
    BY <2>2, <2>3 DEF TypeOK
  <2>5. Waiters' = Waiters \ {q}
    BY <2>2 DEF Waiters, TypeOK
  <2>6. \A p \in Request : holder' = p <=> pc'[p] \in {"patch", "collect"}
    BY <2>1, <2>2 DEF TypeOK, None, Request
  <2>7. TypeOK'
    BY <2>1, <2>2, <2>4, <2>5, <2>6 DEF TypeOK, resources, thread, Scheduled
  <2>8. Handlers'
    BY <2>1, <2>2, <2>4 DEF TypeOK, Handlers, Remaining
  <2> QED
    BY <2>7, <2>8
<1>8. ASSUME NEW failed \in SUBSET Resource, Pass(failed)
      PROVE  TypeOK' /\ Handlers'
  <2> DEFINE done == Pending \ failed
  <2>1. /\ staged' = [r \in Resource |->
                        IF r \in done /\ Immediate(r) THEN Processed(staged[r])
                        ELSE IF r \in Pending THEN NotPending(staged[r].params)
                        ELSE staged[r]]
        /\ active' = [r \in Resource |-> IF r \in done THEN staged[r].params ELSE active[r]]
        /\ count' = [i \in Items |-> IF \E r \in done : staged[r].params = i THEN count[i] + 1 ELSE count[i]]
        /\ due' = due \ Pending
        /\ armed' = NextScheduled
        /\ fresh' = FALSE
        /\ signalled' \subseteq signalled \cup Waiters
        /\ UNCHANGED <<handlers, holder, starved>>
    BY <1>8 DEF Pass
  <2>2. staged' \in [Resource -> [params : Items \cup {Initial}, mode : {"null", "immediate", "scheduled"},
                                  request : Request \cup {None}, done : BOOLEAN]]
    BY <2>1 DEF TypeOK, NotPending, Processed
  <2>3. active' \in [Resource -> Items \cup {Initial}] /\ count' \in [Items -> Nat]
    BY <2>1 DEF TypeOK
  <2>4. due' = {} /\ armed' \subseteq Resource
    BY <2>1 DEF TypeOK, Pending, NextScheduled, Scheduled
  <2>5. TypeOK'
    BY <2>1, <2>2, <2>3, <2>4 DEF TypeOK, handlers, Waiters
  <2>6. Handlers'
    BY <2>1 DEF Handlers, handlers, Remaining
  <2> QED
    BY <2>5, <2>6
<1>9. ASSUME NEW w \in Request \cup {Thread}, WakeInVain(w)
      PROVE  TypeOK' /\ Handlers'
  BY <1>9 DEF WakeInVain, TypeOK, Handlers, resources, handlers, thread, Waiters, Scheduled, Remaining
<1>10. ASSUME NEW r \in Resource, Elapse(r)
       PROVE  TypeOK' /\ Handlers'
  BY <1>10 DEF Elapse, TypeOK, Handlers, handlers, thread, Waiters, Scheduled, Remaining
<1>11. CASE UNCHANGED vars
  BY <1>11 DEF vars, TypeOK, Handlers, resources, handlers, thread, Waiters, Scheduled, Remaining
<1>12. ASSUME NEW q \in Request, Handle(q) \/ Unblocked(q) \/ BlockedTimeout(q) \/ Awaited(q) \/ AwaitTimeout(q)
       PROVE  TypeOK' /\ Handlers'
  <2>1. CASE PatchLocked(q) \/ PatchSame(q) \/ PatchInvalid(q) \/ BlockedTimeout(q)
    BY <2>1, <1>3 DEF PatchLocked, PatchSame, PatchInvalid, BlockedTimeout
  <2>2. CASE Patch(q) \/ Unblocked(q)
    BY <2>2, <1>2, <1>3 DEF Patch, Unblocked
  <2>3. CASE Awaited(q)
    BY <2>3, <1>5 DEF Awaited, Handlers
  <2> QED
    BY <1>12, <2>1, <2>2, <2>3, <1>4, <1>6, <1>7 DEF Handle
<1> QED
  BY <1>1, <1>8, <1>9, <1>10, <1>11, <1>12 DEF Next, Activate

\* Initially nobody has asked for anything.
LEMMA TypeInit ==
    ASSUME Init
    PROVE  TypeOK /\ Handlers
<1> USE ParameterAssumption
<1>1. TypeOK
  <2> USE DEF Init
  <2>1. staged \in [Resource -> [params : Items \cup {Initial}, mode : {"null", "immediate", "scheduled"},
                                 request : Request \cup {None}, done : BOOLEAN]]
    BY DEF NotPending
  <2>2. /\ body \in [Request -> Bodies \cup {<<>>}]
        /\ results \in [Request -> Seq({"ok", "error"})]
        /\ pos \in [Request -> 1..(MaxItems + 1)]
        /\ \A q \in Request : Len(results[q]) <= Len(body[q])
    OBVIOUS
  <2>3. \A q \in Request : holder = q <=> pc[q] \in {"patch", "collect"}
    BY DEF None, Request
  <2> QED
    BY <2>1, <2>2, <2>3 DEF TypeOK
<1>2. Handlers
  BY DEF Init, Handlers
<1> QED
  BY <1>1, <1>2

\* Every reachable state is well typed, however many requests there are and
\* however long: of the requests at most one holds the mutex, and it is not waiting.
THEOREM TypeCorrect == Spec => []TypeOK
<1>1. Init => TypeOK /\ Handlers
  BY TypeInit
<1>2. TypeOK /\ Handlers /\ [Next]_vars => TypeOK' /\ Handlers'
  BY TypeStep
<1> QED
  BY <1>1, <1>2, PTL DEF Spec

-----------------------------------------------------------------------------
(* The safety invariant *)

\* What an item is, and which results there are
LEMMA ResultFacts ==
    ASSUME TypeOK, Handlers, NEW q \in Request
    PROVE  /\ DOMAIN results[q] = 1..Len(results[q])
           /\ Len(results[q]) \in 0..Len(body[q])
           /\ Len(body[q]) \in 0..MaxItems
           /\ MaxItems \in Nat
           /\ DOMAIN results[q] \subseteq 1..MaxItems
           /\ \A i \in DOMAIN results[q] : results[q][i] \in {"ok", "error"}
           /\ \A i \in 1..Len(body[q]) : body[q][i].res \in Resource /\ body[q][i].kind \in Kinds
           /\ \A i \in 1..Len(body[q]) : body[q][i] = [res |-> body[q][i].res, kind |-> body[q][i].kind]
<1>1. body[q] \in Bodies \cup {<<>>} /\ results[q] \in Seq({"ok", "error"}) /\ Len(results[q]) <= Len(body[q])
  BY DEF TypeOK
<1>2. /\ body[q] \in Seq([res : Resource, kind : Kinds])
      /\ Len(body[q]) \in 0..MaxItems
      /\ \A i \in 1..Len(body[q]) : body[q][i].res \in Resource /\ body[q][i].kind \in Kinds
  BY <1>1, BodyFacts
<1>3. \A i \in 1..Len(body[q]) : body[q][i] \in [res : Resource, kind : Kinds]
  <2> DEFINE Row == [res : Resource, kind : Kinds]
  <2> HIDE DEF Row
  <2>1. body[q] \in Seq(Row)
    BY <1>2 DEF Row
  <2>2. \A i \in 1..Len(body[q]) : body[q][i] \in Row
    BY <2>1
  <2> QED
    BY <2>2 DEF Row
<1>4. \A i \in 1..Len(body[q]) : body[q][i] = [res |-> body[q][i].res, kind |-> body[q][i].kind]
  BY <1>3
<1> QED
  BY <1>1, <1>2, <1>4, ParameterAssumption

\* What recording the result of an item does.
LEMMA RecordEffect ==
    ASSUME TypeOK, Handlers, NEW q \in Request, NEW result \in {"ok", "error"},
           pc[q] \in {"patch", "blocked"}, Record(q, result)
    PROVE  LET n == pos[q] IN
           /\ n \in 1..Len(body[q]) /\ n \in 1..MaxItems
           /\ body' = body
           /\ DOMAIN results[q] = 1..(n - 1) /\ DOMAIN results'[q] = 1..n
           /\ \A i \in 1..(n - 1) : results'[q][i] = results[q][i]
           /\ results'[q][n] = result
           /\ \A p \in Request \ {q} : results'[p] = results[p] /\ pc'[p] = pc[p] /\ pos'[p] = pos[p]
           /\ \/ pc'[q] = "patch" /\ pos'[q] = n + 1 /\ n < Len(body[q])
              \/ pc'[q] = "collect" /\ pos'[q] = 1 /\ n = Len(body[q])
<1> DEFINE n == pos[q]
<1>1. /\ n \in 1..Len(body[q]) /\ n \in 1..MaxItems
      /\ results[q] \in Seq({"ok", "error"}) /\ Len(results[q]) = n - 1
  BY ResultFacts DEF TypeOK, Handlers
<1>2. /\ results' = [results EXCEPT ![q] = Append(results[q], result)]
      /\ pos' = [pos EXCEPT ![q] = IF n = Len(body[q]) THEN 1 ELSE n + 1]
      /\ pc' = [pc EXCEPT ![q] = IF n = Len(body[q]) THEN "collect" ELSE "patch"]
      /\ body' = body
  BY DEF Record
<1> HIDE DEF n
<1>3. results'[q] = Append(results[q], result)
  BY <1>2 DEF TypeOK
<1>4. /\ DOMAIN results[q] = 1..(n - 1) /\ DOMAIN results'[q] = 1..n
      /\ \A i \in 1..(n - 1) : results'[q][i] = results[q][i]
      /\ results'[q][n] = result
  BY <1>1, <1>3
<1>5. \A p \in Request \ {q} : results'[p] = results[p] /\ pc'[p] = pc[p] /\ pos'[p] = pos[p]
  BY <1>2 DEF TypeOK
<1>6. \/ pc'[q] = "patch" /\ pos'[q] = n + 1 /\ n < Len(body[q])
      \/ pc'[q] = "collect" /\ pos'[q] = 1 /\ n = Len(body[q])
  BY <1>1, <1>2 DEF TypeOK
<1> QED
  BY <1>1, <1>2, <1>4, <1>5, <1>6 DEF n

\* The item that staged what is staged is the only one of its parameters.
LEMMA StagedFacts ==
    ASSUME TypeOK, Handlers, StagedByItem, NEW r \in Resource, staged[r].mode # "null"
    PROVE  /\ staged[r].request \in Request
           /\ \E i \in DOMAIN results[staged[r].request] :
                /\ i \in 1..MaxItems
                /\ staged[r].params = <<staged[r].request, i>>
                /\ body[staged[r].request][i].res = r
                /\ body[staged[r].request][i].kind = staged[r].mode
<1>1. staged[r].request \in Request \cup {None} /\ staged[r].request # None
  BY DEF StagedByItem, TypeOK
<1>2. staged[r].request \in Request
  BY <1>1
<1>3. PICK i \in DOMAIN results[staged[r].request] :
        /\ staged[r].params = <<staged[r].request, i>>
        /\ body[staged[r].request][i] = [res |-> r, kind |-> staged[r].mode]
  BY DEF StagedByItem
<1>4. i \in 1..MaxItems
  BY <1>2, ResultFacts
<1>5. body[staged[r].request][i].res = r /\ body[staged[r].request][i].kind = staged[r].mode
  BY <1>3
<1> QED
  BY <1>2, <1>3, <1>4, <1>5

\* A step of the handlers that leaves the staged parameters alone is safe, if it
\* keeps the results there are, but for those of items that no longer hold a lock.
LEMMA HandlerSafe ==
    ASSUME SafetyInv, TypeOK', UNCHANGED <<staged, count, starved>>,
           \A p \in Request : \A i \in DOMAIN results[p] :
                i \in DOMAIN results'[p] /\ body'[p][i] = body[p][i],
           \A p \in Request : \A i \in DOMAIN results[p] :
                ~starved /\ results[p][i] = "ok" /\ Outstanding(p, i) /\ StagedFor(p, i) /\ Immediate(body[p][i].res)
                    => results'[p][i] = "ok" /\ Outstanding(p, i)'
    PROVE  StagedByItem' /\ Counted' /\ Owned'
<1> USE DEF SafetyInv
<1>1. StagedByItem'
  <2> SUFFICES ASSUME NEW r \in Resource, staged[r].mode # "null"
               PROVE  \E i \in DOMAIN results'[staged[r].request] :
                        /\ staged[r].params = <<staged[r].request, i>>
                        /\ body'[staged[r].request][i] = [res |-> r, kind |-> staged[r].mode]
    BY DEF StagedByItem
  <2>1. staged[r].request \in Request
    BY StagedFacts
  <2>2. PICK i \in DOMAIN results[staged[r].request] :
          /\ staged[r].params = <<staged[r].request, i>>
          /\ body[staged[r].request][i] = [res |-> r, kind |-> staged[r].mode]
    BY DEF StagedByItem
  <2> QED
    BY <2>1, <2>2
<1>2. Counted'
  <2> SUFFICES ASSUME NEW p \in Request, NEW i \in 1..MaxItems
               PROVE  /\ count[<<p, i>>] \in {0, 1}
                      /\ count[<<p, i>>] = 1 =>
                            i \in DOMAIN results'[p] /\ body'[p][i].kind \in {"immediate", "scheduled"}
                      /\ i \in DOMAIN results'[p] /\ StagedFor(p, i)' =>
                            (count[<<p, i>>] = 1 <=> staged[body'[p][i].res].done)
    BY DEF Counted
  <2>1. count[<<p, i>>] \in {0, 1}
    BY DEF Counted
  <2>2. count[<<p, i>>] = 1 => i \in DOMAIN results'[p] /\ body'[p][i].kind \in {"immediate", "scheduled"}
    BY DEF Counted
  <2>3. ASSUME i \in DOMAIN results'[p], StagedFor(p, i)'
        PROVE  count[<<p, i>>] = 1 <=> staged[body'[p][i].res].done
    <3> DEFINE r == body'[p][i].res
    <3>1. staged[r].mode # "null" /\ staged[r].params = <<p, i>>
      BY <2>3 DEF StagedFor
    <3>2. r \in Resource
      <4>1. i \in 1..Len(body'[p])
        BY <2>3 DEF TypeOK
      <4> QED
        BY <4>1, BodyFacts DEF TypeOK
    <3>3. PICK j \in DOMAIN results[staged[r].request] :
            /\ j \in 1..MaxItems
            /\ staged[r].params = <<staged[r].request, j>>
            /\ body[staged[r].request][j].res = r
      BY <3>1, <3>2, StagedFacts
    <3>4. staged[r].request = p /\ j = i
      BY <3>1, <3>3
    <3>5. i \in DOMAIN results[p] /\ body'[p][i] = body[p][i]
      BY <3>3, <3>4
    <3>6. StagedFor(p, i)
      BY <3>1, <3>5 DEF StagedFor
    <3> QED
      BY <3>5, <3>6 DEF Counted
  <2> QED
    BY <2>1, <2>2, <2>3
<1>3. Owned'
  <2> SUFFICES ASSUME ~starved, NEW r \in Resource, Immediate(r)
               PROVE  \E i \in DOMAIN results'[staged[r].request] :
                        /\ staged[r].params = <<staged[r].request, i>>
                        /\ results'[staged[r].request][i] = "ok"
                        /\ Outstanding(staged[r].request, i)'
    BY DEF Owned, Immediate
  <2> DEFINE p == staged[r].request
  <2>1. p \in Request /\ staged[r].mode # "null"
    BY StagedFacts DEF Immediate
  <2>2. PICK i \in DOMAIN results[p] : staged[r].params = <<p, i>> /\ results[p][i] = "ok" /\ Outstanding(p, i)
    BY DEF Owned
  <2>3. PICK j \in DOMAIN results[p] : staged[r].params = <<p, j>> /\ body[p][j].res = r
    BY <2>1, StagedFacts
  <2>4. j = i /\ body[p][i].res = r
    BY <2>2, <2>3
  <2>5. StagedFor(p, i) /\ Immediate(body[p][i].res)
    BY <2>1, <2>2, <2>4 DEF StagedFor
  <2>6. results'[p][i] = "ok" /\ Outstanding(p, i)' /\ i \in DOMAIN results'[p]
    BY <2>1, <2>2, <2>5
  <2> QED
    BY <2>2, <2>6
<1> QED
  BY <1>1, <1>2, <1>3

\* A patch is staged: its item takes the lock, for it has not been collected.
LEMMA StageSafe ==
    ASSUME SafetyInv, TypeOK', NEW q \in Request, pc[q] \in {"patch", "blocked"}, Stage(q),
           ~Immediate(Item(q).res)
    PROVE  StagedByItem' /\ Counted' /\ Owned'
<1> USE DEF SafetyInv
<1> DEFINE n == pos[q]
           r == Item(q).res
<1>1. staged' = [staged EXCEPT ![r] = Merged(q)] /\ UNCHANGED <<count, starved>> /\ Record(q, "ok")
  BY DEF Stage
<1>2. /\ n \in 1..Len(body[q]) /\ n \in 1..MaxItems
      /\ body' = body
      /\ DOMAIN results[q] = 1..(n - 1) /\ DOMAIN results'[q] = 1..n
      /\ \A i \in 1..(n - 1) : results'[q][i] = results[q][i]
      /\ results'[q][n] = "ok"
      /\ \A p \in Request \ {q} : results'[p] = results[p] /\ pc'[p] = pc[p] /\ pos'[p] = pos[p]
      /\ \/ pc'[q] = "patch" /\ pos'[q] = n + 1 /\ n < Len(body[q])
         \/ pc'[q] = "collect" /\ pos'[q] = 1 /\ n = Len(body[q])
  BY <1>1, RecordEffect
<1>3. r \in Resource /\ body[q][n] = [res |-> r, kind |-> Item(q).kind] /\ body[q][n].res = r
  BY <1>2, ResultFacts DEF Item
<1>4. staged'[r] = Merged(q) /\ \A o \in Resource \ {r} : staged'[o] = staged[o]
  BY <1>1, <1>3 DEF TypeOK
<1>5. /\ Merged(q).params = <<q, n>> /\ ~Merged(q).done
      /\ \/ Merged(q).mode = Item(q).kind /\ Merged(q).mode \in {"immediate", "scheduled"} /\ Merged(q).request = q
         \/ Merged(q).mode = "null" /\ Merged(q).request = None
  BY DEF Merged, NotPending
<1>6. \A p \in Request : \A i \in DOMAIN results[p] : i \in DOMAIN results'[p] /\ results'[p][i] = results[p][i]
  BY <1>2
<1>7. StagedByItem'
  <2> SUFFICES ASSUME NEW o \in Resource
               PROVE  /\ staged'[o].mode = "null" <=> staged'[o].request = None
                      /\ staged'[o].done => staged'[o].mode = "immediate"
                      /\ staged'[o].mode # "null" =>
                            \E i \in DOMAIN results'[staged'[o].request] :
                                /\ staged'[o].params = <<staged'[o].request, i>>
                                /\ body'[staged'[o].request][i] = [res |-> o, kind |-> staged'[o].mode]
    BY DEF StagedByItem
  <2>1. CASE o = r
    <3>1. CASE Merged(q).mode = "null" /\ Merged(q).request = None
      BY <1>4, <1>5, <2>1, <3>1
    <3>2. CASE Merged(q).mode = Item(q).kind /\ Merged(q).mode \in {"immediate", "scheduled"} /\ Merged(q).request = q
      <4>1. n \in DOMAIN results'[q] /\ body'[q][n] = [res |-> r, kind |-> Merged(q).mode]
        BY <1>2, <1>3, <3>2
      <4>2. q # None
        BY DEF Request, None
      <4> QED
        BY <1>4, <1>5, <2>1, <3>2, <4>1, <4>2
    <3> QED
      BY <1>5, <3>1, <3>2
  <2>2. CASE o # r
    <3>1. staged'[o] = staged[o]
      BY <1>4, <2>2
    <3>2. /\ staged[o].mode = "null" <=> staged[o].request = None
          /\ staged[o].done => staged[o].mode = "immediate"
          /\ staged[o].mode # "null" =>
                /\ staged[o].request \in Request
                /\ \E i \in DOMAIN results[staged[o].request] :
                    /\ staged[o].params = <<staged[o].request, i>>
                    /\ body[staged[o].request][i] = [res |-> o, kind |-> staged[o].mode]
      BY StagedFacts DEF StagedByItem
    <3> QED
      BY <1>2, <1>6, <3>1, <3>2
  <2> QED
    BY <2>1, <2>2
<1>8. Counted'
  <2> SUFFICES ASSUME NEW p \in Request, NEW i \in 1..MaxItems
               PROVE  /\ count[<<p, i>>] \in {0, 1}
                      /\ count[<<p, i>>] = 1 =>
                            i \in DOMAIN results'[p] /\ body[p][i].kind \in {"immediate", "scheduled"}
                      /\ i \in DOMAIN results'[p] /\ StagedFor(p, i)' =>
                            (count[<<p, i>>] = 1 <=> staged'[body[p][i].res].done)
    BY <1>1, <1>2 DEF Counted
  <2>1. /\ count[<<p, i>>] \in {0, 1}
        /\ count[<<p, i>>] = 1 => i \in DOMAIN results[p] /\ body[p][i].kind \in {"immediate", "scheduled"}
        /\ i \in DOMAIN results[p] /\ StagedFor(p, i) =>
                (count[<<p, i>>] = 1 <=> staged[body[p][i].res].done)
    BY DEF Counted
  <2>2. ASSUME i \in DOMAIN results'[p], StagedFor(p, i)'
        PROVE  count[<<p, i>>] = 1 <=> staged'[body[p][i].res].done
    <3>1. staged'[body[p][i].res].mode # "null" /\ staged'[body[p][i].res].params = <<p, i>>
      BY <1>2, <2>2 DEF StagedFor
    <3>2. CASE p = q /\ i = n
      BY <1>2, <1>3, <1>4, <1>5, <2>1, <3>2
    <3>3. CASE ~(p = q /\ i = n)
      <4>1. body[p][i].res # r
        BY <1>4, <1>5, <3>1, <3>3
      <4>2. i \in DOMAIN results[p]
        BY <1>2, <2>2, <3>3
      <4>3. body[p][i].res \in Resource
        BY <4>2, ResultFacts
      <4>4. staged'[body[p][i].res] = staged[body[p][i].res]
        BY <1>4, <4>1, <4>3
      <4> QED
        BY <2>1, <3>1, <4>2, <4>4 DEF StagedFor
    <3> QED
      BY <3>2, <3>3
  <2> QED
    BY <1>6, <2>1, <2>2
<1>9. Owned'
  <2> SUFFICES ASSUME ~starved, NEW o \in Resource, staged'[o].mode = "immediate",
                      NEW p, p = staged'[o].request
               PROVE  \E i \in DOMAIN results'[p] :
                        staged'[o].params = <<p, i>> /\ results'[p][i] = "ok" /\ Outstanding(p, i)'
    BY <1>1 DEF Owned, Immediate
  <2>1. CASE o = r
    <3>1. p = q /\ staged'[o].params = <<q, n>>
      BY <1>4, <1>5, <2>1
    <3>2. PICK i \in DOMAIN results'[q] : i = n
      BY <1>2
    <3>3. Outstanding(q, i)'
      BY <1>2, <3>2 DEF Outstanding
    <3> QED
      BY <1>2, <3>1, <3>2, <3>3
  <2>2. CASE o # r
    <3>1. staged'[o] = staged[o] /\ staged[o].mode # "null" /\ Immediate(o)
      BY <1>4, <2>2 DEF Immediate
    <3>2. p \in Request /\ staged[o].request = p
      BY <3>1, StagedFacts
    <3>3. PICK i \in DOMAIN results[p] :
            staged[o].params = <<p, i>> /\ results[p][i] = "ok" /\ Outstanding(p, i)
      BY <3>1, <3>2 DEF Owned
    <3>4. i \in Nat \ {0}
      BY <3>2, <3>3, ResultFacts
    <3>5. Outstanding(p, i)'
      BY <1>2, <3>2, <3>3, <3>4 DEF Outstanding
    <3> QED
      BY <1>6, <3>1, <3>2, <3>3, <3>5
  <2> QED
    BY <2>1, <2>2
<1> QED
  BY <1>7, <1>8, <1>9

\* An item is collected: its lock, if it still has it, is released, and those of
\* the items after it are kept.
LEMMA FinishSafe ==
    ASSUME SafetyInv, TypeOK', NEW q \in Request, NEW i \in Remaining(q, pos[q]),
           \A j \in Remaining(q, pos[q]) : i <= j,
           pc[q] \in {"collect", "await"}, Finish(q, i)
    PROVE  StagedByItem' /\ Counted' /\ Owned'
<1> USE DEF SafetyInv
<1> DEFINE r == body[q][i].res
<1>1. /\ i \in 1..Len(body[q]) /\ Len(results[q]) = Len(body[q]) /\ i \in DOMAIN results[q]
      /\ r \in Resource /\ i \in Nat
  BY ResultFacts DEF Remaining, Handlers, TypeOK
<1>2. /\ UNCHANGED <<count, starved, body>>
      /\ pos' = [pos EXCEPT ![q] = i + 1]
      /\ pc' = [pc EXCEPT ![q] = "collect"]
  BY DEF Finish
<1>3. /\ pos'[q] = i + 1 /\ pc'[q] = "collect"
      /\ \A p \in Request \ {q} : pos'[p] = pos[p] /\ pc'[p] = pc[p]
  BY <1>2 DEF TypeOK
<1>4. ASSUME NEW p \in Request, NEW j \in DOMAIN results[p], Outstanding(p, j), results[p][j] = "ok",
             body[p][j].kind = "immediate", ~(p = q /\ j = i)
      PROVE  Outstanding(p, j)'
  <2>1. CASE p # q
    BY <1>3, <1>4, <2>1 DEF Outstanding
  <2>2. CASE p = q
    <3>1. j \in 1..Len(body[q]) /\ pos[q] <= j /\ pos[q] \in Nat
      BY <1>1, <1>4, <2>2, ResultFacts DEF Outstanding, TypeOK
    <3>2. j \in Remaining(q, pos[q])
      BY <1>4, <2>2, <3>1 DEF Remaining
    <3>3. i <= j /\ i # j
      BY <1>4, <2>2, <3>2
    <3> QED
      BY <1>1, <1>3, <2>2, <3>1, <3>3 DEF Outstanding
  <2> QED
    BY <2>1, <2>2
<1>5. CASE ~Own(q, i)
  <2>1. staged' = staged /\ results' = [results EXCEPT ![q] = [results[q] EXCEPT ![i] = "error"]]
    BY <1>5 DEF Finish
  <2>2. \A p \in Request : \A j \in DOMAIN results[p] :
            /\ j \in DOMAIN results'[p]
            /\ (p = q /\ j = i) \/ results'[p][j] = results[p][j]
    BY <2>1 DEF TypeOK
  <2>3. ASSUME NEW p \in Request, NEW j \in DOMAIN results[p], results[p][j] = "ok", Outstanding(p, j),
               StagedFor(p, j), Immediate(body[p][j].res)
        PROVE  results'[p][j] = "ok" /\ Outstanding(p, j)'
    <3>1. body[p][j].res \in Resource
      BY ResultFacts
    <3>2. /\ staged[body[p][j].res].mode = "immediate"
          /\ staged[body[p][j].res].params = <<p, j>>
      BY <2>3 DEF StagedFor, Immediate
    <3>3. staged[body[p][j].res].request = p /\ body[p][j].kind = "immediate"
      BY <3>1, <3>2, StagedFacts
    <3>4. ~(p = q /\ j = i)
      BY <1>5, <2>3, <3>3 DEF Own
    <3> QED
      BY <1>4, <2>2, <2>3, <3>3, <3>4
  <2> QED
    BY <1>2, <2>1, <2>2, <2>3, HandlerSafe
<1>6. CASE Own(q, i)
  <2>1. staged' = [staged EXCEPT ![r] = NotPending(staged[r].params)] /\ results' = results
    BY <1>6 DEF Finish
  <2>2. staged'[r] = NotPending(staged[r].params) /\ \A o \in Resource \ {r} : staged'[o] = staged[o]
    BY <1>1, <2>1 DEF TypeOK
  <2>3. StagedByItem'
    BY <1>2, <2>1, <2>2 DEF StagedByItem, NotPending
  <2>4. Counted'
    <3> SUFFICES ASSUME NEW p \in Request, NEW j \in 1..MaxItems
                 PROVE  /\ count[<<p, j>>] \in {0, 1}
                        /\ count[<<p, j>>] = 1 =>
                              j \in DOMAIN results[p] /\ body[p][j].kind \in {"immediate", "scheduled"}
                        /\ j \in DOMAIN results[p] /\ StagedFor(p, j)' =>
                              (count[<<p, j>>] = 1 <=> staged'[body[p][j].res].done)
      BY <1>2, <2>1 DEF Counted
    <3>1. ASSUME j \in DOMAIN results[p], StagedFor(p, j)'
          PROVE  StagedFor(p, j) /\ staged'[body[p][j].res] = staged[body[p][j].res]
      <4>1. staged'[body[p][j].res].mode # "null" /\ body[p][j].res \in Resource
        BY <1>2, <3>1, ResultFacts DEF StagedFor
      <4>2. body[p][j].res # r
        BY <2>2, <4>1 DEF NotPending
      <4> QED
        BY <1>2, <2>2, <3>1, <4>1, <4>2 DEF StagedFor
    <3> QED
      BY <3>1 DEF Counted
  <2>5. Owned'
    <3> SUFFICES ASSUME ~starved, NEW o \in Resource, staged'[o].mode = "immediate",
                        NEW p, p = staged'[o].request
                 PROVE  \E j \in DOMAIN results[p] :
                          staged'[o].params = <<p, j>> /\ results[p][j] = "ok" /\ Outstanding(p, j)'
      BY <1>2, <2>1 DEF Owned, Immediate
    <3>1. o # r /\ staged'[o] = staged[o]
      BY <2>2 DEF NotPending
    <3>2. Immediate(o) /\ staged[o].mode = "immediate" /\ p \in Request /\ staged[o].request = p
      BY <3>1, StagedFacts DEF Immediate
    <3>3. PICK j \in DOMAIN results[p] :
            staged[o].params = <<p, j>> /\ results[p][j] = "ok" /\ Outstanding(p, j)
      BY <3>2 DEF Owned
    <3>4. body[p][j].res = o /\ body[p][j].kind = "immediate"
      BY <3>2, <3>3, StagedFacts
    <3> QED
      BY <1>4, <3>1, <3>2, <3>3, <3>4
  <2> QED
    BY <2>3, <2>4, <2>5
<1> QED
  BY <1>5, <1>6

\* The thread activates, or fails to: an activation is counted once, for it was
\* not done before, and is done from then on or no longer pending.
LEMMA PassSafe ==
    ASSUME SafetyInv, NEW failed \in SUBSET Resource, Pass(failed)
    PROVE  StagedByItem' /\ Counted' /\ Owned'
<1> USE DEF SafetyInv
<1> DEFINE done == Pending \ failed
<1>1. /\ staged' = [r \in Resource |->
                        IF r \in done /\ Immediate(r) THEN Processed(staged[r])
                        ELSE IF r \in Pending THEN NotPending(staged[r].params)
                        ELSE staged[r]]
      /\ count' = [i \in Items |-> IF \E r \in done : staged[r].params = i THEN count[i] + 1 ELSE count[i]]
      /\ UNCHANGED <<body, pc, pos, results, starved>>
  BY DEF Pass, handlers
<1>2. \A r \in Pending : r \in Resource /\ staged[r].mode # "null" /\ ~staged[r].done
  BY DEF Pending, Immediate, Scheduled, StagedByItem
<1>3. ASSUME NEW r \in Resource
      PROVE  /\ staged'[r].params = staged[r].params
             /\ \/ /\ r \in done /\ staged[r].mode = "immediate"
                   /\ staged'[r].mode = "immediate" /\ staged'[r].request = staged[r].request /\ staged'[r].done
                \/ /\ r \in Pending
                   /\ staged'[r].mode = "null" /\ staged'[r].request = None /\ ~staged'[r].done
                \/ r \notin Pending /\ staged'[r] = staged[r]
  <2>1. \/ r \in done /\ staged[r].mode = "immediate" /\ staged'[r] = Processed(staged[r])
        \/ r \in Pending /\ staged'[r] = NotPending(staged[r].params)
        \/ r \notin Pending /\ staged'[r] = staged[r]
    BY <1>1 DEF Immediate
  <2> QED
    BY <2>1 DEF Processed, NotPending
<1> HIDE DEF done
<1>4. done \subseteq Pending
  BY DEF done
<1>5. StagedByItem'
  <2> SUFFICES ASSUME NEW r \in Resource
               PROVE  /\ staged'[r].mode = "null" <=> staged'[r].request = None
                      /\ staged'[r].done => staged'[r].mode = "immediate"
                      /\ staged'[r].mode # "null" =>
                            \E i \in DOMAIN results[staged'[r].request] :
                                /\ staged'[r].params = <<staged'[r].request, i>>
                                /\ body[staged'[r].request][i] = [res |-> r, kind |-> staged'[r].mode]
    BY <1>1 DEF StagedByItem
  <2>1. /\ staged[r].mode = "null" <=> staged[r].request = None
        /\ staged[r].done => staged[r].mode = "immediate"
        /\ staged[r].mode # "null" =>
              \E i \in DOMAIN results[staged[r].request] :
                  /\ staged[r].params = <<staged[r].request, i>>
                  /\ body[staged[r].request][i] = [res |-> r, kind |-> staged[r].mode]
    BY DEF StagedByItem
  <2> QED
    BY <1>3, <2>1
<1>6. Counted'
  <2> SUFFICES ASSUME NEW p \in Request, NEW i \in 1..MaxItems
               PROVE  /\ count'[<<p, i>>] \in {0, 1}
                      /\ count'[<<p, i>>] = 1 =>
                            i \in DOMAIN results[p] /\ body[p][i].kind \in {"immediate", "scheduled"}
                      /\ i \in DOMAIN results[p] /\ StagedFor(p, i)' =>
                            (count'[<<p, i>>] = 1 <=> staged'[body[p][i].res].done)
    BY <1>1 DEF Counted
  <2> DEFINE o == body[p][i].res
  <2>1. /\ count[<<p, i>>] \in {0, 1}
        /\ count[<<p, i>>] = 1 => i \in DOMAIN results[p] /\ body[p][i].kind \in {"immediate", "scheduled"}
        /\ i \in DOMAIN results[p] /\ StagedFor(p, i) => (count[<<p, i>>] = 1 <=> staged[o].done)
    BY DEF Counted
  <2>2. ASSUME NEW r \in Pending, staged[r].params = <<p, i>>
        PROVE  /\ r = o /\ i \in DOMAIN results[p] /\ count[<<p, i>>] = 0
               /\ body[p][i].kind \in {"immediate", "scheduled"}
    <3>1. r \in Resource /\ staged[r].mode # "null" /\ ~staged[r].done
      BY <1>2
    <3>2. i \in DOMAIN results[p] /\ o = r /\ body[p][i].kind = staged[r].mode
      BY <2>2, <3>1, StagedFacts
    <3>3. count[<<p, i>>] = 0
      BY <2>1, <2>2, <3>1, <3>2 DEF StagedFor
    <3>4. staged[r].mode \in {"immediate", "scheduled"}
      BY <3>1 DEF TypeOK
    <3> QED
      BY <3>2, <3>3, <3>4
  <2>3. <<p, i>> \in Items
    BY DEF Items
  <2>4. CASE \E r \in done : staged[r].params = <<p, i>>
    <3>1. count'[<<p, i>>] = count[<<p, i>>] + 1
      BY <1>1, <2>3, <2>4
    <3>2. /\ o \in done /\ i \in DOMAIN results[p] /\ count[<<p, i>>] = 0
          /\ body[p][i].kind \in {"immediate", "scheduled"}
      BY <1>4, <2>2, <2>4
    <3>3. StagedFor(p, i)' => staged'[o].done
      <4>1. StagedFor(p, i)' => staged'[o].mode # "null"
        BY <1>1 DEF StagedFor
      <4>2. o \in Resource /\ o \in Pending
        BY <1>2, <1>4, <3>2
      <4> QED
        BY <1>3, <4>1, <4>2
    <3> QED
      BY <3>1, <3>2, <3>3
  <2>5. CASE ~\E r \in done : staged[r].params = <<p, i>>
    <3>1. count'[<<p, i>>] = count[<<p, i>>]
      BY <1>1, <2>3, <2>5
    <3>2. ASSUME i \in DOMAIN results[p], StagedFor(p, i)'
          PROVE  staged'[o] = staged[o] /\ StagedFor(p, i)
      <4>1. o \in Resource
        BY <3>2, ResultFacts
      <4>2. staged'[o].mode # "null" /\ staged'[o].params = <<p, i>>
        BY <1>1, <3>2 DEF StagedFor
      <4>3. staged[o].params = <<p, i>> /\ o \notin Pending
        BY <1>3, <2>5, <4>1, <4>2
      <4>4. staged'[o] = staged[o]
        BY <1>3, <1>4, <4>1, <4>3
      <4> QED
        BY <4>2, <4>4 DEF StagedFor
    <3> QED
      BY <2>1, <3>1, <3>2
  <2> QED
    BY <2>4, <2>5
<1>7. Owned'
  <2> SUFFICES ASSUME ~starved, NEW r \in Resource, staged'[r].mode = "immediate"
               PROVE  staged[r].mode = "immediate" /\ staged[r].request = staged'[r].request
                      /\ staged[r].params = staged'[r].params
    BY <1>1 DEF Owned, Immediate, Outstanding
  <2> QED
    BY <1>3
<1> QED
  BY <1>5, <1>6, <1>7

\* Every step keeps the safety invariant.
LEMMA SafetyStep ==
    ASSUME SafetyInv, [Next]_vars
    PROVE  SafetyInv'
<1>1. TypeOK' /\ Handlers'
  BY TypeStep DEF SafetyInv
<1> USE DEF SafetyInv
<1>2. ASSUME NEW q \in Request, NEW items \in Bodies, Receive(q, items)
      PROVE  StagedByItem' /\ Counted' /\ Owned'
  <2>1. /\ UNCHANGED <<staged, count, starved, results, pos>>
        /\ pc' = [pc EXCEPT ![q] = "patch"] /\ body' = [body EXCEPT ![q] = items] /\ pc[q] = "none"
    BY <1>2 DEF Receive, resources
  <2>2. results[q] = <<>>
    BY <2>1 DEF Handlers
  <2>3. \A p \in Request : \A i \in DOMAIN results[p] :
            p # q /\ i \in DOMAIN results'[p] /\ body'[p][i] = body[p][i] /\ pc'[p] = pc[p]
    BY <2>1, <2>2 DEF TypeOK
  <2>4. \A p \in Request : \A i \in DOMAIN results[p] : Outstanding(p, i) => Outstanding(p, i)'
    BY <2>1, <2>3 DEF Outstanding
  <2> QED
    BY <1>1, <2>1, <2>3, <2>4, HandlerSafe
<1>3. ASSUME NEW q \in Request, pc[q] \in {"patch", "blocked"}, Refuse(q)
      PROVE  StagedByItem' /\ Counted' /\ Owned'
  <2>1. UNCHANGED <<staged, count, starved>> /\ Record(q, "error")
    BY <1>3 DEF Refuse, resources
  <2> DEFINE n == pos[q]
  <2>2. /\ n \in 1..Len(body[q]) /\ n \in 1..MaxItems /\ body' = body
        /\ DOMAIN results[q] = 1..(n - 1) /\ DOMAIN results'[q] = 1..n
        /\ \A i \in 1..(n - 1) : results'[q][i] = results[q][i]
        /\ \A p \in Request \ {q} : results'[p] = results[p] /\ pc'[p] = pc[p] /\ pos'[p] = pos[p]
        /\ \/ pc'[q] = "patch" /\ pos'[q] = n + 1 /\ n < Len(body[q])
           \/ pc'[q] = "collect" /\ pos'[q] = 1 /\ n = Len(body[q])
    BY <1>3, <2>1, RecordEffect
  <2>3. \A p \in Request : \A i \in DOMAIN results[p] :
            i \in DOMAIN results'[p] /\ results'[p][i] = results[p][i]
    <3> SUFFICES ASSUME NEW p \in Request, NEW i \in DOMAIN results[p]
                 PROVE  i \in DOMAIN results'[p] /\ results'[p][i] = results[p][i]
      OBVIOUS
    <3>1. CASE p = q
      BY <2>2, <3>1
    <3>2. CASE p # q
      BY <2>2, <3>2
    <3> QED
      BY <3>1, <3>2
  <2>4. \A p \in Request : \A i \in DOMAIN results[p] : Outstanding(p, i) => Outstanding(p, i)'
    BY <2>2 DEF Outstanding
  <2> QED
    BY <1>1, <2>1, <2>2, <2>3, <2>4, HandlerSafe
<1>4. ASSUME NEW q \in Request, PatchBlocks(q)
      PROVE  StagedByItem' /\ Counted' /\ Owned'
  <2>1. UNCHANGED <<staged, count, starved, body, results, pos>> /\ pc' = [pc EXCEPT ![q] = "blocked"]
    BY <1>4 DEF PatchBlocks, resources
  <2>2. \A p \in Request : \A i \in DOMAIN results[p] : Outstanding(p, i) => Outstanding(p, i)'
    BY <2>1 DEF Outstanding, TypeOK
  <2> QED
    BY <1>1, <2>1, <2>2, HandlerSafe
<1>5. ASSUME NEW q \in Request, Collect(q)
      PROVE  StagedByItem' /\ Counted' /\ Owned'
  <2> DEFINE todo == Remaining(q, pos[q])
  <2>1. todo \subseteq Nat /\ pc[q] = "collect"
    BY <1>5, ResultFacts DEF Remaining, Collect, TypeOK
  <2>2. todo # {} => First(todo) \in todo /\ \A j \in todo : First(todo) <= j
    BY <2>1, FirstIsLeast
  <2>3. CASE todo # {} /\ Modified(q, First(todo))
    BY <1>1, <1>5, <2>1, <2>2, <2>3, FinishSafe DEF Collect
  <2>4. CASE ~(todo # {} /\ Modified(q, First(todo)))
    <3>1. /\ pc' = [pc EXCEPT ![q] = IF todo = {} THEN "replied" ELSE "await"]
          /\ pos' = [pos EXCEPT ![q] = IF todo = {} THEN 1 ELSE First(todo)]
          /\ UNCHANGED <<staged, count, starved, body, results>>
      BY <1>5, <2>4 DEF Collect, resources
    <3>2. ASSUME NEW p \in Request, NEW i \in DOMAIN results[p], results[p][i] = "ok", Outstanding(p, i),
                 StagedFor(p, i), Immediate(body[p][i].res)
          PROVE  Outstanding(p, i)'
      <4>1. CASE p # q
        BY <3>1, <3>2, <4>1 DEF Outstanding, TypeOK
      <4>2. CASE p = q
        <5>1. body[q][i].res \in Resource /\ i \in 1..Len(body[q])
          BY <3>2, <4>2, ResultFacts
        <5>2. body[q][i].kind = "immediate"
          BY <3>2, <4>2, <5>1, StagedFacts DEF StagedFor, Immediate
        <5>3. i \in todo
          BY <2>1, <3>2, <4>2, <5>1, <5>2 DEF Outstanding, Remaining, TypeOK
        <5> QED
          BY <2>2, <3>1, <4>2, <5>3 DEF Outstanding, TypeOK
      <4> QED
        BY <4>1, <4>2
    <3> QED
      BY <1>1, <3>1, <3>2, HandlerSafe
  <2> QED
    BY <2>3, <2>4
<1>6. ASSUME NEW q \in Request, Awaited(q)
      PROVE  StagedByItem' /\ Counted' /\ Owned'
  <2>1. pos[q] \in Remaining(q, pos[q]) /\ \A j \in Remaining(q, pos[q]) : pos[q] <= j
    BY <1>6 DEF Awaited, Handlers, Remaining
  <2> QED
    BY <1>1, <1>6, <2>1, FinishSafe DEF Awaited
<1>7. ASSUME NEW q \in Request, AwaitTimeout(q)
      PROVE  StagedByItem' /\ Counted' /\ Owned'
  <2>1. /\ starved /\ UNCHANGED <<staged, count, starved, body>>
        /\ results' = [results EXCEPT ![q] = [results[q] EXCEPT ![pos[q]] = "error"]]
    BY <1>7 DEF AwaitTimeout, resources
  <2>2. \A p \in Request : \A i \in DOMAIN results[p] : i \in DOMAIN results'[p]
    BY <2>1 DEF TypeOK
  <2> QED
    BY <1>1, <2>1, <2>2, HandlerSafe
<1>8. CASE UNCHANGED <<staged, count, starved, handlers>>
  <2>1. UNCHANGED <<staged, count, starved, body, pc, pos, results>>
    BY <1>8 DEF handlers
  <2>2. \A p \in Request : \A i \in DOMAIN results[p] : Outstanding(p, i) => Outstanding(p, i)'
    BY <2>1 DEF Outstanding
  <2>3. StagedByItem' /\ Counted' /\ Owned'
    BY <1>1, <2>1, <2>2, HandlerSafe
  <2> QED
    BY <1>1, <2>3
<1>9. ASSUME NEW q \in Request, Handle(q) \/ Unblocked(q) \/ BlockedTimeout(q)
      PROVE  StagedByItem' /\ Counted' /\ Owned'
  <2>1. CASE PatchLocked(q) \/ PatchSame(q) \/ PatchInvalid(q) \/ BlockedTimeout(q)
    BY <2>1, <1>3 DEF PatchLocked, PatchSame, PatchInvalid, BlockedTimeout
  <2>2. CASE Patch(q) \/ Unblocked(q)
    BY <1>1, <1>3, <2>2, StageSafe DEF Patch, Unblocked
  <2> QED
    BY <1>9, <2>1, <2>2, <1>4, <1>5 DEF Handle
<1>10. CASE Activate \/ (\E w \in Request \cup {Thread} : WakeInVain(w)) \/ (\E r \in Resource : Elapse(r))
  BY <1>1, <1>8, <1>10, PassSafe DEF Activate, WakeInVain, Elapse, resources
<1>11. CASE UNCHANGED vars
  BY <1>8, <1>11 DEF vars, resources
<1> QED
  BY <1>1, <1>2, <1>6, <1>7, <1>9, <1>10, <1>11 DEF Next

\* Initially nothing is staged by a request.
LEMMA SafetyInit ==
    ASSUME Init
    PROVE  SafetyInv
<1>1. TypeOK /\ Handlers
  BY TypeInit
<1>2. \A r \in Resource : staged[r].mode = "null" /\ staged[r].request = None /\ ~staged[r].done
  BY DEF Init, NotPending
<1>3. \A q \in Request : results[q] = <<>>
  BY DEF Init
<1>4. \A q \in Request : \A i \in 1..MaxItems : count[<<q, i>>] = 0
  BY DEF Init, Items
<1> QED
  BY <1>1, <1>2, <1>3, <1>4 DEF SafetyInv, StagedByItem, Counted, Owned, Immediate

\* The staged parameters of an item become active once at the most, and only if
\* the item asked for it: two activations that overlap, of one request or of
\* several, or one that the thread finds again, never perform the same one twice.
THEOREM ActivatedOnceHolds == Spec => []ActivatedOnce
<1>1. SafetyInv => ActivatedOnce
  <2> SUFFICES ASSUME SafetyInv, NEW q \in Request, NEW i \in 1..MaxItems
               PROVE  count[<<q, i>>] <= IF i <= Len(body[q]) /\ body[q][i].kind \in {"immediate", "scheduled"}
                                         THEN 1 ELSE 0
    BY DEF ActivatedOnce
  <2>1. count[<<q, i>>] \in {0, 1}
    BY DEF SafetyInv, Counted
  <2>2. count[<<q, i>>] = 1 => i <= Len(body[q]) /\ body[q][i].kind \in {"immediate", "scheduled"}
    BY ResultFacts DEF SafetyInv, Counted
  <2> QED
    BY <2>1, <2>2
<1> QED
  BY <1>1, SafetyInit, SafetyStep, PTL DEF Spec

\* An immediate activation that locks a resource belongs to a request that has
\* not been answered, and that has not come past it where it collects: unless
\* the thread was starved, no lock outlives the request that has to release it.
THEOREM LockOwnedHolds == Spec => []LockOwned
<1>1. SafetyInv => LockOwned
  <2> SUFFICES ASSUME SafetyInv, ~starved, NEW r \in Resource, Immediate(r)
               PROVE  /\ pc[staged[r].request] \notin {"none", "replied"}
                      /\ \E i \in 1..Len(results[staged[r].request]) :
                            /\ staged[r].params = <<staged[r].request, i>>
                            /\ results[staged[r].request][i] = "ok"
                            /\ pc[staged[r].request] \in {"collect", "await"} => pos[staged[r].request] <= i
    BY DEF LockOwned
  <2> DEFINE q == staged[r].request
  <2>1. q \in Request
    BY StagedFacts DEF SafetyInv, Immediate
  <2>2. PICK i \in DOMAIN results[q] : staged[r].params = <<q, i>> /\ results[q][i] = "ok" /\ Outstanding(q, i)
    BY DEF SafetyInv, Owned
  <2>3. i \in 1..Len(results[q])
    BY <2>1, <2>2, ResultFacts DEF SafetyInv
  <2> QED
    BY <2>2, <2>3 DEF Outstanding
<1> QED
  BY <1>1, SafetyInit, SafetyStep, PTL DEF Spec

-----------------------------------------------------------------------------
(* The answers *)

\* Items of one resource follow each other in a request.  The premise is needed:
\* between items that do not, the request may give the mutex up.
Consecutive ==
    \A b \in Bodies : \A i, k, j \in DOMAIN b :
        i < k /\ k < j /\ b[i].res = b[j].res => b[k].res = b[i].res

\* An item gets its result: what was accepted of its resource is the request's own.
LEMMA AcceptedRecord ==
    ASSUME Consecutive, SafetyInv, OneAccepted, NEW q \in Request, NEW result \in {"ok", "error"},
           pc[q] \in {"patch", "blocked"}, holder \in {None, q}, Record(q, result),
           result = "ok" => staged' = [staged EXCEPT ![Item(q).res] = Merged(q)] /\ ~Immediate(Item(q).res),
           result = "error" => staged' = staged
    PROVE  OneAccepted'
<1> USE DEF SafetyInv
<1> DEFINE n == pos[q]
           r == Item(q).res
<1>1. /\ n \in 1..Len(body[q]) /\ n \in 1..MaxItems
      /\ body' = body
      /\ DOMAIN results[q] = 1..(n - 1) /\ DOMAIN results'[q] = 1..n
      /\ \A i \in 1..(n - 1) : results'[q][i] = results[q][i]
      /\ results'[q][n] = result
      /\ \A p \in Request \ {q} : results'[p] = results[p] /\ pc'[p] = pc[p] /\ pos'[p] = pos[p]
      /\ \/ pc'[q] = "patch" /\ pos'[q] = n + 1 /\ n < Len(body[q])
         \/ pc'[q] = "collect" /\ pos'[q] = 1 /\ n = Len(body[q])
  BY RecordEffect
<1>2. /\ body[q][n] = Item(q) /\ r \in Resource /\ MaxItems \in Nat
      /\ Len(body[q]) \in 0..MaxItems /\ body[q] \in Bodies /\ DOMAIN body[q] = 1..Len(body[q])
  BY <1>1, ResultFacts, BodyFacts DEF Item, TypeOK, Handlers
<1>3. ASSUME NEW i \in 1..(n - 1), Accepted(q, i), body[q][i].res = r
      PROVE  pc[q] = "patch" /\ Own(q, i) /\ Immediate(r)
  <2>1. i \in DOMAIN results[q]
    BY <1>1
  <2> QED
    BY <1>3, <2>1 DEF OneAccepted, Own
<1>4. ASSUME NEW i \in 1..(n - 1)
      PROVE  Accepted(q, i)' <=> Accepted(q, i)
  BY <1>1 DEF Accepted
<1>5. ASSUME NEW i \in DOMAIN results'[q], NEW j \in DOMAIN results'[q],
             Accepted(q, i)', Accepted(q, j)', body[q][i].res = body[q][j].res, i < j
      PROVE  FALSE
  <2>1. i \in 1..(n - 1) /\ j \in 1..n
    BY <1>1, <1>5
  <2>2. CASE j = n
    <3>1. result = "ok"
      BY <1>1, <1>5, <2>2 DEF Accepted
    <3>2. Immediate(r)
      BY <1>2, <1>3, <1>4, <1>5, <2>1, <2>2
    <3> QED
      BY <3>1, <3>2
  <2>3. CASE j # n
    <3>1. j \in 1..(n - 1)
      BY <2>1, <2>3, <1>1
    <3> QED
      BY <1>1, <1>4, <1>5, <2>1, <3>1 DEF OneAccepted
  <2> QED
    BY <2>2, <2>3
<1>6. ASSUME NEW i \in DOMAIN results'[q], pc'[q] \in {"patch", "blocked"},
             Accepted(q, i)', body[q][i].res = body[q][n + 1].res
      PROVE  pc'[q] = "patch" /\ Own(q, i)'
  <2>1. pc'[q] = "patch" /\ n + 1 \in 1..Len(body[q]) /\ i \in 1..n
    BY <1>1, <1>2, <1>6
  <2>2. CASE i < n
    <3>1. i \in 1..(n - 1) /\ n < n + 1
      BY <1>1, <2>1, <2>2
    <3>2. body[q][n].res = body[q][i].res
      <4>1. i \in DOMAIN body[q] /\ n \in DOMAIN body[q] /\ n + 1 \in DOMAIN body[q]
        BY <1>1, <1>2, <2>1, <3>1
      <4> QED
        BY <1>2, <1>6, <2>2, <3>1, <4>1 DEF Consecutive
    <3>3. Own(q, i) /\ Immediate(r)
      BY <1>2, <1>3, <1>4, <1>6, <3>1, <3>2
    <3>4. staged' = staged
      BY <3>3
    <3> QED
      BY <1>1, <2>1, <3>3, <3>4 DEF Own, Immediate
  <2>3. CASE i = n
    <3>1. result = "ok" /\ Item(q).kind = "immediate"
      BY <1>1, <1>2, <1>6, <2>3 DEF Accepted
    <3>2. staged'[r] = Merged(q)
      BY <1>2, <3>1 DEF TypeOK
    <3>3. Merged(q).mode = "immediate" /\ Merged(q).request = q
      BY <3>1 DEF Merged
    <3>4. staged'[body'[q][i].res].mode = "immediate" /\ staged'[body'[q][i].res].request = q
      BY <1>1, <1>2, <2>3, <3>2, <3>3
    <3> QED
      BY <2>1, <3>4 DEF Own, Immediate
  <2> QED
    BY <1>1, <2>1, <2>2, <2>3
<1>7. ASSUME NEW p \in Request \ {q}, pc[p] \in {"patch", "blocked"}
      PROVE  pc[p] = "blocked"
  BY <1>7 DEF TypeOK, None, Request
<1> HIDE DEF n, r
<1> SUFFICES ASSUME NEW p \in Request
             PROVE  /\ \A i, j \in DOMAIN results'[p] :
                        Accepted(p, i)' /\ Accepted(p, j)' /\ body'[p][i].res = body'[p][j].res => i = j
                    /\ pc'[p] \in {"patch", "blocked"} =>
                        \A i \in DOMAIN results'[p] :
                            Accepted(p, i)' /\ body'[p][i].res = body'[p][pos'[p]].res
                                => pc'[p] = "patch" /\ Own(p, i)'
  BY DEF OneAccepted, Item
<1>8. CASE p = q
  <2>1. \A i, j \in DOMAIN results'[q] : i < j \/ j < i \/ i = j
    BY <1>1
  <2>2. pc'[q] \in {"patch", "blocked"} => pos'[q] = n + 1
    BY <1>1
  <2> QED
    BY <1>1, <1>5, <1>6, <1>8, <2>1, <2>2
<1>9. CASE p # q
  <2>1. results'[p] = results[p] /\ pc'[p] = pc[p] /\ pos'[p] = pos[p] /\ body' = body
    BY <1>1, <1>9
  <2>2. \A i \in DOMAIN results[p] : Accepted(p, i)' <=> Accepted(p, i)
    BY <2>1 DEF Accepted
  <2> QED
    BY <1>7, <1>9, <2>1, <2>2 DEF OneAccepted, Item
<1> QED
  BY <1>8, <1>9

\* Its own result is true, and those of others stay true.
LEMMA ReportedRecord ==
    ASSUME SafetyInv, OneAccepted, Reported, NEW q \in Request, NEW result \in {"ok", "error"},
           pc[q] \in {"patch", "blocked"}, Record(q, result), UNCHANGED <<count, starved>>,
           result = "ok" => staged' = [staged EXCEPT ![Item(q).res] = Merged(q)] /\ ~Immediate(Item(q).res),
           result = "error" => staged' = staged
    PROVE  Reported'
<1> USE DEF SafetyInv
<1> DEFINE n == pos[q]
           r == Item(q).res
<1>1. /\ n \in 1..Len(body[q]) /\ n \in 1..MaxItems
      /\ body' = body
      /\ DOMAIN results[q] = 1..(n - 1) /\ DOMAIN results'[q] = 1..n
      /\ \A i \in 1..(n - 1) : results'[q][i] = results[q][i]
      /\ results'[q][n] = result
      /\ \A p \in Request \ {q} : results'[p] = results[p] /\ pc'[p] = pc[p] /\ pos'[p] = pos[p]
      /\ \/ pc'[q] = "patch" /\ pos'[q] = n + 1 /\ n < Len(body[q])
         \/ pc'[q] = "collect" /\ pos'[q] = 1 /\ n = Len(body[q])
  BY RecordEffect
<1>2. body[q][n] = Item(q) /\ r \in Resource
  BY <1>1, ResultFacts DEF Item
<1>3. result = "ok" => staged'[r] = Merged(q) /\ \A o \in Resource \ {r} : staged'[o] = staged[o]
  BY <1>2 DEF TypeOK
<1>4. count[<<q, n>>] = 0
  BY <1>1 DEF Counted
<1> HIDE DEF n, r
<1> SUFFICES ASSUME NEW p \in Request, NEW i \in DOMAIN results'[p], body[p][i].kind = "immediate"
             PROVE  /\ results'[p][i] = "ok" /\ Outstanding(p, i)' =>
                        IF Own(p, i)' THEN staged'[body[p][i].res].params = <<p, i>> ELSE count[<<p, i>>] = 0
                    /\ results'[p][i] = "ok" /\ ~Outstanding(p, i)' => count[<<p, i>>] = 1
                    /\ results'[p][i] = "error" /\ ~starved => count[<<p, i>>] = 0
  BY <1>1 DEF Reported
<1>5. CASE p = q /\ i = n
  <2>1. results'[p][i] = result /\ count[<<p, i>>] = 0
    BY <1>1, <1>4, <1>5
  <2>2. Outstanding(p, i)'
    BY <1>1, <1>5 DEF Outstanding
  <2>3. result = "ok" => staged'[body[p][i].res].params = <<p, i>>
    BY <1>2, <1>3, <1>5 DEF Merged, NotPending, n, r
  <2> QED
    BY <2>1, <2>2, <2>3
<1>6. CASE ~(p = q /\ i = n)
  <2>1. i \in DOMAIN results[p] /\ results'[p][i] = results[p][i]
    BY <1>1, <1>6
  <2>2. Outstanding(p, i)' <=> Outstanding(p, i)
    <3>1. CASE p = q
      BY <1>1, <2>1, <3>1 DEF Outstanding
    <3>2. CASE p # q
      BY <1>1, <3>2 DEF Outstanding
    <3> QED
      BY <3>1, <3>2
  <2>3. ASSUME results[p][i] = "ok"
        PROVE  /\ Own(p, i)' <=> Own(p, i)
               /\ Own(p, i) => staged'[body[p][i].res] = staged[body[p][i].res]
    <3>1. body[p][i].res \in Resource
      BY <2>1, ResultFacts
    <3>2. CASE result = "error" \/ body[p][i].res # r
      <4>1. staged'[body[p][i].res] = staged[body[p][i].res] /\ body' = body
        BY <1>1, <1>3, <3>1, <3>2
      <4> QED
        BY <4>1 DEF Own, Immediate
    <3>3. CASE result = "ok" /\ body[p][i].res = r
      <4>1. ~Own(p, i)
        BY <3>3 DEF Own, r
      <4>2. p # q
        BY <2>1, <2>3, <3>3, <4>1 DEF OneAccepted, Accepted, r
      <4>3. Merged(q).mode = "immediate" => Merged(q).request = q
        BY DEF Merged, NotPending
      <4>4. ~Own(p, i)'
        BY <1>1, <1>3, <3>3, <4>2, <4>3 DEF Own, Immediate
      <4> QED
        BY <4>1, <4>4
    <3> QED
      BY <3>2, <3>3
  <2> QED
    BY <2>1, <2>2, <2>3 DEF Reported
<1> QED
  BY <1>5, <1>6

\* A step by which no item is accepted accepts none twice.
LEMMA AcceptedKeep ==
    ASSUME OneAccepted,
           \A p \in Request : \A i \in DOMAIN results'[p] :
                /\ i \in DOMAIN results[p] /\ body'[p][i] = body[p][i]
                /\ results'[p][i] = "ok" => results[p][i] = "ok",
           \A p \in Request : pc'[p] \in {"patch", "blocked"} =>
                \/ results'[p] = <<>>
                \/ /\ pos'[p] = pos[p] /\ body'[p] = body[p]
                   /\ \/ pc[p] = "blocked"
                      \/ pc'[p] = pc[p] /\ staged' = staged
                      \/ \A i \in DOMAIN results[p] : ~(Accepted(p, i) /\ body[p][i].res = Item(p).res)
    PROVE  OneAccepted'
<1>1. \A p \in Request : \A i \in DOMAIN results'[p] :
        Accepted(p, i)' => i \in DOMAIN results[p] /\ Accepted(p, i) /\ body'[p][i] = body[p][i]
  BY DEF Accepted
<1> SUFFICES ASSUME NEW p \in Request
             PROVE  /\ \A i, j \in DOMAIN results'[p] :
                        Accepted(p, i)' /\ Accepted(p, j)' /\ body'[p][i].res = body'[p][j].res => i = j
                    /\ pc'[p] \in {"patch", "blocked"} =>
                        \A i \in DOMAIN results'[p] :
                            Accepted(p, i)' /\ body'[p][i].res = body'[p][pos'[p]].res
                                => pc'[p] = "patch" /\ Own(p, i)'
  BY DEF OneAccepted, Item
<1>2. \A i, j \in DOMAIN results'[p] :
        Accepted(p, i)' /\ Accepted(p, j)' /\ body'[p][i].res = body'[p][j].res => i = j
  BY <1>1 DEF OneAccepted
<1>3. ASSUME pc'[p] \in {"patch", "blocked"}, NEW i \in DOMAIN results'[p],
             Accepted(p, i)', body'[p][i].res = body'[p][pos'[p]].res
      PROVE  pc'[p] = "patch" /\ Own(p, i)'
  <2>1. i \in DOMAIN results[p] /\ Accepted(p, i) /\ body'[p][i] = body[p][i]
    BY <1>1, <1>3
  <2>2. /\ pos'[p] = pos[p] /\ body'[p] = body[p]
        /\ \/ pc[p] = "blocked"
           \/ pc'[p] = pc[p] /\ staged' = staged
           \/ ~(Accepted(p, i) /\ body[p][i].res = Item(p).res)
    BY <1>3, <2>1
  <2>3. body[p][i].res = Item(p).res
    BY <1>3, <2>1, <2>2 DEF Item
  <2>4. pc[p] \in {"patch", "blocked"} => pc[p] = "patch" /\ Own(p, i)
    BY <2>1, <2>3 DEF OneAccepted
  <2> QED
    BY <1>3, <2>1, <2>2, <2>3, <2>4 DEF Own, Immediate
<1> QED
  BY <1>2, <1>3

\* A step of the handlers that leaves the staged parameters alone keeps the
\* results true, if it fails only activations that were not performed.
LEMMA ReportedKeep ==
    ASSUME Reported, UNCHANGED <<staged, count, starved>>,
           \A p \in Request : \A i \in DOMAIN results'[p] :
                /\ i \in DOMAIN results[p] /\ body'[p][i] = body[p][i]
                /\ \/ results'[p][i] = "error" /\ (starved \/ count[<<p, i>>] = 0)
                   \/ /\ results'[p][i] = results[p][i]
                      /\ Accepted(p, i) => (Outstanding(p, i)' <=> Outstanding(p, i))
    PROVE  Reported'
<1> SUFFICES ASSUME NEW p \in Request, NEW i \in DOMAIN results'[p], body'[p][i].kind = "immediate"
             PROVE  /\ results'[p][i] = "ok" /\ Outstanding(p, i)' =>
                        IF Own(p, i)' THEN staged[body'[p][i].res].params = <<p, i>> ELSE count[<<p, i>>] = 0
                    /\ results'[p][i] = "ok" /\ ~Outstanding(p, i)' => count[<<p, i>>] = 1
                    /\ results'[p][i] = "error" /\ ~starved => count[<<p, i>>] = 0
  BY DEF Reported
<1>1. i \in DOMAIN results[p] /\ body'[p][i] = body[p][i]
  OBVIOUS
<1>2. Own(p, i)' <=> Own(p, i)
  BY <1>1 DEF Own, Immediate
<1>3. CASE results'[p][i] = "error" /\ (starved \/ count[<<p, i>>] = 0)
  BY <1>3
<1>4. CASE results'[p][i] = results[p][i] /\ (Accepted(p, i) => (Outstanding(p, i)' <=> Outstanding(p, i)))
  BY <1>1, <1>2, <1>4 DEF Reported, Accepted
<1> QED
  BY <1>3, <1>4

\* An item is collected: it is reported as done if it is still the staged one,
\* which it is, if it was performed, and as failed if it is not, for then it was not.
LEMMA FinishTrue ==
    ASSUME SafetyInv, OneAccepted, Reported, NEW q \in Request, NEW i \in Remaining(q, pos[q]),
           \A j \in Remaining(q, pos[q]) : i <= j,
           pc[q] \in {"collect", "await"}, holder \in {None, q}, Modified(q, i), Finish(q, i)
    PROVE  OneAccepted' /\ Reported'
<1> USE DEF SafetyInv
<1> DEFINE r == body[q][i].res
<1>1. /\ i \in 1..Len(body[q]) /\ Len(results[q]) = Len(body[q]) /\ i \in DOMAIN results[q]
      /\ r \in Resource /\ i \in 1..MaxItems /\ Accepted(q, i) /\ pos[q] <= i
  BY ResultFacts DEF Remaining, Handlers, TypeOK, Accepted
<1>2. /\ UNCHANGED <<count, starved, body>>
      /\ pos' = [pos EXCEPT ![q] = i + 1]
      /\ pc' = [pc EXCEPT ![q] = "collect"]
      /\ staged' = IF Own(q, i) THEN [staged EXCEPT ![r] = NotPending(staged[r].params)] ELSE staged
      /\ results' = IF Own(q, i) THEN results ELSE [results EXCEPT ![q] = [results[q] EXCEPT ![i] = "error"]]
  BY DEF Finish
<1>3. /\ pos'[q] = i + 1 /\ pc'[q] = "collect"
      /\ \A p \in Request \ {q} : pos'[p] = pos[p] /\ pc'[p] = pc[p]
  BY <1>2 DEF TypeOK
<1>4. \A p \in Request : \A j \in DOMAIN results'[p] :
        /\ j \in DOMAIN results[p]
        /\ IF p = q /\ j = i /\ ~Own(q, i) THEN results'[p][j] = "error" ELSE results'[p][j] = results[p][j]
  BY <1>1, <1>2 DEF TypeOK
<1>5. Outstanding(q, i) /\ ~Outstanding(q, i)'
  BY <1>1, <1>3 DEF Outstanding
<1>6. ASSUME NEW p \in Request, NEW j \in DOMAIN results[p], Accepted(p, j), ~(p = q /\ j = i)
      PROVE  Outstanding(p, j)' <=> Outstanding(p, j)
  <2>1. CASE p # q
    BY <1>3, <2>1 DEF Outstanding
  <2>2. CASE p = q
    <3>1. j \in 1..Len(body[q]) /\ pos[q] \in 1..(MaxItems + 1)
      BY <1>1, <2>2, ResultFacts DEF TypeOK
    <3>2. pos[q] <= j => j \in Remaining(q, pos[q])
      BY <1>6, <2>2, <3>1 DEF Remaining, Accepted
    <3>3. pos[q] <= j <=> i + 1 <= j
      BY <1>1, <1>6, <2>2, <3>1, <3>2
    <3> QED
      BY <1>3, <2>2, <3>3 DEF Outstanding
  <2> QED
    BY <2>1, <2>2
<1>7. OneAccepted'
  <2>1. \A p \in Request : pc'[p] \in {"patch", "blocked"} =>
            p # q /\ pos'[p] = pos[p] /\ body'[p] = body[p] /\ pc[p] = "blocked"
    BY <1>2, <1>3 DEF TypeOK, None, Request
  <2> QED
    BY <1>2, <1>4, <2>1, AcceptedKeep
<1>8. CASE ~Own(q, i)
  <2>1. count[<<q, i>>] = 0
    BY <1>1, <1>5, <1>8 DEF Reported, Accepted
  <2> QED
    BY <1>2, <1>4, <1>6, <1>7, <1>8, <2>1, ReportedKeep
<1>9. CASE Own(q, i)
  <2>1. staged[r].params = <<q, i>> /\ staged[r].mode = "immediate" /\ staged[r].done
    BY <1>1, <1>5, <1>9 DEF Reported, Accepted, Own, Immediate, Modified
  <2>2. count[<<q, i>>] = 1
    BY <1>1, <2>1 DEF Counted, StagedFor
  <2>3. staged'[r].mode = "null" /\ \A o \in Resource \ {r} : staged'[o] = staged[o]
    BY <1>1, <1>2, <1>9 DEF TypeOK, NotPending
  <2> SUFFICES ASSUME NEW p \in Request, NEW j \in DOMAIN results[p], body[p][j].kind = "immediate"
               PROVE  /\ results[p][j] = "ok" /\ Outstanding(p, j)' =>
                          IF Own(p, j)' THEN staged'[body[p][j].res].params = <<p, j>> ELSE count[<<p, j>>] = 0
                      /\ results[p][j] = "ok" /\ ~Outstanding(p, j)' => count[<<p, j>>] = 1
                      /\ results[p][j] = "error" /\ ~starved => count[<<p, j>>] = 0
    BY <1>2, <1>7, <1>9 DEF Reported
  <2>4. CASE p = q /\ j = i
    BY <1>1, <1>5, <2>2, <2>4 DEF Accepted
  <2>5. CASE ~(p = q /\ j = i)
    <3>1. ASSUME results[p][j] = "ok", Outstanding(p, j)
          PROVE  /\ Own(p, j)' <=> Own(p, j)
                 /\ Own(p, j) => staged'[body[p][j].res] = staged[body[p][j].res]
      <4>1. body[p][j].res \in Resource
        BY ResultFacts
      <4>2. CASE body[p][j].res # r
        BY <1>2, <2>3, <4>1, <4>2 DEF Own, Immediate
      <4>3. CASE body[p][j].res = r
        <5>1. ~Own(p, j)'
          BY <1>2, <2>3, <4>3 DEF Own, Immediate
        <5>2. Own(p, j) => staged[r].params = <<p, j>>
          BY <3>1, <4>3 DEF Reported
        <5>3. ~Own(p, j)
          BY <2>1, <2>5, <5>2
        <5> QED
          BY <5>1, <5>3
      <4> QED
        BY <4>2, <4>3
    <3> QED
      BY <1>6, <2>5, <3>1 DEF Reported, Accepted
  <2> QED
    BY <2>4, <2>5
<1> QED
  BY <1>7, <1>8, <1>9

\* The thread activates what is staged: of items that are still to be collected.
LEMMA PassTrue ==
    ASSUME SafetyInv, OneAccepted, Reported, NEW failed \in SUBSET Resource, Pass(failed)
    PROVE  OneAccepted' /\ Reported'
<1> USE DEF SafetyInv
<1> DEFINE done == Pending \ failed
<1>1. /\ staged' = [r \in Resource |->
                        IF r \in done /\ Immediate(r) THEN Processed(staged[r])
                        ELSE IF r \in Pending THEN NotPending(staged[r].params)
                        ELSE staged[r]]
      /\ count' = [i \in Items |-> IF \E r \in done : staged[r].params = i THEN count[i] + 1 ELSE count[i]]
      /\ UNCHANGED <<body, pc, pos, results, starved>> /\ holder = None
  BY DEF Pass, handlers
<1>2. \A r \in Pending : r \in Resource /\ staged[r].mode # "null" /\ ~staged[r].done
  BY DEF Pending, Immediate, Scheduled, StagedByItem
<1>3. ASSUME NEW r \in Resource
      PROVE  /\ staged'[r].params = staged[r].params
             /\ \/ r \in done /\ staged'[r].mode = "immediate" /\ staged[r].mode = "immediate"
                   /\ staged'[r].request = staged[r].request
                \/ r \in Pending /\ staged'[r].mode = "null"
                \/ r \notin Pending /\ staged'[r] = staged[r]
             /\ r \in done /\ staged[r].mode = "immediate" => staged'[r].mode = "immediate"
                   /\ staged'[r].request = staged[r].request
  <2>1. \/ r \in done /\ staged[r].mode = "immediate" /\ staged'[r] = Processed(staged[r])
        \/ r \in Pending /\ ~(r \in done /\ staged[r].mode = "immediate") /\ staged'[r] = NotPending(staged[r].params)
        \/ r \notin Pending /\ staged'[r] = staged[r]
    BY <1>1 DEF Immediate
  <2> QED
    BY <2>1 DEF Processed, NotPending
<1>4. done \subseteq Pending
  OBVIOUS
<1>5. OneAccepted'
  <2>1. \A p \in Request : pc[p] # "patch"
    BY <1>1 DEF TypeOK, None, Request
  <2>2. \A p \in Request : pc'[p] \in {"patch", "blocked"} => pc[p] = "blocked" /\ pos'[p] = pos[p] /\ body'[p] = body[p]
    BY <1>1, <2>1
  <2>3. \A p \in Request : \A i \in DOMAIN results'[p] :
            i \in DOMAIN results[p] /\ body'[p][i] = body[p][i] /\ (results'[p][i] = "ok" => results[p][i] = "ok")
    BY <1>1
  <2> QED
    BY <2>2, <2>3, AcceptedKeep
<1> HIDE DEF done
<1>6. Counted'
  BY PassSafe
<1>7. Reported'
  <2> SUFFICES ASSUME NEW p \in Request, NEW i \in DOMAIN results[p], body[p][i].kind = "immediate"
               PROVE  /\ results[p][i] = "ok" /\ Outstanding(p, i) =>
                          IF Own(p, i)' THEN staged'[body[p][i].res].params = <<p, i>> ELSE count'[<<p, i>>] = 0
                      /\ results[p][i] = "ok" /\ ~Outstanding(p, i) => count'[<<p, i>>] = 1
                      /\ results[p][i] = "error" /\ ~starved => count'[<<p, i>>] = 0
    BY <1>1 DEF Reported, Outstanding
  <2> DEFINE o == body[p][i].res
  <2>1. o \in Resource /\ i \in 1..MaxItems /\ <<p, i>> \in Items
    BY ResultFacts DEF Items
  <2>2. count[<<p, i>>] \in {0, 1} /\ count'[<<p, i>>] \in {0, 1}
    BY <1>6, <2>1 DEF Counted
  <2>3. ASSUME count'[<<p, i>>] # count[<<p, i>>]
        PROVE  /\ o \in done /\ Own(p, i) /\ staged[o].params = <<p, i>> /\ staged[o].mode = "immediate"
               /\ staged[o].request = p /\ count'[<<p, i>>] = count[<<p, i>>] + 1
    <3>1. PICK r \in done : staged[r].params = <<p, i>>
      BY <1>1, <2>1, <2>3
    <3>2. r \in Resource /\ staged[r].mode # "null"
      BY <1>2, <1>4
    <3>3. r = o /\ staged[r].mode = "immediate" /\ staged[r].request = p
      BY <3>1, <3>2, StagedFacts
    <3>4. count'[<<p, i>>] = count[<<p, i>>] + 1
      BY <1>1, <2>1, <3>1
    <3> QED
      BY <3>1, <3>3, <3>4 DEF Own, Immediate
  <2>4. ASSUME results[p][i] = "ok", Outstanding(p, i), Own(p, i)'
        PROVE  staged'[o].params = <<p, i>>
    <3>1. staged'[o].mode = "immediate" /\ staged'[o].request = p
      BY <1>1, <2>4 DEF Own, Immediate
    <3>2. staged[o].mode = "immediate" /\ staged[o].request = p
      BY <1>3, <2>1, <3>1
    <3> QED
      BY <1>3, <2>1, <2>4, <3>2 DEF Own, Immediate, Reported
  <2>5. ASSUME results[p][i] = "ok", Outstanding(p, i), ~Own(p, i)'
        PROVE  count'[<<p, i>>] = 0
    <3>1. ~(o \in done /\ Own(p, i))
      BY <1>1, <1>3, <2>1, <2>5 DEF Own, Immediate
    <3>2. count'[<<p, i>>] = count[<<p, i>>]
      BY <2>3, <3>1
    <3>3. CASE ~Own(p, i)
      BY <2>5, <3>2, <3>3 DEF Reported
    <3>4. CASE Own(p, i)
      <4>1. staged[o].params = <<p, i>> /\ staged[o].mode = "immediate"
        BY <2>5, <3>4 DEF Reported, Own, Immediate
      <4>2. o \in Pending
        BY <1>1, <1>3, <2>1, <2>5, <3>4 DEF Own, Immediate
      <4>3. ~staged[o].done
        BY <1>2, <4>2
      <4> QED
        BY <2>1, <2>2, <3>2, <4>1, <4>3 DEF Counted, StagedFor
    <3> QED
      BY <3>3, <3>4
  <2>6. ASSUME results[p][i] = "ok", ~Outstanding(p, i)
        PROVE  count'[<<p, i>>] = 1
    BY <2>2, <2>3, <2>6 DEF Reported
  <2>7. ASSUME results[p][i] = "error", ~starved
        PROVE  count'[<<p, i>>] = 0
    <3>1. count[<<p, i>>] = 0
      BY <2>7 DEF Reported
    <3>2. ~(staged[o].mode = "immediate" /\ staged[o].request = p /\ staged[o].params = <<p, i>>)
      BY <2>1, <2>7 DEF Owned, Immediate
    <3> QED
      BY <2>3, <3>1, <3>2
  <2> QED
    BY <2>4, <2>5, <2>6, <2>7
<1> QED
  BY <1>5, <1>7

\* Every step keeps the answers true.
LEMMA OutcomeStep ==
    ASSUME Consecutive, OutcomeInv, [Next]_vars
    PROVE  OutcomeInv'
<1>1. SafetyInv'
  BY SafetyStep DEF OutcomeInv
<1> USE DEF OutcomeInv, SafetyInv
<1>2. ASSUME NEW q \in Request, NEW items \in Bodies, Receive(q, items)
      PROVE  OneAccepted' /\ Reported'
  <2>1. /\ UNCHANGED <<staged, count, starved, results, pos>>
        /\ pc' = [pc EXCEPT ![q] = "patch"] /\ body' = [body EXCEPT ![q] = items] /\ pc[q] = "none"
    BY <1>2 DEF Receive, resources
  <2>2. results[q] = <<>>
    BY <2>1 DEF Handlers
  <2>3. \A p \in Request : p = q \/ (body'[p] = body[p] /\ pc'[p] = pc[p])
    BY <2>1 DEF TypeOK
  <2>4. \A p \in Request : \A i \in DOMAIN results[p] : p # q
    BY <2>2
  <2>5. \A p \in Request : \A i \in DOMAIN results[p] : Outstanding(p, i)' <=> Outstanding(p, i)
    BY <2>1, <2>3, <2>4 DEF Outstanding
  <2> QED
    BY <2>1, <2>2, <2>3, <2>4, <2>5, AcceptedKeep, ReportedKeep
<1>3. ASSUME NEW q \in Request, pc[q] \in {"patch", "blocked"}, holder \in {None, q}, Refuse(q)
      PROVE  OneAccepted' /\ Reported'
  BY <1>3, AcceptedRecord, ReportedRecord DEF Refuse, resources
<1>4. ASSUME NEW q \in Request, pc[q] \in {"patch", "blocked"}, holder \in {None, q}, ~Immediate(Item(q).res), Stage(q)
      PROVE  OneAccepted' /\ Reported'
  BY <1>4, AcceptedRecord, ReportedRecord DEF Stage
<1>5. ASSUME NEW q \in Request, PatchBlocks(q)
      PROVE  OneAccepted' /\ Reported'
  <2>1. /\ UNCHANGED <<staged, count, starved, body, results, pos>> /\ pc' = [pc EXCEPT ![q] = "blocked"]
        /\ pc[q] = "patch" /\ staged[Item(q).res].request # q
    BY <1>5 DEF PatchBlocks, resources
  <2>2. \A i \in DOMAIN results[q] : ~(Accepted(q, i) /\ body[q][i].res = Item(q).res)
    BY <2>1 DEF OneAccepted, Own
  <2>3. \A p \in Request : p = q \/ pc'[p] = pc[p]
    BY <2>1 DEF TypeOK
  <2>4. \A p \in Request : \A i \in DOMAIN results[p] : Outstanding(p, i)' <=> Outstanding(p, i)
    BY <2>1 DEF Outstanding, TypeOK
  <2> QED
    BY <2>1, <2>2, <2>3, <2>4, AcceptedKeep, ReportedKeep
<1>6. ASSUME NEW q \in Request, Collect(q)
      PROVE  OneAccepted' /\ Reported'
  <2> DEFINE todo == Remaining(q, pos[q])
  <2>1. todo \subseteq Nat /\ pc[q] = "collect" /\ holder = q
    BY <1>6, ResultFacts DEF Remaining, Collect, TypeOK
  <2>2. todo # {} => First(todo) \in todo /\ \A j \in todo : First(todo) <= j
    BY <2>1, FirstIsLeast
  <2>3. CASE todo # {} /\ Modified(q, First(todo))
    BY <1>6, <2>1, <2>2, <2>3, FinishTrue DEF Collect
  <2>4. CASE ~(todo # {} /\ Modified(q, First(todo)))
    <3>1. /\ pc' = [pc EXCEPT ![q] = IF todo = {} THEN "replied" ELSE "await"]
          /\ pos' = [pos EXCEPT ![q] = IF todo = {} THEN 1 ELSE First(todo)]
          /\ UNCHANGED <<staged, count, starved, body, results>>
      BY <1>6, <2>4 DEF Collect, resources
    <3>2. ASSUME NEW p \in Request, NEW i \in DOMAIN results[p], Accepted(p, i)
          PROVE  Outstanding(p, i)' <=> Outstanding(p, i)
      <4>1. CASE p # q
        BY <3>1, <4>1 DEF Outstanding, TypeOK
      <4>2. CASE p = q
        <5>1. i \in 1..Len(body[q]) /\ pos[q] \in 1..(MaxItems + 1)
          BY <4>2, ResultFacts DEF TypeOK
        <5>2. pos[q] <= i <=> i \in todo
          BY <3>2, <4>2, <5>1 DEF Remaining, Accepted
        <5>3. i \notin todo /\ todo # {} => ~(First(todo) <= i)
          <6>1. todo # {} => First(todo) \in Nat /\ pos[q] <= First(todo)
            BY <2>2, <5>1 DEF Remaining
          <6> QED
            BY <5>1, <5>2, <6>1
        <5>4. pc'[q] = IF todo = {} THEN "replied" ELSE "await"
          BY <3>1 DEF TypeOK
        <5>5. todo # {} => pos'[q] = First(todo)
          BY <3>1 DEF TypeOK
        <5> QED
          BY <2>1, <2>2, <4>2, <5>2, <5>3, <5>4, <5>5 DEF Outstanding
      <4> QED
        BY <4>1, <4>2
    <3>3. \A p \in Request : pc'[p] \in {"patch", "blocked"} => pc'[p] = pc[p] /\ pos'[p] = pos[p]
      BY <3>1 DEF TypeOK
    <3> QED
      BY <3>1, <3>2, <3>3, AcceptedKeep, ReportedKeep
  <2> QED
    BY <2>3, <2>4
<1>7. ASSUME NEW q \in Request, Awaited(q)
      PROVE  OneAccepted' /\ Reported'
  <2>1. pos[q] \in Remaining(q, pos[q]) /\ \A j \in Remaining(q, pos[q]) : pos[q] <= j
    BY <1>7 DEF Awaited, Handlers, Remaining
  <2> QED
    BY <1>7, <2>1, FinishTrue DEF Awaited
<1>8. ASSUME NEW q \in Request, AwaitTimeout(q)
      PROVE  OneAccepted' /\ Reported'
  <2> DEFINE i == pos[q]
  <2>1. /\ starved /\ UNCHANGED <<staged, count, starved, body>>
        /\ results' = [results EXCEPT ![q] = [results[q] EXCEPT ![i] = "error"]]
        /\ pos' = [pos EXCEPT ![q] = i + 1]
        /\ pc' = [pc EXCEPT ![q] = "collect"] /\ pc[q] = "await"
    BY <1>8 DEF AwaitTimeout, resources
  <2>2. \A p \in Request : \A j \in DOMAIN results'[p] :
            /\ j \in DOMAIN results[p]
            /\ IF p = q /\ j = i THEN results'[p][j] = "error" ELSE results'[p][j] = results[p][j]
    BY <2>1 DEF TypeOK
  <2>3. \A p \in Request : p = q \/ (pc'[p] = pc[p] /\ pos'[p] = pos[p])
    BY <2>1 DEF TypeOK
  <2>4. pc'[q] = "collect" /\ pos'[q] = i + 1
    BY <2>1 DEF TypeOK
  <2>5. ASSUME NEW p \in Request, NEW j \in DOMAIN results[p], ~(p = q /\ j = i)
        PROVE  Outstanding(p, j)' <=> Outstanding(p, j)
    <3>1. CASE p # q
      BY <2>3, <3>1 DEF Outstanding
    <3>2. CASE p = q
      <4>1. j \in 1..Len(body[q]) /\ i \in 1..(MaxItems + 1)
        BY <3>2, ResultFacts DEF TypeOK
      <4> QED
        BY <2>1, <2>4, <2>5, <3>2, <4>1 DEF Outstanding
    <3> QED
      BY <3>1, <3>2
  <2>6. OneAccepted'
    BY <2>1, <2>2, <2>3, <2>4, AcceptedKeep
  <2>7. Reported'
    BY <2>1, <2>2, <2>5, ReportedKeep
  <2> QED
    BY <2>6, <2>7
<1>9. ASSUME UNCHANGED <<staged, count, starved, handlers>>
      PROVE  OneAccepted' /\ Reported'
  <2>1. UNCHANGED <<staged, count, starved, body, pc, pos, results>>
    BY <1>9 DEF handlers
  <2>2. \A p \in Request : \A i \in DOMAIN results[p] : Outstanding(p, i)' <=> Outstanding(p, i)
    BY <2>1 DEF Outstanding
  <2>3. OneAccepted'
    BY <2>1, AcceptedKeep
  <2>4. Reported'
    BY <2>1, <2>2, ReportedKeep
  <2> QED
    BY <2>3, <2>4
<1>10. ASSUME NEW q \in Request, Handle(q) \/ Unblocked(q) \/ BlockedTimeout(q)
       PROVE  OneAccepted' /\ Reported'
  <2>1. CASE PatchLocked(q) \/ PatchSame(q) \/ PatchInvalid(q) \/ BlockedTimeout(q)
    BY <2>1, <1>3 DEF PatchLocked, PatchSame, PatchInvalid, BlockedTimeout
  <2>2. CASE Patch(q) \/ Unblocked(q)
    BY <1>3, <1>4, <2>2 DEF Patch, Unblocked
  <2> QED
    BY <1>10, <2>1, <2>2, <1>5, <1>6 DEF Handle
<1>11. ASSUME Activate \/ (\E w \in Request \cup {Thread} : WakeInVain(w)) \/ (\E r \in Resource : Elapse(r))
       PROVE  OneAccepted' /\ Reported'
  <2>1. CASE Activate
    BY <2>1, PassTrue DEF Activate
  <2>2. CASE (\E w \in Request \cup {Thread} : WakeInVain(w)) \/ (\E r \in Resource : Elapse(r))
    BY <1>9, <2>2 DEF WakeInVain, Elapse, resources
  <2> QED
    BY <1>11, <2>1, <2>2
<1>12. ASSUME UNCHANGED vars
       PROVE  OneAccepted' /\ Reported'
  BY <1>9, <1>12 DEF vars, resources
<1>13. OneAccepted' /\ Reported'
  BY <1>2, <1>7, <1>8, <1>10, <1>11, <1>12 DEF Next
<1> QED
  BY <1>1, <1>13

\* The answer to an immediate activation is success only if its parameters became
\* active, and failure only if they did not, or if the request stopped waiting for
\* a thread that was starved: for requests, of any number and length, whose items
\* of one resource follow each other.
THEOREM OutcomeHolds == ASSUME Consecutive PROVE Spec => []Outcome
<1>1. Init => OutcomeInv
  <2> SUFFICES ASSUME Init
               PROVE  OutcomeInv
    OBVIOUS
  <2>1. \A q \in Request : DOMAIN results[q] = {}
    BY DEF Init
  <2> QED
    BY <2>1, SafetyInit DEF OutcomeInv, OneAccepted, Reported
<1>2. OutcomeInv /\ [Next]_vars => OutcomeInv'
  BY OutcomeStep
<1>3. OutcomeInv => Outcome
  <2> SUFFICES ASSUME OutcomeInv, NEW q \in Request, pc[q] = "replied",
                      NEW i \in 1..Len(body[q]), body[q][i].kind = "immediate"
               PROVE  /\ results[q][i] = "ok" => count[<<q, i>>] = 1
                      /\ count[<<q, i>>] = 1 => results[q][i] = "ok" \/ starved
    BY DEF Outcome
  <2>1. i \in DOMAIN results[q] /\ results[q][i] \in {"ok", "error"}
    BY ResultFacts DEF OutcomeInv, SafetyInv, Handlers
  <2>2. ~Outstanding(q, i)
    BY DEF Outstanding
  <2> QED
    BY <2>1, <2>2 DEF OutcomeInv, Reported
<1> QED
  BY <1>1, <1>2, <1>3, PTL DEF Spec

-----------------------------------------------------------------------------
(* Transport: its staged, active and count are the variables of that name. *)

CONSTANTS
    Endpoint, Patches, AutoValue, Null, Free, RtpPort, GroupOf, MaxPatches

VARIABLES endpoint, subscription, transportfile, reader, accepted

Endpoints == INSTANCE Transport WITH Auto <- AutoValue

\* What a theorem about Transport assumes of its constants: what the application makes
\* endpoints of, and what parsers make of transport files.
TransportParameters ==
    Endpoints!ValuesDistinct /\ Endpoints!EndpointsMade /\ Endpoints!FilesParsed

\* The parameters that others are counted from
Ports == {"source_port", "destination_port"}

\* May a parameter of a leg be this when it is active?
Settled(e, leg, p, value) ==
    \/ value # AutoValue /\ Endpoints!Allows(Endpoints!Constraints(e, leg)[p], value)
    \/ value = Null /\ p \in Endpoints!NullParameters(e.transport)
    \/ e.type = "receiver" /\ p = "fec_mode"

\* May it be this when it is staged?  "auto" may be, where it can be resolved.
Sound(e, leg, p, value) ==
    /\ value = AutoValue => p \in Endpoints!AutoParameters(e.transport, e.type)
    /\ value # AutoValue => Settled(e, leg, p, value)
    /\ e.transport = "rtp" /\ p \in Ports => value \in Nat \cup {AutoValue}

\* Legs of which all parameters are sound, and those of which all are settled
SoundLeg(e, leg, params) ==
    /\ params = [p \in DOMAIN Endpoints!Made(e) |-> params[p]]
    /\ \A p \in DOMAIN Endpoints!Made(e) : Sound(e, leg, p, params[p])

SettledLeg(e, leg, params) ==
    /\ DOMAIN params = DOMAIN Endpoints!Made(e)
    /\ \A p \in DOMAIN Endpoints!Made(e) : Settled(e, leg, p, params[p])

\* "auto" is no value that an endpoint is made with.
LEMMA NotAuto ==
    ASSUME Endpoints!ValuesDistinct
    PROVE  /\ AutoValue # TRUE /\ AutoValue # FALSE /\ AutoValue # 4
           /\ AutoValue # "XOR" /\ AutoValue # "1D" /\ AutoValue # "chosen" /\ AutoValue # Null
<1>1. AutoValue # TRUE /\ AutoValue # FALSE
  BY DEF Endpoints!ValuesDistinct
<1>2. AutoValue # 4
  BY DEF Endpoints!ValuesDistinct
<1>3. AutoValue # "XOR" /\ AutoValue # "1D" /\ AutoValue # "chosen" /\ AutoValue # Null
  BY DEF Endpoints!ValuesDistinct
<1> QED
  BY <1>1, <1>2, <1>3

\* With adds no parameter of its own.
LEMMA WithLacks ==
    ASSUME NEW f, NEW g, NEW p, p \notin DOMAIN f, p \notin DOMAIN g
    PROVE  p \notin DOMAIN Endpoints!With(f, g)
BY DEF Endpoints!With

\* With makes an object.
LEMMA WithIsObject ==
    ASSUME NEW f, NEW g
    PROVE  Endpoints!With(f, g) =
              [p \in DOMAIN Endpoints!With(f, g) |-> Endpoints!With(f, g)[p]]
BY DEF Endpoints!With

\* What only the first of two objects has stays as it is.
LEMMA WithKeeps ==
    ASSUME NEW f, NEW g, NEW S, S \subseteq DOMAIN f, S \cap DOMAIN g = {},
           \A p \in S : f[p] = AutoValue
    PROVE  S \subseteq DOMAIN Endpoints!With(f, g) /\ \A p \in S : Endpoints!With(f, g)[p] = AutoValue
BY DEF Endpoints!With

\* What is true of all the fields of two objects is true of those of both.
LEMMA WithAuto ==
    ASSUME NEW f, NEW g, NEW S,
           \A p \in DOMAIN f : f[p] = AutoValue => p \in S,
           \A p \in DOMAIN g : g[p] = AutoValue => p \in S
    PROVE  \A p \in DOMAIN Endpoints!With(f, g) : Endpoints!With(f, g)[p] = AutoValue => p \in S
BY DEF Endpoints!With

\* resolve_auto replaces one parameter, if it is "auto".
LEMMA ResolveFacts ==
    ASSUME NEW params, params = [p \in DOMAIN params |-> params[p]],
           NEW parameter, NEW value
    PROVE  LET after == Endpoints!Resolve(params, parameter, value)
           IN /\ DOMAIN after = DOMAIN params
              /\ after = [p \in DOMAIN params |-> after[p]]
              /\ \A p \in DOMAIN params :
                   after[p] = IF p = parameter /\ params[p] = AutoValue THEN value ELSE params[p]
BY DEF Endpoints!Resolve

\* An RTP sender is made with its addresses and ports "auto", and nothing that may not be.
LEMMA MadeRtpSender ==
    ASSUME NEW sets, Endpoints!ValuesDistinct
    PROVE  LET made == Endpoints!RtpSender(sets)
           IN /\ made = [p \in DOMAIN made |-> made[p]]
              /\ {"source_ip", "destination_ip", "source_port", "destination_port"} \subseteq DOMAIN made
              /\ \A p \in {"source_ip", "destination_ip", "source_port", "destination_port"} : made[p] = AutoValue
              /\ \A p \in DOMAIN made :
                   made[p] = AutoValue => p \in Endpoints!AutoParameters("rtp", "sender")
<1> DEFINE core == [source_ip |-> AutoValue, destination_ip |-> AutoValue, source_port |-> AutoValue,
                    destination_port |-> AutoValue, rtp_enabled |-> TRUE]
           fec  == IF "fec" \notin sets THEN <<>> ELSE
                   [fec_enabled |-> FALSE, fec_destination_ip |-> AutoValue, fec_type |-> "XOR",
                    fec_mode |-> "1D", fec_block_width |-> 4, fec_block_height |-> 4,
                    fec1D_destination_port |-> AutoValue, fec2D_destination_port |-> AutoValue,
                    fec1D_source_port |-> AutoValue, fec2D_source_port |-> AutoValue]
           rtcp == IF "rtcp" \notin sets THEN <<>> ELSE
                   [rtcp_enabled |-> FALSE, rtcp_destination_ip |-> AutoValue,
                    rtcp_destination_port |-> AutoValue, rtcp_source_port |-> AutoValue]
           S    == Endpoints!AutoParameters("rtp", "sender")
           four == {"source_ip", "destination_ip", "source_port", "destination_port"}
<1>1. S = {"source_ip", "destination_ip", "source_port", "destination_port", "fec_destination_ip",
           "fec1D_destination_port", "fec2D_destination_port", "fec1D_source_port",
           "fec2D_source_port", "rtcp_destination_ip", "rtcp_destination_port", "rtcp_source_port"}
  BY DEF Endpoints!AutoParameters
<1>2. \A p \in DOMAIN core : core[p] = AutoValue => p \in S
  <2>1. DOMAIN core = {"source_ip", "destination_ip", "source_port", "destination_port",
                     "rtp_enabled"}
    OBVIOUS
  <2>2. core.rtp_enabled # AutoValue
    BY NotAuto
  <2> HIDE DEF core, S
  <2> QED
    BY <1>1, <2>1, <2>2
<1>3. \A p \in DOMAIN fec : fec[p] = AutoValue => p \in S
  <2>1. CASE "fec" \notin sets
    <3>1. DOMAIN fec = {}
      BY <2>1
    <3> QED
      BY <3>1
  <2>2. CASE "fec" \in sets
    <3>1. DOMAIN fec = {"fec_enabled", "fec_destination_ip", "fec_type", "fec_mode", "fec_block_width",
                      "fec_block_height", "fec1D_destination_port", "fec2D_destination_port",
                      "fec1D_source_port", "fec2D_source_port"}
      BY <2>2
    <3>2. fec.fec_enabled # AutoValue
      BY <2>2, NotAuto
    <3>3. fec.fec_type # AutoValue
      BY <2>2, NotAuto
    <3>4. fec.fec_mode # AutoValue
      BY <2>2, NotAuto
    <3>5. fec.fec_block_width # AutoValue
      BY <2>2, NotAuto
    <3>6. fec.fec_block_height # AutoValue
      BY <2>2, NotAuto
    <3> HIDE DEF fec, S
    <3> QED
      BY <1>1, <3>1, <3>2, <3>3, <3>4, <3>5, <3>6
  <2> QED
    BY <2>1, <2>2
<1>4. \A p \in DOMAIN rtcp : rtcp[p] = AutoValue => p \in S
  <2>1. CASE "rtcp" \notin sets
    <3>1. DOMAIN rtcp = {}
      BY <2>1
    <3> QED
      BY <3>1
  <2>2. CASE "rtcp" \in sets
    <3>1. DOMAIN rtcp = {"rtcp_enabled", "rtcp_destination_ip", "rtcp_destination_port",
                       "rtcp_source_port"}
      BY <2>2
    <3>2. rtcp.rtcp_enabled # AutoValue
      BY <2>2, NotAuto
    <3> HIDE DEF rtcp, S
    <3> QED
      BY <1>1, <3>1, <3>2
  <2> QED
    BY <2>1, <2>2
<1>5. four \subseteq DOMAIN core /\ \A p \in four : core[p] = AutoValue
  OBVIOUS
<1>6. four \cap DOMAIN fec = {} /\ four \cap DOMAIN rtcp = {}
  OBVIOUS
<1>7. Endpoints!RtpSender(sets) = Endpoints!With(Endpoints!With(core, fec), rtcp)
  BY DEF Endpoints!RtpSender
<1> HIDE DEF core, fec, rtcp, S, four
<1> DEFINE most == Endpoints!With(core, fec)
<1>8. \A p \in DOMAIN most : most[p] = AutoValue => p \in S
  BY <1>2, <1>3, WithAuto
<1>9. four \subseteq DOMAIN most /\ \A p \in four : most[p] = AutoValue
  BY <1>5, <1>6, WithKeeps
<1>10. Endpoints!RtpSender(sets) = Endpoints!With(most, rtcp)
  BY <1>7
<1> HIDE DEF most
<1>11. /\ \A p \in DOMAIN Endpoints!RtpSender(sets) : Endpoints!RtpSender(sets)[p] = AutoValue => p \in S
  BY <1>10, <1>4, <1>8, WithAuto
<1>12. /\ four \subseteq DOMAIN Endpoints!RtpSender(sets)
       /\ \A p \in four : Endpoints!RtpSender(sets)[p] = AutoValue
  BY <1>10, <1>6, <1>9, WithKeeps
<1>13. Endpoints!RtpSender(sets) =
         [p \in DOMAIN Endpoints!RtpSender(sets) |-> Endpoints!RtpSender(sets)[p]]
  BY <1>10, WithIsObject
<1> QED
  BY <1>11, <1>12, <1>13 DEF S, four

\* An RTP receiver is made with its interface and port "auto", and nothing that may not be.
LEMMA MadeRtpReceiver ==
    ASSUME NEW sets, Endpoints!ValuesDistinct
    PROVE  LET made == Endpoints!RtpReceiver(sets)
           IN /\ made = [p \in DOMAIN made |-> made[p]]
              /\ {"interface_ip", "destination_port"} \subseteq DOMAIN made
              /\ \A p \in {"interface_ip", "destination_port"} : made[p] = AutoValue
              /\ "source_port" \notin DOMAIN made
              /\ \A p \in DOMAIN made :
                   made[p] = AutoValue => p \in Endpoints!AutoParameters("rtp", "receiver")
<1> DEFINE core  == [source_ip |-> Null, interface_ip |-> AutoValue, destination_port |-> AutoValue,
                     rtp_enabled |-> TRUE]
           multi == IF "multicast" \notin sets THEN <<>> ELSE [multicast_ip |-> Null]
           fec   == IF "fec" \notin sets THEN <<>> ELSE
                    [fec_enabled |-> FALSE, fec_destination_ip |-> AutoValue, fec_mode |-> AutoValue,
                     fec1D_destination_port |-> AutoValue, fec2D_destination_port |-> AutoValue]
           rtcp  == IF "rtcp" \notin sets THEN <<>> ELSE
                    [rtcp_enabled |-> FALSE, rtcp_destination_ip |-> AutoValue,
                     rtcp_destination_port |-> AutoValue]
           S     == Endpoints!AutoParameters("rtp", "receiver")
           two   == {"interface_ip", "destination_port"}
<1>1. S = {"interface_ip", "destination_port", "fec_destination_ip", "fec_mode",
           "fec1D_destination_port", "fec2D_destination_port", "rtcp_destination_ip",
           "rtcp_destination_port"}
  BY DEF Endpoints!AutoParameters
<1>2. \A p \in DOMAIN core : core[p] = AutoValue => p \in S
  <2>1. DOMAIN core = {"source_ip", "interface_ip", "destination_port", "rtp_enabled"}
    OBVIOUS
  <2>2. core.source_ip # AutoValue
    BY NotAuto
  <2>3. core.rtp_enabled # AutoValue
    BY NotAuto
  <2> HIDE DEF core, S
  <2> QED
    BY <1>1, <2>1, <2>2, <2>3
<1>3. \A p \in DOMAIN multi : multi[p] = AutoValue => p \in S
  <2>1. CASE "multicast" \notin sets
    <3>1. DOMAIN multi = {}
      BY <2>1
    <3> QED
      BY <3>1
  <2>2. CASE "multicast" \in sets
    <3>1. DOMAIN multi = {"multicast_ip"}
      BY <2>2
    <3>2. multi.multicast_ip # AutoValue
      BY <2>2, NotAuto
    <3> HIDE DEF multi, S
    <3> QED
      BY <1>1, <3>1, <3>2
  <2> QED
    BY <2>1, <2>2
<1>4. \A p \in DOMAIN fec : fec[p] = AutoValue => p \in S
  <2>1. CASE "fec" \notin sets
    <3>1. DOMAIN fec = {}
      BY <2>1
    <3> QED
      BY <3>1
  <2>2. CASE "fec" \in sets
    <3>1. DOMAIN fec = {"fec_enabled", "fec_destination_ip", "fec_mode", "fec1D_destination_port",
                      "fec2D_destination_port"}
      BY <2>2
    <3>2. fec.fec_enabled # AutoValue
      BY <2>2, NotAuto
    <3> HIDE DEF fec, S
    <3> QED
      BY <1>1, <3>1, <3>2
  <2> QED
    BY <2>1, <2>2
<1>5. \A p \in DOMAIN rtcp : rtcp[p] = AutoValue => p \in S
  <2>1. CASE "rtcp" \notin sets
    <3>1. DOMAIN rtcp = {}
      BY <2>1
    <3> QED
      BY <3>1
  <2>2. CASE "rtcp" \in sets
    <3>1. DOMAIN rtcp = {"rtcp_enabled", "rtcp_destination_ip", "rtcp_destination_port"}
      BY <2>2
    <3>2. rtcp.rtcp_enabled # AutoValue
      BY <2>2, NotAuto
    <3> HIDE DEF rtcp, S
    <3> QED
      BY <1>1, <3>1, <3>2
  <2> QED
    BY <2>1, <2>2
<1>6. two \subseteq DOMAIN core /\ \A p \in two : core[p] = AutoValue
  OBVIOUS
<1>7. two \cap DOMAIN multi = {} /\ two \cap DOMAIN fec = {} /\ two \cap DOMAIN rtcp = {}
  OBVIOUS
<1>8. /\ "source_port" \notin DOMAIN core /\ "source_port" \notin DOMAIN multi
      /\ "source_port" \notin DOMAIN fec /\ "source_port" \notin DOMAIN rtcp
  OBVIOUS
<1>9. Endpoints!RtpReceiver(sets) =
        Endpoints!With(Endpoints!With(Endpoints!With(core, multi), fec), rtcp)
  BY DEF Endpoints!RtpReceiver
<1> HIDE DEF core, multi, fec, rtcp, S, two
<1> DEFINE some == Endpoints!With(core, multi)
<1>10. \A p \in DOMAIN some : some[p] = AutoValue => p \in S
  BY <1>2, <1>3, WithAuto
<1>11. two \subseteq DOMAIN some /\ \A p \in two : some[p] = AutoValue
  BY <1>6, <1>7, WithKeeps
<1>12. "source_port" \notin DOMAIN some
  BY <1>8, WithLacks
<1>13. Endpoints!RtpReceiver(sets) = Endpoints!With(Endpoints!With(some, fec), rtcp)
  BY <1>9
<1> HIDE DEF some
<1> DEFINE most == Endpoints!With(some, fec)
<1>14. \A p \in DOMAIN most : most[p] = AutoValue => p \in S
  BY <1>4, <1>10, WithAuto
<1>15. two \subseteq DOMAIN most /\ \A p \in two : most[p] = AutoValue
  BY <1>7, <1>11, WithKeeps
<1>16. "source_port" \notin DOMAIN most
  BY <1>8, <1>12, WithLacks
<1>17. Endpoints!RtpReceiver(sets) = Endpoints!With(most, rtcp)
  BY <1>13
<1> HIDE DEF most
<1>18. \A p \in DOMAIN Endpoints!RtpReceiver(sets) : Endpoints!RtpReceiver(sets)[p] = AutoValue => p \in S
  BY <1>17, <1>5, <1>14, WithAuto
<1>19. /\ two \subseteq DOMAIN Endpoints!RtpReceiver(sets)
       /\ \A p \in two : Endpoints!RtpReceiver(sets)[p] = AutoValue
  BY <1>17, <1>7, <1>15, WithKeeps
<1>20. "source_port" \notin DOMAIN Endpoints!RtpReceiver(sets)
  BY <1>17, <1>8, <1>16, WithLacks
<1>21. Endpoints!RtpReceiver(sets) =
         [p \in DOMAIN Endpoints!RtpReceiver(sets) |-> Endpoints!RtpReceiver(sets)[p]]
  BY <1>17, WithIsObject
<1> QED
  BY <1>18, <1>19, <1>20, <1>21 DEF S, two

\* What is fixed is what a parameter is made with, unless it is made "auto" or null.
Starts(e, p, value) ==
    /\ value = AutoValue => p \in Endpoints!AutoParameters(e.transport, e.type)
    /\ value # AutoValue /\ p \in DOMAIN e.fixed =>
         value = e.fixed[p] \/ (value = Null /\ p \in Endpoints!NullParameters(e.transport))

\* Parameters that start as they may do so together.
LEMMA WithStarts ==
    ASSUME NEW e, NEW f, NEW g,
           \A p \in DOMAIN f : Starts(e, p, f[p]),
           \A p \in DOMAIN g : Starts(e, p, g[p])
    PROVE  \A p \in DOMAIN Endpoints!With(f, g) : Starts(e, p, Endpoints!With(f, g)[p])
BY DEF Endpoints!With

\* boolean_or_auto and the like give a parameter a start.
LEMMA FixedStarts ==
    ASSUME NEW e \in Endpoint, Endpoints!ValuesDistinct, Endpoints!EndpointsMade, NEW p
    PROVE  /\ Starts(e, p, Endpoints!Fixed(e, p, Null))
           /\ p \in Endpoints!AutoParameters(e.transport, e.type)
                => Starts(e, p, Endpoints!Fixed(e, p, AutoValue))
<1>1. p \in DOMAIN e.fixed => e.fixed[p] # AutoValue
  BY DEF Endpoints!EndpointsMade
<1> QED
  BY <1>1, NotAuto DEF Endpoints!Fixed, Starts

\* A WebSocket endpoint is made with what is fixed, and what may be "auto" or null.
LEMMA MadeWebSocket ==
    ASSUME NEW e \in Endpoint, e.transport = "websocket",
           Endpoints!ValuesDistinct, Endpoints!EndpointsMade
    PROVE  LET made == Endpoints!WebSocketParams(e)
           IN /\ made = [p \in DOMAIN made |-> made[p]]
              /\ \A p \in DOMAIN made : Starts(e, p, made[p])
<1> DEFINE core == [connection_uri |-> Endpoints!Fixed(e, "connection_uri", Null),
                    connection_authorization |-> Endpoints!Fixed(e, "connection_authorization", AutoValue)]
           events == IF "events" \notin e.sets THEN <<>> ELSE
                     [ext_is_07_source_id |-> Endpoints!Fixed(e, "ext_is_07_source_id", Null),
                      ext_is_07_rest_api_url |-> Endpoints!Fixed(e, "ext_is_07_rest_api_url", Null)]
<1>1. "connection_authorization" \in Endpoints!AutoParameters(e.transport, e.type)
  BY DEF Endpoints!AutoParameters, Endpoints!EndpointsMade
<1>2. \A p \in DOMAIN core : Starts(e, p, core[p])
  <2>1. DOMAIN core = {"connection_uri", "connection_authorization"}
    OBVIOUS
  <2>2. Starts(e, "connection_uri", core.connection_uri)
    BY FixedStarts
  <2>3. Starts(e, "connection_authorization", core.connection_authorization)
    BY <1>1, FixedStarts
  <2> HIDE DEF core
  <2> QED
    BY <2>1, <2>2, <2>3
<1>3. \A p \in DOMAIN events : Starts(e, p, events[p])
  <2>1. CASE "events" \notin e.sets
    <3>1. DOMAIN events = {}
      BY <2>1
    <3> QED
      BY <3>1
  <2>2. CASE "events" \in e.sets
    <3>1. DOMAIN events = {"ext_is_07_source_id", "ext_is_07_rest_api_url"}
      BY <2>2
    <3>2. Starts(e, "ext_is_07_source_id", events.ext_is_07_source_id)
      BY <2>2, FixedStarts
    <3>3. Starts(e, "ext_is_07_rest_api_url", events.ext_is_07_rest_api_url)
      BY <2>2, FixedStarts
    <3> HIDE DEF events
    <3> QED
      BY <3>1, <3>2, <3>3
  <2> QED
    BY <2>1, <2>2
<1>4. Endpoints!WebSocketParams(e) = Endpoints!With(core, events)
  BY DEF Endpoints!WebSocketParams
<1> HIDE DEF core, events
<1> QED
  BY <1>2, <1>3, <1>4, WithStarts, WithIsObject

\* So is an MQTT endpoint.
LEMMA MadeMqtt ==
    ASSUME NEW e \in Endpoint, e.transport = "mqtt",
           Endpoints!ValuesDistinct, Endpoints!EndpointsMade
    PROVE  LET made == Endpoints!MqttParams(e)
           IN /\ made = [p \in DOMAIN made |-> made[p]]
              /\ \A p \in DOMAIN made : Starts(e, p, made[p])
<1> DEFINE place  == IF e.type = "sender"
                     THEN [destination_host |-> AutoValue, destination_port |-> AutoValue]
                     ELSE [source_host |-> AutoValue, source_port |-> AutoValue]
           broker == [broker_protocol |-> Endpoints!Fixed(e, "broker_protocol", AutoValue),
                      broker_authorization |-> Endpoints!Fixed(e, "broker_authorization", AutoValue),
                      broker_topic |-> Endpoints!Fixed(e, "broker_topic", Null),
                      connection_status_broker_topic |->
                        Endpoints!Fixed(e, "connection_status_broker_topic", Null)]
           events == IF "events" \notin e.sets THEN <<>> ELSE
                     [ext_is_07_rest_api_url |-> Endpoints!Fixed(e, "ext_is_07_rest_api_url", Null)]
<1>1. e.type \in {"sender", "receiver"}
  BY DEF Endpoints!EndpointsMade
<1>2. Endpoints!AutoParameters(e.transport, e.type) =
        {"broker_protocol", "broker_authorization"} \cup
        (IF e.type = "sender" THEN {"destination_host", "destination_port"}
         ELSE {"source_host", "source_port"})
  BY <1>1 DEF Endpoints!AutoParameters
<1>3. \A p \in DOMAIN place : Starts(e, p, place[p])
  <2>1. CASE e.type = "sender"
    BY <1>2, <2>1 DEF Starts
  <2>2. CASE e.type = "receiver"
    BY <1>2, <2>2 DEF Starts
  <2> QED
    BY <1>1, <2>1, <2>2
<1>4. \A p \in DOMAIN broker : Starts(e, p, broker[p])
  <2>1. DOMAIN broker = {"broker_protocol", "broker_authorization", "broker_topic",
                         "connection_status_broker_topic"}
    OBVIOUS
  <2>2. Starts(e, "broker_protocol", broker.broker_protocol)
    BY <1>2, FixedStarts
  <2>3. Starts(e, "broker_authorization", broker.broker_authorization)
    BY <1>2, FixedStarts
  <2>4. Starts(e, "broker_topic", broker.broker_topic)
    BY FixedStarts
  <2>5. Starts(e, "connection_status_broker_topic", broker.connection_status_broker_topic)
    BY FixedStarts
  <2> HIDE DEF broker
  <2> QED
    BY <2>1, <2>2, <2>3, <2>4, <2>5
<1>5. \A p \in DOMAIN events : Starts(e, p, events[p])
  <2>1. CASE "events" \notin e.sets
    <3>1. DOMAIN events = {}
      BY <2>1
    <3> QED
      BY <3>1
  <2>2. CASE "events" \in e.sets
    <3>1. DOMAIN events = {"ext_is_07_rest_api_url"}
      BY <2>2
    <3>2. Starts(e, "ext_is_07_rest_api_url", events.ext_is_07_rest_api_url)
      BY <2>2, FixedStarts
    <3> HIDE DEF events
    <3> QED
      BY <3>1, <3>2
  <2> QED
    BY <2>1, <2>2
<1>6. Endpoints!MqttParams(e) = Endpoints!With(Endpoints!With(place, broker), events)
  BY DEF Endpoints!MqttParams
<1> HIDE DEF place, broker, events
<1> DEFINE most == Endpoints!With(place, broker)
<1>7. \A p \in DOMAIN most : Starts(e, p, most[p])
  BY <1>3, <1>4, WithStarts
<1>8. Endpoints!MqttParams(e) = Endpoints!With(most, events)
  BY <1>6
<1> HIDE DEF most
<1> QED
  BY <1>5, <1>7, <1>8, WithStarts, WithIsObject

\* What a parameter is limited to
LEMMA Limits ==
    ASSUME NEW e, NEW leg, NEW p \in DOMAIN Endpoints!Made(e)
    PROVE  /\ p \in DOMAIN e.fixed => Endpoints!Allows(Endpoints!Constraints(e, leg)[p], e.fixed[p])
           /\ p \notin DOMAIN e.fixed /\ e.transport = "rtp" /\ p = Endpoints!HostParameter(e) =>
                \A value \in Endpoints!ToSet(e.hosts[leg]) :
                   Endpoints!Allows(Endpoints!Constraints(e, leg)[p], value)
           /\ p \notin DOMAIN e.fixed /\ ~(e.transport = "rtp" /\ p = Endpoints!HostParameter(e)) =>
                \A value : Endpoints!Allows(Endpoints!Constraints(e, leg)[p], value)
<1> DEFINE limit == Endpoints!Constraints(e, leg)[p]
<1>1. CASE p \in DOMAIN e.fixed
  <2>1. limit = <<e.fixed[p]>>
    BY <1>1 DEF Endpoints!Constraints
  <2>2. e.fixed[p] \in Endpoints!ToSet(<<e.fixed[p]>>)
    BY DEF Endpoints!ToSet
  <2> QED
    BY <1>1, <2>1, <2>2 DEF Endpoints!Allows
<1>2. CASE p \notin DOMAIN e.fixed /\ e.transport = "rtp" /\ p = Endpoints!HostParameter(e)
  <2>1. limit = e.hosts[leg]
    BY <1>2 DEF Endpoints!Constraints
  <2> QED
    BY <1>2, <2>1 DEF Endpoints!Allows
<1>3. CASE p \notin DOMAIN e.fixed /\ ~(e.transport = "rtp" /\ p = Endpoints!HostParameter(e))
  <2>1. limit = Free
    BY <1>3 DEF Endpoints!Constraints
  <2> QED
    BY <1>3, <2>1 DEF Endpoints!Allows
<1> QED
  BY <1>1, <1>2, <1>3

\* An endpoint has one of two types, and one of four transports.
LEMMA EndpointKinds ==
    ASSUME NEW e \in Endpoint, Endpoints!EndpointsMade
    PROVE  /\ e.type \in {"sender", "receiver"}
           /\ \/ e.transport = "rtp" /\ DOMAIN e.fixed = {}
              \/ e.transport = "websocket"
              \/ e.transport = "mqtt"
              \/ e.transport = "mxl"
BY DEF Endpoints!EndpointsMade

\* An endpoint is made with sound parameters.
LEMMA MadeSound ==
    ASSUME TransportParameters, NEW e \in Endpoint, NEW leg
    PROVE  SoundLeg(e, leg, Endpoints!Made(e))
<1> DEFINE made == Endpoints!Made(e)
<1>1. /\ Endpoints!ValuesDistinct /\ Endpoints!EndpointsMade
      /\ e.type \in {"sender", "receiver"}
  BY EndpointKinds DEF TransportParameters
<1>2. CASE e.transport = "rtp"
  <2>1. DOMAIN e.fixed = {}
    BY <1>1, <1>2, EndpointKinds
  <2>2. /\ made = [p \in DOMAIN made |-> made[p]]
        /\ Endpoints!HostParameter(e) \in DOMAIN made /\ made[Endpoints!HostParameter(e)] = AutoValue
        /\ \A p \in Ports \cap DOMAIN made : made[p] = AutoValue
        /\ \A p \in DOMAIN made :
             made[p] = AutoValue => p \in Endpoints!AutoParameters(e.transport, e.type)
    <3>1. CASE e.type = "sender"
      <4>1. made = Endpoints!RtpSender(e.sets) /\ Endpoints!HostParameter(e) = "source_ip"
        BY <1>2, <3>1 DEF Endpoints!Made, Endpoints!HostParameter
      <4> HIDE DEF made
      <4> QED
        BY <1>1, <1>2, <3>1, <4>1, MadeRtpSender DEF Ports
    <3>2. CASE e.type = "receiver"
      <4>1. made = Endpoints!RtpReceiver(e.sets) /\ Endpoints!HostParameter(e) = "interface_ip"
        BY <1>2, <3>2 DEF Endpoints!Made, Endpoints!HostParameter
      <4> HIDE DEF made
      <4> QED
        BY <1>1, <1>2, <3>2, <4>1, MadeRtpReceiver DEF Ports
    <3> QED
      BY <1>1, <3>1, <3>2
  <2>3. ASSUME NEW p \in DOMAIN made
        PROVE  Sound(e, leg, p, made[p])
    <3>1. made[p] # AutoValue => Endpoints!Allows(Endpoints!Constraints(e, leg)[p], made[p])
      BY <2>1, <2>2, Limits
    <3> QED
      BY <2>2, <3>1 DEF Sound, Settled
  <2> QED
    BY <2>2, <2>3 DEF SoundLeg
<1>3. CASE e.transport # "rtp"
  <2>1. /\ made = [p \in DOMAIN made |-> made[p]]
        /\ \A p \in DOMAIN made : Starts(e, p, made[p])
    <3>1. CASE e.transport = "websocket"
      <4>1. made = Endpoints!WebSocketParams(e)
        BY <3>1 DEF Endpoints!Made
      <4> QED
        BY <1>1, <3>1, <4>1, MadeWebSocket
    <3>2. CASE e.transport = "mqtt"
      <4>1. made = Endpoints!MqttParams(e)
        BY <3>2 DEF Endpoints!Made
      <4> QED
        BY <1>1, <3>2, <4>1, MadeMqtt
    <3>3. CASE e.transport = "mxl"
      <4>1. made = [mxl_domain_id |-> AutoValue,
                    mxl_flow_id |-> IF e.type = "sender" THEN AutoValue ELSE Null]
        BY <3>3 DEF Endpoints!Made, Endpoints!MxlParams
      <4>2. DOMAIN made = {"mxl_domain_id", "mxl_flow_id"} /\ made = [p \in DOMAIN made |-> made[p]]
        BY <4>1
      <4>3. Starts(e, "mxl_domain_id", made["mxl_domain_id"])
        <5>1. made["mxl_domain_id"] = AutoValue
          BY <4>1
        <5>2. "mxl_domain_id" \in Endpoints!AutoParameters(e.transport, e.type)
          BY <1>1, <3>3 DEF Endpoints!AutoParameters
        <5> QED
          BY <5>1, <5>2 DEF Starts
      <4>4. Starts(e, "mxl_flow_id", made["mxl_flow_id"])
        <5>1. CASE e.type = "sender"
          <6>1. made["mxl_flow_id"] = AutoValue
            BY <4>1, <5>1
          <6>2. "mxl_flow_id" \in Endpoints!AutoParameters(e.transport, e.type)
            BY <5>1, <3>3 DEF Endpoints!AutoParameters
          <6> QED
            BY <6>1, <6>2 DEF Starts
        <5>2. CASE e.type = "receiver"
          <6>1. made["mxl_flow_id"] = Null
            BY <4>1, <5>2
          <6>2. "mxl_flow_id" \in Endpoints!NullParameters(e.transport)
            BY <3>3 DEF Endpoints!NullParameters
          <6> QED
            BY <1>1, <6>1, <6>2, NotAuto DEF Starts
        <5> QED
          BY <1>1, <5>1, <5>2
      <4> HIDE DEF made
      <4> QED
        BY <4>2, <4>3, <4>4
    <3> QED
      BY <1>1, <1>3, <3>1, <3>2, <3>3, EndpointKinds
  <2>2. ASSUME NEW p \in DOMAIN made
        PROVE  Sound(e, leg, p, made[p])
    <3>1. Starts(e, p, made[p])
      BY <2>1
    <3>2. made[p] # AutoValue => Settled(e, leg, p, made[p])
      BY <1>3, <3>1, Limits DEF Starts, Settled
    <3> QED
      BY <1>3, <3>1, <3>2 DEF Sound, Starts
  <2> QED
    BY <2>1, <2>2 DEF SoundLeg
<1> QED
  BY <1>2, <1>3

\* The interface of a leg is one it has.
LEMMA HostFacts ==
    ASSUME TransportParameters, NEW e \in Endpoint, e.transport = "rtp", NEW leg \in 1..e.legs
    PROVE  /\ Endpoints!Host(e, leg) \in Endpoints!ToSet(e.hosts[leg])
           /\ Endpoints!Host(e, leg) # AutoValue
           /\ GroupOf[leg] # AutoValue
<1> DEFINE h == e.hosts[leg]
           S == Endpoints!ToSet(h)
<1>1. h \in Seq(S) /\ h # <<>> /\ AutoValue \notin S /\ GroupOf[leg] # AutoValue
  BY DEF TransportParameters, Endpoints!EndpointsMade, Endpoints!IsSequence
<1>2. Endpoints!Host(e, leg) = IF leg = 1 THEN Head(h) ELSE h[Len(h)]
  BY DEF Endpoints!Host, Endpoints!Last
<1> HIDE DEF S, h
<1>3. Head(h) \in S /\ h[Len(h)] \in S
  BY <1>1
<1>4. Endpoints!Host(e, leg) \in S
  BY <1>2, <1>3
<1> QED
  BY <1>1, <1>4 DEF S, h

\* The parameters that others are resolved from
Origins(ports, type) ==
    /\ ports["destination_port"] \in Nat
    /\ type = "sender" => ports["source_port"] \in Nat /\ ports["destination_ip"] # AutoValue
    /\ type = "receiver" => /\ ports["interface_ip"] # AutoValue
                            /\ "multicast_ip" \in DOMAIN ports => ports["multicast_ip"] # AutoValue

\* The parameters that are copies, or next to others, are what the others are.
DerivedAlso(ports, type, p) ==
    /\ p \in DOMAIN Endpoints!CopyOf(ports, type)
         => ports[Endpoints!CopyOf(ports, type)[p]] # AutoValue
    /\ p \in DOMAIN Endpoints!NextTo
         => ports[Endpoints!NextTo[p][1]] + Endpoints!NextTo[p][2] # AutoValue
    /\ \/ p \in DOMAIN Endpoints!CopyOf(ports, type)
       \/ p \in DOMAIN Endpoints!NextTo
       \/ p \in {"source_port", "destination_port"}
       \/ type = "sender" /\ p \in {"source_ip", "destination_ip"}
       \/ type = "receiver" /\ p \in {"interface_ip", "fec_mode"}

\* When the addresses and ports of a leg are resolved, so is each parameter that is a copy
\* of one or next to one; no other may be "auto" but a FEC mode.
LEMMA Derived ==
    ASSUME TransportParameters,
           NEW ports, NEW type \in {"sender", "receiver"}, Origins(ports, type),
           NEW p \in DOMAIN ports, p \in Endpoints!AutoParameters("rtp", type)
    PROVE  DerivedAlso(ports, type, p)
<1> DEFINE copies == {"fec_destination_ip", "rtcp_destination_ip"}
           beside == {"fec1D_destination_port", "fec2D_destination_port", "fec1D_source_port",
                      "fec2D_source_port", "rtcp_destination_port", "rtcp_source_port"}
<1>1. /\ DOMAIN Endpoints!CopyOf(ports, type) = copies
      /\ \A q \in copies : ports[Endpoints!CopyOf(ports, type)[q]] # AutoValue
  <2>1. CASE type = "sender"
    <3>1. Endpoints!CopyOf(ports, type) =
            [fec_destination_ip |-> "destination_ip", rtcp_destination_ip |-> "destination_ip"]
      BY <2>1 DEF Endpoints!CopyOf
    <3> QED
      BY <2>1, <3>1 DEF Origins
  <2>2. CASE type = "receiver" /\ "multicast_ip" \in DOMAIN ports /\ ports["multicast_ip"] # Null
    <3>1. Endpoints!CopyOf(ports, type) =
            [fec_destination_ip |-> "multicast_ip", rtcp_destination_ip |-> "multicast_ip"]
      BY <2>2 DEF Endpoints!CopyOf
    <3> QED
      BY <2>2, <3>1 DEF Origins
  <2>3. CASE type = "receiver" /\ ~("multicast_ip" \in DOMAIN ports /\ ports["multicast_ip"] # Null)
    <3>1. Endpoints!CopyOf(ports, type) =
            [fec_destination_ip |-> "interface_ip", rtcp_destination_ip |-> "interface_ip"]
      BY <2>3 DEF Endpoints!CopyOf
    <3> QED
      BY <2>3, <3>1 DEF Origins
  <2> QED
    BY <2>1, <2>2, <2>3
<1>2. DOMAIN Endpoints!NextTo = beside
  BY DEF Endpoints!NextTo
<1>3. ASSUME NEW n \in Nat, NEW k \in Nat
      PROVE  n + k # AutoValue
  <2>1. n + k \in Nat /\ AutoValue \notin Nat
    BY DEF TransportParameters, Endpoints!ValuesDistinct
  <2> QED
    BY <2>1
<1>4. p \in beside => \/ p \in {"fec1D_destination_port", "fec2D_destination_port", "rtcp_destination_port"}
                      \/ type = "sender" /\ p \in {"fec1D_source_port", "fec2D_source_port", "rtcp_source_port"}
  BY DEF Endpoints!AutoParameters
<1>5. p \in beside => ports[Endpoints!NextTo[p][1]] + Endpoints!NextTo[p][2] # AutoValue
  <2>1. CASE p \in {"fec1D_destination_port", "fec2D_destination_port", "rtcp_destination_port"}
    <3>1. Endpoints!NextTo[p][1] = "destination_port" /\ Endpoints!NextTo[p][2] \in Nat
      BY <2>1 DEF Endpoints!NextTo
    <3> QED
      BY <1>3, <3>1 DEF Origins
  <2>2. CASE type = "sender" /\ p \in {"fec1D_source_port", "fec2D_source_port", "rtcp_source_port"}
    <3>1. Endpoints!NextTo[p][1] = "source_port" /\ Endpoints!NextTo[p][2] \in Nat
      BY <2>2 DEF Endpoints!NextTo
    <3> QED
      BY <1>3, <2>2, <3>1 DEF Origins
  <2> QED
    BY <1>4, <2>1, <2>2
<1>6. \/ p \in copies \/ p \in beside
      \/ p \in {"source_port", "destination_port"}
      \/ type = "sender" /\ p \in {"source_ip", "destination_ip"}
      \/ type = "receiver" /\ p \in {"interface_ip", "fec_mode"}
  BY DEF Endpoints!AutoParameters
<1> HIDE DEF copies, beside
<1> QED
  BY <1>1, <1>2, <1>5, <1>6 DEF DerivedAlso

\* resolve_rtp_auto, when the addresses have been resolved
LEMMA DefaultsSettle ==
    ASSUME TransportParameters, NEW e \in Endpoint, e.transport = "rtp", NEW leg,
           NEW params, SoundLeg(e, leg, params),
           e.type = "sender" => /\ {"source_ip", "destination_ip", "source_port", "destination_port"}
                                     \subseteq DOMAIN params
                                /\ params["source_ip"] # AutoValue /\ params["destination_ip"] # AutoValue,
           e.type = "receiver" => /\ {"interface_ip", "destination_port"} \subseteq DOMAIN params
                                  /\ params["interface_ip"] # AutoValue
    PROVE  SettledLeg(e, leg, Endpoints!RtpDefaults(params, e.type))
<1> DEFINE D == DOMAIN params
           origin == IF e.type = "sender" THEN Endpoints!Resolve(params, "source_port", RtpPort) ELSE params
           ports == Endpoints!Resolve(origin, "destination_port", RtpPort)
           after == Endpoints!RtpDefaults(params, e.type)
<1>1. /\ e.type \in {"sender", "receiver"} /\ DOMAIN e.fixed = {}
      /\ RtpPort \in Nat /\ RtpPort # AutoValue
  BY EndpointKinds DEF TransportParameters, Endpoints!ValuesDistinct
<1>2. D = DOMAIN Endpoints!Made(e) /\ params = [p \in D |-> params[p]]
  BY DEF SoundLeg
<1>3. /\ DOMAIN origin = D /\ origin = [p \in D |-> origin[p]]
      /\ \A p \in D : origin[p] = IF e.type = "sender" /\ p = "source_port" /\ params[p] = AutoValue
                                  THEN RtpPort ELSE params[p]
  BY <1>2, ResolveFacts
<1> HIDE DEF origin
<1>4. /\ DOMAIN ports = D
      /\ \A p \in D : ports[p] = IF p = "destination_port" /\ origin[p] = AutoValue
                                 THEN RtpPort ELSE origin[p]
  BY <1>3, ResolveFacts
<1>5. after = [p \in DOMAIN ports |->
                IF ports[p] # AutoValue THEN ports[p]
                ELSE IF p \in DOMAIN Endpoints!CopyOf(ports, e.type) THEN ports[Endpoints!CopyOf(ports, e.type)[p]]
                ELSE IF p \in DOMAIN Endpoints!NextTo THEN ports[Endpoints!NextTo[p][1]] + Endpoints!NextTo[p][2]
                ELSE AutoValue]
  BY DEF Endpoints!RtpDefaults, origin, ports
<1> HIDE DEF ports, after, D
<1>6. \A p \in D : \/ ports[p] = params[p]
                   \/ p \in Ports /\ params[p] = AutoValue /\ ports[p] = RtpPort
  BY <1>3, <1>4 DEF Ports
<1>7. "destination_port" \in D /\ (e.type = "sender" => "source_port" \in D)
  BY <1>1 DEF D
<1>8. /\ ports["destination_port"] \in Nat
      /\ e.type = "sender" => ports["source_port"] \in Nat /\ ports["destination_ip"] # AutoValue
  <2>1. \A p \in D \cap Ports : params[p] \in Nat \cup {AutoValue}
    BY <1>2 DEF SoundLeg, Sound
  <2>2. ports["destination_port"] \in Nat
    BY <1>1, <1>3, <1>4, <1>7, <2>1 DEF Ports
  <2>3. e.type = "sender" => ports["source_port"] \in Nat
    BY <1>1, <1>3, <1>4, <1>7, <2>1 DEF Ports
  <2>4. e.type = "sender" => ports["destination_ip"] # AutoValue
    BY <1>3, <1>4 DEF D
  <2> QED
    BY <2>2, <2>3, <2>4
<1>9. e.type = "receiver" => /\ ports["interface_ip"] # AutoValue
                             /\ "multicast_ip" \in DOMAIN ports => ports["multicast_ip"] # AutoValue
  <2>1. e.type = "receiver" => ports["interface_ip"] # AutoValue
    BY <1>3, <1>4 DEF D
  <2>2. e.type = "receiver" => "multicast_ip" \notin Endpoints!AutoParameters(e.transport, e.type)
    BY DEF Endpoints!AutoParameters
  <2>3. e.type = "receiver" /\ "multicast_ip" \in D => params["multicast_ip"] # AutoValue
    BY <1>2, <2>2 DEF SoundLeg, Sound
  <2>4. e.type = "receiver" /\ "multicast_ip" \in D => ports["multicast_ip"] = params["multicast_ip"]
    BY <1>3, <1>4
  <2> QED
    BY <1>4, <2>1, <2>3, <2>4
<1>10. ASSUME NEW p \in D
       PROVE  Settled(e, leg, p, after[p])
  <2>1. Sound(e, leg, p, params[p]) /\ p \in DOMAIN Endpoints!Made(e)
    BY <1>2 DEF SoundLeg
  <2>2. CASE params[p] # AutoValue
    <3>1. after[p] = params[p]
      BY <1>4, <1>5, <1>6, <2>2
    <3> QED
      BY <2>1, <2>2, <3>1 DEF Sound
  <2>3. CASE params[p] = AutoValue
    <3>1. p \in Endpoints!AutoParameters("rtp", e.type)
      BY <2>1, <2>3 DEF Sound
    <3>2. p # Endpoints!HostParameter(e)
      BY <2>3, <1>1 DEF Endpoints!HostParameter
    <3>3. \A value : Endpoints!Allows(Endpoints!Constraints(e, leg)[p], value)
      BY <1>1, <2>1, <3>2, Limits
    <3>4. /\ p \in DOMAIN Endpoints!CopyOf(ports, e.type)
                => ports[Endpoints!CopyOf(ports, e.type)[p]] # AutoValue
          /\ p \in DOMAIN Endpoints!NextTo
                => ports[Endpoints!NextTo[p][1]] + Endpoints!NextTo[p][2] # AutoValue
          /\ \/ p \in DOMAIN Endpoints!CopyOf(ports, e.type)
             \/ p \in DOMAIN Endpoints!NextTo
             \/ p \in {"source_port", "destination_port"}
             \/ e.type = "sender" /\ p \in {"source_ip", "destination_ip"}
             \/ e.type = "receiver" /\ p \in {"interface_ip", "fec_mode"}
      <4>1. p \in DOMAIN ports
        BY <1>4
      <4>2. Origins(ports, e.type)
        BY <1>8, <1>9 DEF Origins
      <4>3. DerivedAlso(ports, e.type, p)
        BY <1>1, <3>1, <4>1, <4>2, Derived
      <4> QED
        BY <4>3 DEF DerivedAlso
    <3>5. p \in Ports => ports[p] # AutoValue
      <4>1. p \in Ports => p = "destination_port" \/ (p = "source_port" /\ e.type = "sender")
        BY <3>1, <1>1 DEF Ports, Endpoints!AutoParameters
      <4> QED
        BY <1>1, <1>3, <1>4, <2>3, <4>1
    <3>6. e.type = "sender" => p \notin {"source_ip", "destination_ip"}
      BY <2>3
    <3>7. e.type = "receiver" => p # "interface_ip"
      BY <2>3
    <3>8. after[p] # AutoValue \/ (e.type = "receiver" /\ p = "fec_mode")
      BY <1>4, <1>5, <3>4, <3>5, <3>6, <3>7 DEF Ports
    <3> QED
      BY <3>3, <3>8 DEF Settled
  <2> QED
    BY <2>2, <2>3
<1>11. DOMAIN after = D
  BY <1>4, <1>5
<1> QED
  BY <1>2, <1>10, <1>11 DEF SettledLeg, after

\* A parameter that is resolved to what it may be stays sound.
LEMMA ResolveSound ==
    ASSUME NEW e, NEW leg, NEW params, SoundLeg(e, leg, params), NEW parameter, NEW value,
           value # AutoValue,
           parameter \notin Ports,
           parameter \in DOMAIN Endpoints!Made(e) => Settled(e, leg, parameter, value)
    PROVE  LET after == Endpoints!Resolve(params, parameter, value)
           IN /\ SoundLeg(e, leg, after) /\ DOMAIN after = DOMAIN params
              /\ \A p \in DOMAIN params :
                   after[p] = IF p = parameter /\ params[p] = AutoValue THEN value ELSE params[p]
<1> DEFINE after == Endpoints!Resolve(params, parameter, value)
<1>1. params = [p \in DOMAIN params |-> params[p]] /\ DOMAIN params = DOMAIN Endpoints!Made(e)
  BY DEF SoundLeg
<1>2. /\ DOMAIN after = DOMAIN params
      /\ after = [p \in DOMAIN params |-> after[p]]
      /\ \A p \in DOMAIN params :
           after[p] = IF p = parameter /\ params[p] = AutoValue THEN value ELSE params[p]
  BY <1>1, ResolveFacts
<1> HIDE DEF after
<1>3. \A p \in DOMAIN Endpoints!Made(e) : Sound(e, leg, p, after[p])
  BY <1>1, <1>2 DEF SoundLeg, Sound
<1>4. SoundLeg(e, leg, after)
  BY <1>1, <1>2, <1>3 DEF SoundLeg
<1> QED
  BY <1>2, <1>4 DEF after

\* The resolver of the example resolves all that may be "auto" of an RTP leg.
LEMMA RtpResolved ==
    ASSUME TransportParameters, NEW e \in Endpoint, e.transport = "rtp", NEW leg \in 1..e.legs,
           NEW params, SoundLeg(e, leg, params)
    PROVE  SettledLeg(e, leg, Endpoints!Resolved(e, leg, params))
<1> DEFINE host == Endpoints!Host(e, leg)
<1>1. /\ e.type \in {"sender", "receiver"} /\ DOMAIN e.fixed = {}
      /\ Endpoints!ValuesDistinct
  BY EndpointKinds DEF TransportParameters
<1>2. host \in Endpoints!ToSet(e.hosts[leg]) /\ host # AutoValue /\ GroupOf[leg] # AutoValue
  BY HostFacts
<1>3. DOMAIN params = DOMAIN Endpoints!Made(e)
  BY DEF SoundLeg
<1> HIDE DEF host
<1>4. CASE e.type = "sender"
  <2> DEFINE first == Endpoints!Resolve(params, "source_ip", host)
             second == Endpoints!Resolve(first, "destination_ip", GroupOf[leg])
  <2>1. /\ Endpoints!HostParameter(e) = "source_ip"
        /\ Endpoints!Made(e) = Endpoints!RtpSender(e.sets)
    BY <1>4 DEF Endpoints!HostParameter, Endpoints!Made
  <2>2. {"source_ip", "destination_ip", "source_port", "destination_port"} \subseteq DOMAIN Endpoints!Made(e)
    BY <1>1, <2>1, MadeRtpSender
  <2>3. "source_ip" \in DOMAIN Endpoints!Made(e) => Settled(e, leg, "source_ip", host)
    BY <1>1, <1>2, <2>1, Limits DEF Settled
  <2>4. "destination_ip" \in DOMAIN Endpoints!Made(e) => Settled(e, leg, "destination_ip", GroupOf[leg])
    BY <1>1, <1>2, <2>1, Limits DEF Settled
  <2>5. /\ SoundLeg(e, leg, first) /\ DOMAIN first = DOMAIN params
        /\ \A p \in DOMAIN params :
             first[p] = IF p = "source_ip" /\ params[p] = AutoValue THEN host ELSE params[p]
    <3>1. "source_ip" \notin Ports
      BY DEF Ports
    <3> QED
      BY <1>2, <2>3, <3>1, ResolveSound
  <2> HIDE DEF first
  <2>6. /\ SoundLeg(e, leg, second) /\ DOMAIN second = DOMAIN first
        /\ \A p \in DOMAIN first :
             second[p] = IF p = "destination_ip" /\ first[p] = AutoValue THEN GroupOf[leg] ELSE first[p]
    <3>1. "destination_ip" \notin Ports
      BY DEF Ports
    <3> QED
      BY <1>2, <2>4, <2>5, <3>1, ResolveSound
  <2>7. Endpoints!Resolved(e, leg, params) = Endpoints!RtpDefaults(second, e.type)
    BY <1>4 DEF Endpoints!Resolved, host, first
  <2> HIDE DEF second
  <2>8. second["source_ip"] # AutoValue /\ second["destination_ip"] # AutoValue
    BY <1>2, <1>3, <2>2, <2>5, <2>6
  <2>9. SettledLeg(e, leg, Endpoints!RtpDefaults(second, e.type))
    BY <1>3, <1>4, <2>2, <2>5, <2>6, <2>8, DefaultsSettle
  <2> QED
    BY <2>7, <2>9
<1>5. CASE e.type = "receiver"
  <2> DEFINE first == Endpoints!Resolve(params, "interface_ip", host)
  <2>1. /\ Endpoints!HostParameter(e) = "interface_ip"
        /\ Endpoints!Made(e) = Endpoints!RtpReceiver(e.sets)
    BY <1>5 DEF Endpoints!HostParameter, Endpoints!Made
  <2>2. {"interface_ip", "destination_port"} \subseteq DOMAIN Endpoints!Made(e)
    BY <1>1, <2>1, MadeRtpReceiver
  <2>3. "interface_ip" \in DOMAIN Endpoints!Made(e) => Settled(e, leg, "interface_ip", host)
    BY <1>1, <1>2, <2>1, Limits DEF Settled
  <2>4. /\ SoundLeg(e, leg, first) /\ DOMAIN first = DOMAIN params
        /\ \A p \in DOMAIN params :
             first[p] = IF p = "interface_ip" /\ params[p] = AutoValue THEN host ELSE params[p]
    <3>1. "interface_ip" \notin Ports
      BY DEF Ports
    <3> QED
      BY <1>2, <2>3, <3>1, ResolveSound
  <2>5. Endpoints!Resolved(e, leg, params) = Endpoints!RtpDefaults(first, e.type)
    BY <1>5 DEF Endpoints!Resolved, host
  <2> HIDE DEF first
  <2>6. first["interface_ip"] # AutoValue
    BY <1>2, <1>3, <2>2, <2>4
  <2>7. SettledLeg(e, leg, Endpoints!RtpDefaults(first, e.type))
    BY <1>3, <1>5, <2>2, <2>4, <2>6, DefaultsSettle
  <2> QED
    BY <2>5, <2>7
<1> QED
  BY <1>1, <1>4, <1>5

\* The resolvers of the other transports resolve all that may be "auto" of their legs.
LEMMA OthersResolved ==
    ASSUME TransportParameters, NEW e \in Endpoint, e.transport # "rtp", NEW leg,
           NEW params, SoundLeg(e, leg, params)
    PROVE  SettledLeg(e, leg, Endpoints!Resolved(e, leg, params))
<1>1. /\ e.type \in {"sender", "receiver"}
      /\ e.transport \in {"websocket", "mqtt", "mxl"}
      /\ Endpoints!ValuesDistinct /\ Endpoints!EndpointsMade
  BY EndpointKinds DEF TransportParameters
<1>2. DOMAIN params = DOMAIN Endpoints!Made(e) /\ \A p \in DOMAIN params : Sound(e, leg, p, params[p])
  BY DEF SoundLeg
<1>3. ASSUME NEW p \in DOMAIN Endpoints!Made(e), NEW value, value # AutoValue,
             p \in DOMAIN e.fixed => value = e.fixed[p]
      PROVE  Settled(e, leg, p, value)
  BY <1>3, Limits DEF Settled
<1>4. \A p \in DOMAIN e.fixed : e.fixed[p] # AutoValue
  BY <1>1 DEF Endpoints!EndpointsMade
<1>5. AutoValue # FALSE /\ AutoValue # "chosen"
  BY <1>1, NotAuto
<1>6. CASE e.transport = "websocket"
  <2> DEFINE no == FALSE
  <2>1. "connection_authorization" \in DOMAIN e.fixed => e.fixed["connection_authorization"] = FALSE
    BY <1>1 DEF Endpoints!EndpointsMade
  <2>2. "connection_authorization" \in DOMAIN Endpoints!Made(e)
          => Settled(e, leg, "connection_authorization", no)
    BY <1>3, <1>5, <2>1
  <2>6. no # AutoValue
    BY <1>5
  <2>3. "connection_authorization" \notin Ports /\ "connection_uri" \notin Ports
    BY DEF Ports
  <2> HIDE DEF no
  <2>4. CASE e.type = "sender"
    <3> DEFINE uri == e.fixed["connection_uri"]
               first == Endpoints!Resolve(params, "connection_uri", uri)
               second == Endpoints!Resolve(first, "connection_authorization", no)
    <3>1. uri # AutoValue /\ "connection_uri" \in DOMAIN e.fixed
      BY <1>1, <1>4, <1>6, <2>4 DEF Endpoints!EndpointsMade
    <3>2. "connection_uri" \in DOMAIN Endpoints!Made(e) => Settled(e, leg, "connection_uri", uri)
      BY <1>3, <3>1
    <3> HIDE DEF uri
    <3>3. /\ SoundLeg(e, leg, first) /\ DOMAIN first = DOMAIN params
          /\ \A p \in DOMAIN params :
               first[p] = IF p = "connection_uri" /\ params[p] = AutoValue THEN uri ELSE params[p]
      BY <2>3, <3>1, <3>2, ResolveSound
    <3> HIDE DEF first
    <3>4. /\ SoundLeg(e, leg, second) /\ DOMAIN second = DOMAIN first
          /\ \A p \in DOMAIN first :
               second[p] = IF p = "connection_authorization" /\ first[p] = AutoValue THEN no ELSE first[p]
      BY <2>2, <2>3, <2>6, <3>3, ResolveSound
    <3>5. Endpoints!Resolved(e, leg, params) = second
      BY <1>6, <2>4 DEF Endpoints!Resolved, first, uri, no
    <3> HIDE DEF second
    <3>6. Endpoints!AutoParameters(e.transport, e.type) = {"connection_uri", "connection_authorization"}
      BY <1>6, <2>4 DEF Endpoints!AutoParameters
    <3>7. ASSUME NEW p \in DOMAIN Endpoints!Made(e)
          PROVE  Settled(e, leg, p, second[p])
      <4>1. Sound(e, leg, p, second[p]) /\ Sound(e, leg, p, params[p])
        BY <1>2, <3>4 DEF SoundLeg
      <4>2. second[p] # AutoValue
        <5>1. CASE p = "connection_uri"
          BY <1>2, <3>1, <3>3, <3>4, <5>1
        <5>2. CASE p = "connection_authorization"
          BY <1>2, <2>6, <3>3, <3>4, <5>2
        <5>3. CASE p \notin {"connection_uri", "connection_authorization"}
          BY <3>6, <4>1, <5>3 DEF Sound
        <5> QED
          BY <5>1, <5>2, <5>3
      <4> QED
        BY <4>1, <4>2 DEF Sound
    <3> QED
      BY <1>2, <3>3, <3>4, <3>5, <3>7 DEF SettledLeg
  <2>5. CASE e.type = "receiver"
    <3> DEFINE first == Endpoints!Resolve(params, "connection_authorization", no)
    <3>1. /\ SoundLeg(e, leg, first) /\ DOMAIN first = DOMAIN params
          /\ \A p \in DOMAIN params :
               first[p] = IF p = "connection_authorization" /\ params[p] = AutoValue THEN no ELSE params[p]
      BY <2>2, <2>3, <2>6, ResolveSound
    <3>2. Endpoints!Resolved(e, leg, params) = first
      BY <1>6, <2>5 DEF Endpoints!Resolved, no
    <3> HIDE DEF first
    <3>3. Endpoints!AutoParameters(e.transport, e.type) = {"connection_authorization"}
      BY <1>6, <2>5 DEF Endpoints!AutoParameters
    <3>4. ASSUME NEW p \in DOMAIN Endpoints!Made(e)
          PROVE  Settled(e, leg, p, first[p])
      <4>1. Sound(e, leg, p, first[p])
        BY <3>1 DEF SoundLeg
      <4>2. first[p] # AutoValue
        <5>1. CASE p = "connection_authorization"
          BY <1>2, <2>6, <3>1, <5>1
        <5>2. CASE p # "connection_authorization"
          BY <3>3, <4>1, <5>2 DEF Sound
        <5> QED
          BY <5>1, <5>2
      <4> QED
        BY <4>1, <4>2 DEF Sound
    <3> QED
      BY <1>2, <3>1, <3>2, <3>4 DEF SettledLeg
  <2> QED
    BY <1>1, <2>4, <2>5
<1>7. CASE e.transport = "mqtt"
  <2> DEFINE after == Endpoints!Resolved(e, leg, params)
  <2>1. after = [p \in DOMAIN params |-> IF params[p] = AutoValue
                                         THEN Endpoints!Fixed(e, p, "chosen") ELSE params[p]]
    BY <1>7 DEF Endpoints!Resolved
  <2> HIDE DEF after
  <2>2. ASSUME NEW p \in DOMAIN Endpoints!Made(e)
        PROVE  Settled(e, leg, p, after[p])
    <3>1. CASE params[p] # AutoValue
      BY <1>2, <2>1, <3>1 DEF Sound
    <3>2. CASE params[p] = AutoValue /\ p \in DOMAIN e.fixed
      <4>1. after[p] = e.fixed[p]
        BY <1>2, <2>1, <3>2 DEF Endpoints!Fixed
      <4> QED
        BY <1>3, <1>4, <3>2, <4>1
    <3>3. CASE params[p] = AutoValue /\ p \notin DOMAIN e.fixed
      <4>1. after[p] = "chosen"
        BY <1>2, <2>1, <3>3 DEF Endpoints!Fixed
      <4> QED
        BY <1>3, <1>5, <3>3, <4>1
    <3> QED
      BY <3>1, <3>2, <3>3
  <2>3. DOMAIN after = DOMAIN params
    BY <2>1
  <2> QED
    BY <1>2, <2>2, <2>3 DEF SettledLeg, after
<1>8. CASE e.transport = "mxl"
  <2> DEFINE first == Endpoints!Resolve(params, "mxl_domain_id", e.fixed["mxl_domain_id"])
             second == Endpoints!Resolve(first, "mxl_flow_id", e.fixed["mxl_flow_id"])
  <2>1. /\ "mxl_domain_id" \in DOMAIN e.fixed
        /\ e.type = "sender" => "mxl_flow_id" \in DOMAIN e.fixed
    BY <1>1, <1>8 DEF Endpoints!EndpointsMade
  <2>2. "mxl_domain_id" \in DOMAIN Endpoints!Made(e)
          => Settled(e, leg, "mxl_domain_id", e.fixed["mxl_domain_id"])
    BY <1>3, <1>4, <2>1
  <2>3. "mxl_domain_id" \notin Ports /\ "mxl_flow_id" \notin Ports
    BY DEF Ports
  <2>4. /\ SoundLeg(e, leg, first) /\ DOMAIN first = DOMAIN params
        /\ \A p \in DOMAIN params :
             first[p] = IF p = "mxl_domain_id" /\ params[p] = AutoValue
                        THEN e.fixed["mxl_domain_id"] ELSE params[p]
    BY <1>4, <2>1, <2>2, <2>3, ResolveSound
  <2> HIDE DEF first
  <2>5. CASE e.type = "sender"
    <3>1. "mxl_flow_id" \in DOMAIN Endpoints!Made(e)
            => Settled(e, leg, "mxl_flow_id", e.fixed["mxl_flow_id"])
      BY <1>3, <1>4, <2>1, <2>5
    <3>2. /\ SoundLeg(e, leg, second) /\ DOMAIN second = DOMAIN first
          /\ \A p \in DOMAIN first :
               second[p] = IF p = "mxl_flow_id" /\ first[p] = AutoValue
                           THEN e.fixed["mxl_flow_id"] ELSE first[p]
      BY <1>4, <2>1, <2>3, <2>4, <2>5, <3>1, ResolveSound
    <3>3. Endpoints!Resolved(e, leg, params) = second
      BY <1>8, <2>5 DEF Endpoints!Resolved, first
    <3> HIDE DEF second
    <3>4. Endpoints!AutoParameters(e.transport, e.type) = {"mxl_domain_id", "mxl_flow_id"}
      BY <1>8, <2>5 DEF Endpoints!AutoParameters
    <3>5. ASSUME NEW p \in DOMAIN Endpoints!Made(e)
          PROVE  Settled(e, leg, p, second[p])
      <4>1. Sound(e, leg, p, second[p])
        BY <3>2 DEF SoundLeg
      <4>2. second[p] # AutoValue
        <5>1. CASE p = "mxl_domain_id"
          BY <1>2, <1>4, <2>1, <2>4, <3>2, <5>1
        <5>2. CASE p = "mxl_flow_id"
          BY <1>2, <1>4, <2>1, <2>4, <2>5, <3>2, <5>2
        <5>3. CASE p \notin {"mxl_domain_id", "mxl_flow_id"}
          BY <3>4, <4>1, <5>3 DEF Sound
        <5> QED
          BY <5>1, <5>2, <5>3
      <4> QED
        BY <4>1, <4>2 DEF Sound
    <3> QED
      BY <1>2, <2>4, <3>2, <3>3, <3>5 DEF SettledLeg
  <2>6. CASE e.type = "receiver"
    <3>1. Endpoints!Resolved(e, leg, params) = first
      BY <1>8, <2>6 DEF Endpoints!Resolved, first
    <3>2. Endpoints!AutoParameters(e.transport, e.type) = {"mxl_domain_id"}
      BY <1>8, <2>6 DEF Endpoints!AutoParameters
    <3>3. ASSUME NEW p \in DOMAIN Endpoints!Made(e)
          PROVE  Settled(e, leg, p, first[p])
      <4>1. Sound(e, leg, p, first[p])
        BY <2>4 DEF SoundLeg
      <4>2. first[p] # AutoValue
        <5>1. CASE p = "mxl_domain_id"
          BY <1>2, <1>4, <2>1, <2>4, <5>1
        <5>2. CASE p # "mxl_domain_id"
          BY <3>2, <4>1, <5>2 DEF Sound
        <5> QED
          BY <5>1, <5>2
      <4> QED
        BY <4>1, <4>2 DEF Sound
    <3> QED
      BY <1>2, <2>4, <3>1, <3>3 DEF SettledLeg
  <2> QED
    BY <1>1, <2>5, <2>6
<1> QED
  BY <1>1, <1>6, <1>7, <1>8

\* The resolvers leave no parameter "auto" but the FEC mode of an RTP receiver, and what
\* they put is within the constraints of the leg.
LEMMA Resolves ==
    ASSUME TransportParameters, NEW e \in Endpoint, NEW leg \in 1..e.legs,
           NEW params, SoundLeg(e, leg, params)
    PROVE  SettledLeg(e, leg, Endpoints!Resolved(e, leg, params))
BY RtpResolved, OthersResolved

\* The legs of a transport file that are merged: its own, and a disabled one for a leg it
\* has not.
LEMMA FileLegsFacts ==
    ASSUME NEW e, e.legs \in Nat, NEW sdp, Endpoints!IsSequence(sdp), sdp # <<>>,
           Len(Endpoints!FileLegs(e, sdp)) = e.legs
    PROVE  /\ DOMAIN Endpoints!FileLegs(e, sdp) = 1..e.legs
           /\ \A leg \in 1..e.legs :
                 Endpoints!FileLegs(e, sdp)[leg] =
                    IF leg <= Len(sdp) THEN sdp[leg] ELSE [rtp_enabled |-> FALSE]
           /\ Len(sdp) \in Nat /\ DOMAIN sdp = 1..Len(sdp)
<1> DEFINE S == Endpoints!ToSet(sdp)
           disabled == [rtp_enabled |-> FALSE]
<1>1. sdp \in Seq(S)
  BY DEF Endpoints!IsSequence
<1>2. Endpoints!FileLegs(e, sdp) =
        IF e.legs = 1 /\ Len(sdp) = 2 THEN SubSeq(sdp, 1, Len(sdp) - 1)
        ELSE IF e.legs = 2 /\ Len(sdp) = 1 THEN Append(sdp, disabled) ELSE sdp
  BY DEF Endpoints!FileLegs, Endpoints!Front
<1> HIDE DEF S, disabled
<1>3. CASE e.legs = 1 /\ Len(sdp) = 2
  BY <1>1, <1>2, <1>3
<1>4. CASE e.legs = 2 /\ Len(sdp) = 1
  <2>1. Endpoints!FileLegs(e, sdp) = Append(sdp, disabled)
    BY <1>2, <1>4
  <2>2. /\ DOMAIN Append(sdp, disabled) = 1..2
        /\ Append(sdp, disabled)[1] = sdp[1] /\ Append(sdp, disabled)[2] = disabled
    <3>1. /\ Len(Append(sdp, disabled)) = Len(sdp) + 1
          /\ DOMAIN Append(sdp, disabled) = 1..Len(Append(sdp, disabled))
      BY <1>1
    <3>2. \A i \in 1..Len(sdp) + 1 :
             Append(sdp, disabled)[i] = IF i <= Len(sdp) THEN sdp[i] ELSE disabled
      BY <1>1
    <3>3. Append(sdp, disabled)[1] = sdp[1]
      BY <1>4, <3>2
    <3>4. Append(sdp, disabled)[2] = disabled
      BY <1>4, <3>2
    <3>5. DOMAIN Append(sdp, disabled) = 1..2
      BY <1>4, <3>1
    <3> QED
      BY <3>3, <3>4, <3>5
  <2> QED
    BY <1>1, <1>4, <2>1, <2>2 DEF disabled
<1>5. CASE ~(e.legs = 1 /\ Len(sdp) = 2) /\ ~(e.legs = 2 /\ Len(sdp) = 1)
  BY <1>1, <1>2, <1>5
<1> QED
  BY <1>3, <1>4, <1>5

\* All that is staged is sound.
StagedSound ==
    /\ DOMAIN staged = {"legs", "enable", "peer", "mode", "done"}
    /\ endpoint \in Endpoint
    /\ DOMAIN staged.legs = 1..endpoint.legs
    /\ staged.legs = [leg \in 1..endpoint.legs |-> staged.legs[leg]]
    /\ \A leg \in 1..endpoint.legs : SoundLeg(endpoint, leg, staged.legs[leg])

\* What a patch makes of a parameter
PatchedValue(patch, leg, p, before) ==
    IF patch.legs # <<>> /\ p \in DOMAIN patch.legs[leg] THEN patch.legs[leg][p]
    ELSE IF leg <= Len(patch.file) /\ p \in DOMAIN patch.file[leg] THEN patch.file[leg][p]
    ELSE IF patch.file # <<>> /\ leg > Len(patch.file) /\ p = "rtp_enabled" THEN FALSE
    ELSE before[leg][p]

\* The length of what has legs
LEMMA LegsLength ==
    ASSUME NEW n \in Nat, NEW legs, legs = [leg \in 1..n |-> legs[leg]]
    PROVE  Len(legs) = n
<1> DEFINE S == {legs[leg] : leg \in 1..n}
<1>1. [leg \in 1..n |-> legs[leg]] \in Seq(S)
  OBVIOUS
<1>2. legs \in Seq(S) /\ DOMAIN legs = 1..n
  BY <1>1
<1> HIDE DEF S
<1> QED
  BY <1>2

\* What a transport file stages: each leg keeps its parameters, and each parameter is what
\* the file says, or what it was.
LEMMA WithFileFacts ==
    ASSUME TransportParameters, StagedSound, NEW patch \in Patches, Endpoints!Parsed(patch)
    PROVE  /\ DOMAIN Endpoints!WithFile(patch) = 1..endpoint.legs
           /\ \A leg \in 1..endpoint.legs :
                /\ DOMAIN Endpoints!WithFile(patch)[leg] = DOMAIN Endpoints!Made(endpoint)
                /\ Endpoints!WithFile(patch)[leg] =
                     [p \in DOMAIN Endpoints!Made(endpoint) |-> Endpoints!WithFile(patch)[leg][p]]
                /\ \A p \in DOMAIN Endpoints!Made(endpoint) :
                     Endpoints!WithFile(patch)[leg][p] =
                       IF leg <= Len(patch.file) /\ p \in DOMAIN patch.file[leg] THEN patch.file[leg][p]
                       ELSE IF patch.file # <<>> /\ leg > Len(patch.file) /\ p = "rtp_enabled" THEN FALSE
                       ELSE staged.legs[leg][p]
<1> DEFINE n == endpoint.legs
           D == DOMAIN Endpoints!Made(endpoint)
           file == Endpoints!FileLegs(endpoint, patch.file)
<1>1. n \in Nat /\ Endpoints!IsSequence(patch.file)
  BY DEF TransportParameters, Endpoints!EndpointsMade, Endpoints!FilesParsed, StagedSound
<1>2. /\ DOMAIN staged.legs = 1..n
      /\ \A leg \in 1..n : DOMAIN staged.legs[leg] = D /\ staged.legs[leg] = [p \in D |-> staged.legs[leg][p]]
  BY DEF StagedSound, SoundLeg
<1>3. CASE patch.file = <<>>
  <2>1. Endpoints!WithFile(patch) = staged.legs
    BY <1>3 DEF Endpoints!WithFile
  <2>2. Len(patch.file) = 0
    BY <1>3
  <2> QED
    BY <1>2, <1>3, <2>1, <2>2
<1>4. CASE patch.file # <<>>
  <2>1. Endpoints!WithFile(patch) = [leg \in 1..n |-> Endpoints!With(staged.legs[leg], file[leg])]
    BY <1>2, <1>4 DEF Endpoints!WithFile, Endpoints!Merge
  <2>2. /\ Len(staged.legs) = Len(file)
        /\ \A leg \in DOMAIN file : DOMAIN file[leg] \subseteq DOMAIN staged.legs[leg]
    BY <1>4 DEF Endpoints!Parsed, Endpoints!Mergeable
  <2>3. Len(staged.legs) = n
    BY <1>1, LegsLength DEF StagedSound
  <2>4. /\ DOMAIN file = 1..n
        /\ \A leg \in 1..n : file[leg] = IF leg <= Len(patch.file) THEN patch.file[leg]
                                         ELSE [rtp_enabled |-> FALSE]
        /\ Len(patch.file) \in Nat
    BY <1>1, <1>4, <2>2, <2>3, FileLegsFacts
  <2> HIDE DEF file, n, D
  <2>5. ASSUME NEW leg \in 1..n
        PROVE  /\ DOMAIN Endpoints!WithFile(patch)[leg] = D
               /\ Endpoints!WithFile(patch)[leg] = [p \in D |-> Endpoints!WithFile(patch)[leg][p]]
               /\ \A p \in D : Endpoints!WithFile(patch)[leg][p] =
                                 IF p \in DOMAIN file[leg] THEN file[leg][p] ELSE staged.legs[leg][p]
    <3>1. DOMAIN file[leg] \subseteq D /\ DOMAIN staged.legs[leg] = D
      BY <1>2, <2>2, <2>4
    <3>2. Endpoints!WithFile(patch)[leg] = Endpoints!With(staged.legs[leg], file[leg])
      BY <2>1
    <3> QED
      BY <3>1, <3>2 DEF Endpoints!With
  <2>6. ASSUME NEW leg \in 1..n, NEW p \in D
        PROVE  Endpoints!WithFile(patch)[leg][p] =
                  IF leg <= Len(patch.file) /\ p \in DOMAIN patch.file[leg] THEN patch.file[leg][p]
                  ELSE IF patch.file # <<>> /\ leg > Len(patch.file) /\ p = "rtp_enabled" THEN FALSE
                  ELSE staged.legs[leg][p]
    <3>1. CASE leg <= Len(patch.file)
      <4>1. file[leg] = patch.file[leg] /\ ~(leg > Len(patch.file))
        BY <1>1, <2>4, <3>1
      <4>2. Endpoints!WithFile(patch)[leg][p] =
              IF p \in DOMAIN patch.file[leg] THEN patch.file[leg][p] ELSE staged.legs[leg][p]
        BY <2>5, <4>1
      <4> QED
        BY <3>1, <4>1, <4>2
    <3>2. CASE ~(leg <= Len(patch.file))
      <4>1. leg > Len(patch.file)
        BY <2>4, <3>2, <1>1
      <4>2. DOMAIN file[leg] = {"rtp_enabled"} /\ file[leg]["rtp_enabled"] = FALSE
        BY <2>4, <3>2
      <4> QED
        BY <1>4, <2>5, <3>2, <4>1, <4>2
    <3> QED
      BY <3>1, <3>2
  <2>7. DOMAIN Endpoints!WithFile(patch) = 1..n
    BY <2>1
  <2> QED
    BY <2>5, <2>6, <2>7 DEF n, D
<1> QED
  BY <1>3, <1>4

\* What a PATCH stages: each leg keeps its parameters, and each parameter is what the
\* patch says, what its transport file says, or what it was.
LEMMA PatchedFacts ==
    ASSUME TransportParameters, StagedSound, NEW patch \in Patches, Endpoints!Parsed(patch),
           patch.legs # <<>> => Endpoints!Mergeable(staged.legs, patch.legs)
    PROVE  /\ DOMAIN Endpoints!Patched(patch) = 1..endpoint.legs
           /\ Endpoints!Patched(patch) = [leg \in 1..endpoint.legs |-> Endpoints!Patched(patch)[leg]]
           /\ patch.legs # <<>> => DOMAIN patch.legs = 1..endpoint.legs
           /\ \A leg \in 1..endpoint.legs :
                /\ DOMAIN Endpoints!Patched(patch)[leg] = DOMAIN Endpoints!Made(endpoint)
                /\ Endpoints!Patched(patch)[leg] =
                     [p \in DOMAIN Endpoints!Made(endpoint) |-> Endpoints!Patched(patch)[leg][p]]
                /\ \A p \in DOMAIN Endpoints!Made(endpoint) :
                     Endpoints!Patched(patch)[leg][p] = PatchedValue(patch, leg, p, staged.legs)
<1> DEFINE n == endpoint.legs
           D == DOMAIN Endpoints!Made(endpoint)
           filed == Endpoints!WithFile(patch)
<1>1. n \in Nat /\ Endpoints!IsSequence(patch.legs)
  BY DEF TransportParameters, Endpoints!EndpointsMade, Endpoints!FilesParsed, StagedSound
<1>2. /\ DOMAIN filed = 1..n
      /\ \A leg \in 1..n : DOMAIN filed[leg] = D /\ filed[leg] = [p \in D |-> filed[leg][p]]
  BY WithFileFacts
<1>3. \A leg \in 1..n : DOMAIN staged.legs[leg] = D
  BY DEF StagedSound, SoundLeg
<1>7. \A leg \in 1..n, p \in D :
         filed[leg][p] =
            IF leg <= Len(patch.file) /\ p \in DOMAIN patch.file[leg] THEN patch.file[leg][p]
            ELSE IF patch.file # <<>> /\ leg > Len(patch.file) /\ p = "rtp_enabled" THEN FALSE
            ELSE staged.legs[leg][p]
  BY WithFileFacts
<1>4. \A leg \in 1..n, p \in D :
         PatchedValue(patch, leg, p, staged.legs) =
            IF patch.legs # <<>> /\ p \in DOMAIN patch.legs[leg] THEN patch.legs[leg][p] ELSE filed[leg][p]
  BY <1>7 DEF PatchedValue
<1> HIDE DEF filed, n, D
<1>5. CASE patch.legs = <<>>
  <2>1. Endpoints!Patched(patch) = filed
    BY <1>5 DEF Endpoints!Patched, filed
  <2>2. filed = [leg \in 1..n |-> filed[leg]]
    <3>1. CASE patch.file = <<>>
      BY <3>1 DEF filed, Endpoints!WithFile, StagedSound, n
    <3>2. CASE patch.file # <<>>
      <4>1. filed = [leg \in DOMAIN staged.legs |->
                       Endpoints!With(staged.legs[leg], Endpoints!FileLegs(endpoint, patch.file)[leg])]
        BY <3>2 DEF filed, Endpoints!WithFile, Endpoints!Merge
      <4> QED
        BY <4>1, <1>2
    <3> QED
      BY <3>1, <3>2
  <2> QED
    BY <1>2, <1>4, <1>5, <2>1, <2>2 DEF n, D
<1>6. CASE patch.legs # <<>>
  <2>1. Endpoints!Patched(patch) = [leg \in 1..n |-> Endpoints!With(filed[leg], patch.legs[leg])]
    BY <1>2, <1>6 DEF Endpoints!Patched, Endpoints!Merge, filed
  <2>2. /\ Len(staged.legs) = Len(patch.legs)
        /\ \A leg \in DOMAIN patch.legs : DOMAIN patch.legs[leg] \subseteq DOMAIN staged.legs[leg]
    BY <1>6 DEF Endpoints!Mergeable
  <2>3. Len(staged.legs) = n
    BY <1>1, LegsLength DEF StagedSound, n
  <2>4. DOMAIN patch.legs = 1..n
    <3>1. DOMAIN patch.legs = 1..Len(patch.legs)
      BY <1>1 DEF Endpoints!IsSequence
    <3> QED
      BY <2>2, <2>3, <3>1
  <2>5. ASSUME NEW leg \in 1..n
        PROVE  /\ DOMAIN Endpoints!Patched(patch)[leg] = D
               /\ Endpoints!Patched(patch)[leg] = [p \in D |-> Endpoints!Patched(patch)[leg][p]]
               /\ \A p \in D : Endpoints!Patched(patch)[leg][p] =
                                 IF p \in DOMAIN patch.legs[leg] THEN patch.legs[leg][p] ELSE filed[leg][p]
    <3>1. DOMAIN patch.legs[leg] \subseteq D /\ DOMAIN filed[leg] = D
      BY <1>2, <1>3, <2>2, <2>4
    <3>2. Endpoints!Patched(patch)[leg] = Endpoints!With(filed[leg], patch.legs[leg])
      BY <2>1
    <3> QED
      BY <3>1, <3>2 DEF Endpoints!With
  <2>6. /\ DOMAIN Endpoints!Patched(patch) = 1..n
        /\ Endpoints!Patched(patch) = [leg \in 1..n |-> Endpoints!Patched(patch)[leg]]
    BY <2>1
  <2>7. ASSUME NEW leg \in 1..n, NEW p \in D
        PROVE  Endpoints!Patched(patch)[leg][p] = PatchedValue(patch, leg, p, staged.legs)
    <3>1. CASE p \in DOMAIN patch.legs[leg]
      <4>1. PatchedValue(patch, leg, p, staged.legs) = patch.legs[leg][p]
        BY <1>6, <3>1 DEF PatchedValue
      <4> QED
        BY <2>5, <3>1, <4>1
    <3>2. CASE p \notin DOMAIN patch.legs[leg]
      <4>1. PatchedValue(patch, leg, p, staged.legs) = filed[leg][p]
        BY <1>4, <3>2
      <4> QED
        BY <2>5, <3>2, <4>1
    <3> QED
      BY <3>1, <3>2
  <2> QED
    BY <2>4, <2>5, <2>6, <2>7 DEF n, D
<1> QED
  BY <1>5, <1>6

\* What is accepted is sound: its "auto"s are those of the schemas, and the rest has been
\* found to be within the constraints.
LEMMA PatchedSound ==
    ASSUME TransportParameters, StagedSound, NEW patch \in Patches,
           Endpoints!Conforms(patch), Endpoints!Parsed(patch),
           patch.legs # <<>> => Endpoints!Mergeable(staged.legs, patch.legs),
           Endpoints!Valid(endpoint, Endpoints!Patched(patch)),
           NEW leg \in 1..endpoint.legs
    PROVE  SoundLeg(endpoint, leg, Endpoints!Patched(patch)[leg])
<1> DEFINE D == DOMAIN Endpoints!Made(endpoint)
           legs == Endpoints!Patched(patch)
           autos == Endpoints!AutoParameters(endpoint.transport, endpoint.type)
<1>1. /\ DOMAIN legs = 1..endpoint.legs
      /\ patch.legs # <<>> => DOMAIN patch.legs = 1..endpoint.legs
      /\ DOMAIN legs[leg] = D /\ legs[leg] = [p \in D |-> legs[leg][p]]
      /\ \A p \in D : legs[leg][p] = PatchedValue(patch, leg, p, staged.legs)
  BY PatchedFacts
<1>2. \A p \in D : Sound(endpoint, leg, p, staged.legs[leg][p])
  BY DEF StagedSound, SoundLeg
<1>3. \A p \in D : \/ Endpoints!Allows(Endpoints!Constraints(endpoint, leg)[p], legs[leg][p])
                   \/ legs[leg][p] = AutoValue /\ p \in autos
                   \/ legs[leg][p] = Null /\ p \in Endpoints!NullParameters(endpoint.transport)
  <2>1. Endpoints!Wrong(endpoint, legs[leg], Endpoints!Constraints(endpoint, leg)) = {}
    BY <1>1 DEF Endpoints!Valid
  <2> QED
    BY <1>1, <2>1 DEF Endpoints!Wrong
<1>4. endpoint \in Endpoint /\ AutoValue # FALSE
  BY NotAuto DEF StagedSound, TransportParameters
<1>5. Endpoints!IsSequence(patch.file)
  BY DEF TransportParameters, Endpoints!FilesParsed
<1> HIDE DEF legs, autos, D
<1>6. ASSUME NEW p \in D
      PROVE  /\ legs[leg][p] = AutoValue => p \in autos
             /\ p \in Ports /\ endpoint.transport = "rtp" => legs[leg][p] \in Nat \cup {AutoValue}
  <2>1. legs[leg][p] = PatchedValue(patch, leg, p, staged.legs)
    BY <1>1
  <2>2. CASE patch.legs # <<>> /\ p \in DOMAIN patch.legs[leg]
    <3>1. legs[leg][p] = patch.legs[leg][p] /\ leg \in DOMAIN patch.legs
      BY <1>1, <2>1, <2>2 DEF PatchedValue
    <3> QED
      BY <2>2, <3>1 DEF Endpoints!Conforms, Ports, autos
  <2>3. CASE ~(patch.legs # <<>> /\ p \in DOMAIN patch.legs[leg])
             /\ leg <= Len(patch.file) /\ p \in DOMAIN patch.file[leg]
    <3>1. legs[leg][p] = patch.file[leg][p]
      BY <2>1, <2>3 DEF PatchedValue
    <3>2. Len(patch.file) \in Nat /\ DOMAIN patch.file = 1..Len(patch.file) /\ leg \in Nat /\ leg >= 1
      BY <1>4, <1>5 DEF Endpoints!IsSequence, TransportParameters, Endpoints!EndpointsMade
    <3>3. leg \in DOMAIN patch.file
      BY <2>3, <3>2
    <3>4. /\ legs[leg][p] = AutoValue => p = "interface_ip"
          /\ p \in Ports => legs[leg][p] \in Nat
      BY <2>3, <3>1, <3>3 DEF TransportParameters, Endpoints!FilesParsed, Ports
    <3>5. patch.file # <<>>
      BY <3>3
    <3>6. endpoint.type = "receiver" /\ endpoint.transport = "rtp"
      BY <3>5 DEF Endpoints!Parsed
    <3>7. "interface_ip" \in autos
      BY <3>6 DEF autos, Endpoints!AutoParameters
    <3> QED
      BY <3>4, <3>7
  <2>4. CASE ~(patch.legs # <<>> /\ p \in DOMAIN patch.legs[leg])
             /\ ~(leg <= Len(patch.file) /\ p \in DOMAIN patch.file[leg])
             /\ patch.file # <<>> /\ leg > Len(patch.file) /\ p = "rtp_enabled"
    <3>1. legs[leg][p] = FALSE
      BY <2>1, <2>4 DEF PatchedValue
    <3> QED
      BY <1>4, <2>4, <3>1 DEF Ports
  <2>5. CASE ~(patch.legs # <<>> /\ p \in DOMAIN patch.legs[leg])
             /\ ~(leg <= Len(patch.file) /\ p \in DOMAIN patch.file[leg])
             /\ ~(patch.file # <<>> /\ leg > Len(patch.file) /\ p = "rtp_enabled")
    <3>1. legs[leg][p] = staged.legs[leg][p]
      BY <2>1, <2>5 DEF PatchedValue
    <3> QED
      BY <1>2, <3>1 DEF Sound, autos
  <2> QED
    BY <2>2, <2>3, <2>4, <2>5
<1>7. ASSUME NEW p \in D
      PROVE  Sound(endpoint, leg, p, legs[leg][p])
  BY <1>3, <1>6 DEF Sound, Settled, autos
<1> QED
  BY <1>1, <1>7 DEF SoundLeg, legs, D

\* What has been made active: resolved, or an RTP sender's as it was made.
ActiveSettled ==
    /\ DOMAIN active = {"legs", "enable", "peer"}
    /\ DOMAIN active.legs = 1..endpoint.legs
    /\ active.legs = [leg \in 1..endpoint.legs |-> active.legs[leg]]
    /\ \A leg \in 1..endpoint.legs :
          \/ SettledLeg(endpoint, leg, active.legs[leg])
          \/ Endpoints!Described /\ active.legs[leg] = Endpoints!Made(endpoint)

\* What is staged and what is active, with the places of the activation and the GET
TransportInv ==
    /\ StagedSound /\ ActiveSettled
    /\ staged.mode \in {Null, "immediate", "scheduled"} /\ staged.done \in BOOLEAN
    /\ reader \in {"none", "waits", Null, "immediate", "scheduled"}

\* An activation resolves all of its legs.
LEMMA ActivatingSettled ==
    ASSUME TransportParameters, StagedSound
    PROVE  /\ DOMAIN Endpoints!Activating = {"legs", "enable", "peer"}
           /\ DOMAIN Endpoints!Activating.legs = 1..endpoint.legs
           /\ Endpoints!Activating.legs = [leg \in 1..endpoint.legs |-> Endpoints!Activating.legs[leg]]
           /\ \A leg \in 1..endpoint.legs : SettledLeg(endpoint, leg, Endpoints!Activating.legs[leg])
<1> DEFINE legs == Endpoints!Activating.legs
<1>1. /\ legs = [leg \in 1..endpoint.legs |-> Endpoints!Resolved(endpoint, leg, staged.legs[leg])]
      /\ DOMAIN Endpoints!Activating = {"legs", "enable", "peer"}
  BY DEF Endpoints!Activating, StagedSound
<1>2. \A leg \in 1..endpoint.legs : SettledLeg(endpoint, leg, Endpoints!Resolved(endpoint, leg, staged.legs[leg]))
  BY Resolves DEF StagedSound
<1> HIDE DEF legs
<1> QED
  BY <1>1, <1>2 DEF legs

\* Endpoints are made with sound parameters, and those made active are resolved.
LEMMA TransportInit ==
    ASSUME TransportParameters, Endpoints!Init
    PROVE  TransportInv
<1>1. PICK e \in Endpoint, scheduled \in BOOLEAN :
        /\ endpoint = e
        /\ staged = [legs |-> [leg \in 1..e.legs |-> Endpoints!Made(e)],
                     enable |-> scheduled, peer |-> Null,
                     mode |-> IF scheduled THEN "scheduled" ELSE Null, done |-> FALSE]
        /\ active = [legs   |-> IF e.transport = "rtp" /\ e.type = "sender"
                                THEN [leg \in 1..e.legs |-> Endpoints!Made(e)]
                                ELSE [leg \in 1..e.legs |-> Endpoints!Resolved(e, leg, Endpoints!Made(e))],
                     enable |-> FALSE, peer |-> Null]
        /\ reader = "none"
  BY DEF Endpoints!Init
<1>2. \A leg \in 1..e.legs : SoundLeg(e, leg, Endpoints!Made(e))
  BY MadeSound
<1>3. StagedSound
  <2>1. /\ DOMAIN staged = {"legs", "enable", "peer", "mode", "done"}
        /\ staged.legs = [leg \in 1..e.legs |-> Endpoints!Made(e)]
    BY <1>1
  <2> QED
    BY <1>1, <1>2, <2>1 DEF StagedSound
<1>4. ActiveSettled
  <2>1. DOMAIN active = {"legs", "enable", "peer"}
    BY <1>1
  <2>2. CASE e.transport = "rtp" /\ e.type = "sender"
    <3>1. active.legs = [leg \in 1..e.legs |-> Endpoints!Made(e)]
      BY <1>1, <2>2
    <3> QED
      BY <1>1, <2>1, <2>2, <3>1 DEF ActiveSettled, Endpoints!Described
  <2>3. CASE ~(e.transport = "rtp" /\ e.type = "sender")
    <3>1. active.legs = [leg \in 1..e.legs |-> Endpoints!Resolved(e, leg, Endpoints!Made(e))]
      BY <1>1, <2>3
    <3>2. \A leg \in 1..e.legs : SettledLeg(e, leg, Endpoints!Resolved(e, leg, Endpoints!Made(e)))
      BY <1>2, Resolves
    <3> QED
      BY <1>1, <2>1, <3>1, <3>2 DEF ActiveSettled
  <2> QED
    BY <2>2, <2>3
<1>5. staged.mode \in {Null, "immediate", "scheduled"} /\ staged.done \in BOOLEAN
  BY <1>1
<1> QED
  BY <1>1, <1>3, <1>4, <1>5 DEF TransportInv

\* The end of an activation leaves what is staged.
LEMMA OverKeeps ==
    ASSUME StagedSound, staged.done \in BOOLEAN, staged.mode \in {Null, "immediate", "scheduled"},
           NEW done \in BOOLEAN
    PROVE  /\ DOMAIN Endpoints!Over(done) = DOMAIN staged
           /\ Endpoints!Over(done).legs = staged.legs
           /\ Endpoints!Over(done).done \in BOOLEAN
           /\ Endpoints!Over(done).mode \in {Null, "immediate", "scheduled"}
BY DEF Endpoints!Over, StagedSound

\* Patches, activations that succeed or fail, and requests keep the invariant.
LEMMA TransportStep ==
    ASSUME TransportParameters, TransportInv, [Endpoints!Next]_(Endpoints!vars)
    PROVE  TransportInv'
<1>1. /\ StagedSound /\ ActiveSettled /\ endpoint \in Endpoint
      /\ staged.mode \in {Null, "immediate", "scheduled"} /\ staged.done \in BOOLEAN
      /\ reader \in {"none", "waits", Null, "immediate", "scheduled"}
  BY DEF TransportInv, StagedSound
<1>2. ASSUME endpoint' = endpoint, staged'.legs = staged.legs, DOMAIN staged' = DOMAIN staged
      PROVE  StagedSound'
  BY <1>1, <1>2 DEF StagedSound
<1>3. ASSUME endpoint' = endpoint, active' = active
      PROVE  ActiveSettled'
  BY <1>1, <1>3 DEF ActiveSettled, Endpoints!Described
<1>4. ASSUME endpoint' = endpoint, active' = Endpoints!Activating
      PROVE  ActiveSettled'
  BY <1>1, <1>4, ActivatingSettled DEF ActiveSettled
<1>5. CASE \E patch \in Patches, version \in Endpoints!Version : Endpoints!Stage(patch, version)
  <2>1. PICK patch \in Patches, version \in Endpoints!Version : Endpoints!Stage(patch, version)
    BY <1>5
  <2>2. /\ Endpoints!Conforms(patch) /\ Endpoints!Parsed(patch)
        /\ patch.legs # <<>> => Endpoints!Mergeable(staged.legs, patch.legs)
        /\ Endpoints!Valid(endpoint, Endpoints!Patched(patch))
    BY <2>1 DEF Endpoints!Stage
  <2>3. /\ DOMAIN staged' = {"legs", "enable", "peer", "mode", "done"}
        /\ staged'.legs = Endpoints!Patched(patch) /\ staged'.done = FALSE
        /\ staged'.mode \in {Null, "immediate", "scheduled"}
        /\ endpoint' = endpoint /\ active' = active /\ reader' = reader
    BY <2>1 DEF Endpoints!Stage
  <2>4. /\ DOMAIN Endpoints!Patched(patch) = 1..endpoint.legs
        /\ Endpoints!Patched(patch) = [leg \in 1..endpoint.legs |-> Endpoints!Patched(patch)[leg]]
    BY <1>1, <2>2, PatchedFacts
  <2>5. \A leg \in 1..endpoint.legs : SoundLeg(endpoint, leg, Endpoints!Patched(patch)[leg])
    BY <1>1, <2>2, PatchedSound
  <2>6. StagedSound'
    BY <1>1, <2>3, <2>4, <2>5 DEF StagedSound
  <2> QED
    BY <1>1, <1>3, <2>3, <2>6 DEF TransportInv
<1>6. CASE Endpoints!Activate
  BY <1>1, <1>2, <1>4, <1>6, OverKeeps DEF Endpoints!Activate, TransportInv
<1>7. CASE Endpoints!Unresolved
  BY <1>1, <1>2, <1>3, <1>7, OverKeeps DEF Endpoints!Unresolved, TransportInv
<1>8. CASE Endpoints!Indescribable
  BY <1>1, <1>2, <1>4, <1>8, OverKeeps DEF Endpoints!Indescribable, TransportInv
<1>9. CASE Endpoints!Finish
  <2>1. /\ endpoint' = endpoint /\ active' = active /\ reader' = reader
        /\ staged' = [staged EXCEPT !.mode = Null, !.done = FALSE]
    BY <1>9 DEF Endpoints!Finish
  <2>2. /\ DOMAIN staged' = DOMAIN staged /\ staged'.legs = staged.legs
        /\ staged'.mode = Null /\ staged'.done = FALSE
    BY <1>1, <2>1 DEF StagedSound
  <2> QED
    BY <1>1, <1>2, <1>3, <2>1, <2>2 DEF TransportInv
<1>10. CASE Endpoints!GetWaits \/ Endpoints!GetStaged \/ Endpoints!GetTimeout \/ Endpoints!GetDone
  <2>1. /\ endpoint' = endpoint /\ active' = active /\ staged' = staged
        /\ reader' \in {"none", "waits", Null, "immediate", "scheduled"}
    BY <1>1, <1>10 DEF Endpoints!GetWaits, Endpoints!GetStaged, Endpoints!GetTimeout, Endpoints!GetDone
  <2> QED
    BY <1>1, <1>2, <1>3, <2>1 DEF TransportInv
<1>11. CASE UNCHANGED Endpoints!vars
  <2>1. endpoint' = endpoint /\ active' = active /\ staged' = staged /\ reader' = reader
    BY <1>11 DEF Endpoints!vars
  <2> QED
    BY <1>1, <1>2, <1>3, <2>1 DEF TransportInv
<1> QED
  BY <1>5, <1>6, <1>7, <1>8, <1>9, <1>10, <1>11 DEF Endpoints!Next

\* In every reachable state what is staged is sound, and what is active settled.
LEMMA TransportAlways ==
    ASSUME TransportParameters
    PROVE  Endpoints!Spec => []TransportInv
<1>1. Endpoints!Init => TransportInv
  BY TransportInit
<1>2. TransportInv /\ [Endpoints!Next]_(Endpoints!vars) => TransportInv'
  BY TransportStep
<1> QED
  BY <1>1, <1>2, PTL DEF Endpoints!Spec

\* The variables of an endpoint keep their types, for every set of endpoints and patches.
THEOREM TransportTypeCorrect ==
    ASSUME TransportParameters
    PROVE  Endpoints!Spec => []Endpoints!TypeOK
<1>1. TransportInv => Endpoints!TypeOK
  <2> SUFFICES ASSUME TransportInv
               PROVE  Endpoints!TypeOK
    OBVIOUS
  <2>1. endpoint \in Endpoint /\ endpoint.legs \in Nat
    BY DEF TransportInv, StagedSound, TransportParameters, Endpoints!EndpointsMade
  <2>2. Len(staged.legs) = endpoint.legs /\ Len(active.legs) = endpoint.legs
    BY <2>1, LegsLength DEF TransportInv, StagedSound, ActiveSettled
  <2> QED
    BY <2>1, <2>2 DEF TransportInv, Endpoints!TypeOK
<1> QED
  BY <1>1, TransportAlways, PTL

\* No PATCH, transport file or activation adds a parameter to a leg or removes one,
\* for every set of endpoints of any number of legs, and of patches.
THEOREM LegsKeptHolds ==
    ASSUME TransportParameters
    PROVE  Endpoints!Spec => []Endpoints!LegsKept
<1>1. TransportInv => Endpoints!LegsKept
  <2> SUFFICES ASSUME TransportInv, NEW leg \in 1..endpoint.legs
               PROVE  /\ DOMAIN staged.legs[leg] = DOMAIN Endpoints!Made(endpoint)
                      /\ DOMAIN active.legs[leg] = DOMAIN Endpoints!Made(endpoint)
    BY DEF Endpoints!LegsKept
  <2> QED
    BY DEF TransportInv, StagedSound, ActiveSettled, SoundLeg, SettledLeg
<1> QED
  BY <1>1, TransportAlways, PTL

\* What is active is resolved and within its constraints, whatever was patched before:
\* validation lets "auto" through only where the resolver replaces it, and what it replaces
\* it with need not be validated again.
THEOREM ActiveResolvedHolds ==
    ASSUME TransportParameters
    PROVE  Endpoints!Spec => []Endpoints!ActiveResolved
<1>1. TransportInv => Endpoints!ActiveResolved
  <2> SUFFICES ASSUME TransportInv, NEW leg \in 1..endpoint.legs, NEW p \in DOMAIN active.legs[leg]
               PROVE  LET value == active.legs[leg][p]
                      IN \/ value # AutoValue /\ Endpoints!Allows(Endpoints!Constraints(endpoint, leg)[p], value)
                         \/ value = Null /\ p \in Endpoints!NullParameters(endpoint.transport)
                         \/ endpoint.type = "receiver" /\ p = "fec_mode"
                         \/ Endpoints!Described /\ active.legs[leg] = Endpoints!Made(endpoint)
    BY DEF Endpoints!ActiveResolved
  <2>1. CASE SettledLeg(endpoint, leg, active.legs[leg])
    BY <2>1 DEF SettledLeg, Settled
  <2>2. CASE Endpoints!Described /\ active.legs[leg] = Endpoints!Made(endpoint)
    BY <2>2
  <2> QED
    BY <2>1, <2>2 DEF TransportInv, ActiveSettled
<1> QED
  BY <1>1, TransportAlways, PTL

\* What a step does to what is staged and to the history: it leaves both, or a patch is
\* accepted.
LEMMA StagedChange ==
    ASSUME TransportInv, [Endpoints!Next]_(Endpoints!vars)
    PROVE  /\ endpoint' = endpoint
           /\ \/ staged'.legs = staged.legs /\ accepted' = accepted
              \/ \E patch \in Patches :
                   /\ Endpoints!Parsed(patch)
                   /\ patch.legs # <<>> => Endpoints!Mergeable(staged.legs, patch.legs)
                   /\ staged'.legs = Endpoints!Patched(patch)
                   /\ accepted'.before = staged.legs /\ accepted'.patch = patch
<1>1. /\ StagedSound /\ staged.done \in BOOLEAN /\ staged.mode \in {Null, "immediate", "scheduled"}
  BY DEF TransportInv
<1>2. CASE \E patch \in Patches, version \in Endpoints!Version : Endpoints!Stage(patch, version)
  <2>1. PICK patch \in Patches, version \in Endpoints!Version : Endpoints!Stage(patch, version)
    BY <1>2
  <2> QED
    BY <2>1 DEF Endpoints!Stage
<1>3. CASE Endpoints!Activate \/ Endpoints!Indescribable \/ Endpoints!Unresolved
  BY <1>1, <1>3, OverKeeps DEF Endpoints!Activate, Endpoints!Indescribable, Endpoints!Unresolved
<1>4. CASE Endpoints!Finish
  BY <1>1, <1>4 DEF Endpoints!Finish, StagedSound
<1>5. CASE Endpoints!GetWaits \/ Endpoints!GetStaged \/ Endpoints!GetTimeout \/ Endpoints!GetDone
  BY <1>5 DEF Endpoints!GetWaits, Endpoints!GetStaged, Endpoints!GetTimeout, Endpoints!GetDone
<1>6. CASE UNCHANGED Endpoints!vars
  BY <1>6 DEF Endpoints!vars
<1> QED
  BY <1>2, <1>3, <1>4, <1>5, <1>6 DEF Endpoints!Next

\* What is staged is what the last accepted PATCH says, then its transport file, and else
\* what it was, whatever activations there were since.
THEOREM PatchHoldsAlways ==
    ASSUME TransportParameters
    PROVE  Endpoints!Spec => []Endpoints!PatchHolds
<1> DEFINE Holds == accepted # Null =>
                      \A leg \in 1..endpoint.legs : \A p \in DOMAIN staged.legs[leg] :
                         staged.legs[leg][p] = PatchedValue(accepted.patch, leg, p, accepted.before)
<1>1. Endpoints!PatchHolds <=> Holds
  BY DEF Endpoints!PatchHolds, PatchedValue
<1>2. Endpoints!Init => Holds
  BY DEF Endpoints!Init
<1>3. TransportInv /\ Holds /\ [Endpoints!Next]_(Endpoints!vars) => Holds'
  <2> SUFFICES ASSUME TransportInv, Holds, [Endpoints!Next]_(Endpoints!vars)
               PROVE  Holds'
    OBVIOUS
  <2>1. endpoint' = endpoint
    BY StagedChange
  <2>2. CASE staged'.legs = staged.legs /\ accepted' = accepted
    BY <2>1, <2>2 DEF PatchedValue
  <2>3. ASSUME NEW patch \in Patches, Endpoints!Parsed(patch),
               patch.legs # <<>> => Endpoints!Mergeable(staged.legs, patch.legs),
               staged'.legs = Endpoints!Patched(patch),
               accepted'.before = staged.legs, accepted'.patch = patch
        PROVE  Holds'
    <3>1. ASSUME NEW leg \in 1..endpoint.legs
          PROVE  \A p \in DOMAIN Endpoints!Patched(patch)[leg] :
                    Endpoints!Patched(patch)[leg][p] = PatchedValue(patch, leg, p, staged.legs)
      BY <2>3, PatchedFacts DEF TransportInv
    <3>2. \A leg, p : PatchedValue(accepted.patch, leg, p, accepted.before)'
                      = PatchedValue(patch, leg, p, staged.legs)
      BY <2>3 DEF PatchedValue
    <3> QED
      BY <2>1, <2>3, <3>1, <3>2
  <2> QED
    BY <2>2, <2>3, StagedChange
<1> HIDE DEF Holds
<1> QED
  BY <1>1, <1>2, <1>3, TransportAlways, PTL DEF Endpoints!Spec

\* Only the endpoints that are described have a transport file.
Agreement ==
    /\ Endpoints!ActiveAgrees
    /\ ~Endpoints!Described => transportfile = {}

\* The IS-04 subscription and the transport file of an endpoint agree with what is active,
\* unless its flow is one that the application has no transport file for.
THEOREM ActiveAgreesAlways ==
    ASSUME TransportParameters
    PROVE  Endpoints!Spec => []Endpoints!ActiveAgrees
<1>1. Endpoints!Init => Agreement
  BY DEF Endpoints!Init, Agreement, Endpoints!ActiveAgrees, Endpoints!Subscription
<1>2. TransportInv /\ Agreement /\ [Endpoints!Next]_(Endpoints!vars) => Agreement'
  <2> SUFFICES ASSUME TransportInv, Agreement, [Endpoints!Next]_(Endpoints!vars)
               PROVE  Agreement'
    OBVIOUS
  <2>1. endpoint' = endpoint
    BY StagedChange
  <2>2. CASE UNCHANGED <<active, subscription, transportfile>>
    BY <2>1, <2>2 DEF Agreement, Endpoints!ActiveAgrees, Endpoints!Described, Endpoints!Subscription
  <2>3. CASE Endpoints!Activate
    <3>1. /\ transportfile' = IF Endpoints!Described THEN {active'.legs} ELSE transportfile
          /\ subscription' = Endpoints!Subscription(active')
      BY <2>3 DEF Endpoints!Activate
    <3>2. Endpoints!Described' <=> Endpoints!Described
      BY <2>1 DEF Endpoints!Described
    <3>3. Endpoints!ActiveAgrees'
      <4>1. CASE Endpoints!Described
        BY <3>1, <4>1 DEF Endpoints!ActiveAgrees, Endpoints!Subscription
      <4>2. CASE ~Endpoints!Described
        BY <3>1, <3>2, <4>2 DEF Endpoints!ActiveAgrees, Endpoints!Subscription, Agreement
      <4> QED
        BY <4>1, <4>2
    <3> QED
      BY <3>1, <3>2, <3>3 DEF Agreement
  <2>4. CASE Endpoints!Indescribable
    BY <2>1, <2>4 DEF Endpoints!Indescribable, Agreement, Endpoints!ActiveAgrees, Endpoints!Described
  <2>5. Endpoints!Activate \/ Endpoints!Indescribable \/ UNCHANGED <<active, subscription, transportfile>>
    BY DEF Endpoints!Next, Endpoints!vars, Endpoints!Stage, Endpoints!Unresolved, Endpoints!Finish,
           Endpoints!GetWaits, Endpoints!GetStaged, Endpoints!GetTimeout, Endpoints!GetDone
  <2> QED
    BY <2>2, <2>3, <2>4, <2>5
<1>3. Agreement => Endpoints!ActiveAgrees
  BY DEF Agreement
<1> QED
  BY <1>1, <1>2, <1>3, TransportAlways, PTL DEF Endpoints!Spec

\* A GET of what is staged never shows an immediate activation in progress.
THEOREM InFlightHiddenAlways ==
    ASSUME TransportParameters
    PROVE  Endpoints!Spec => []Endpoints!InFlightHidden
<1>1. Endpoints!Init => Endpoints!InFlightHidden
  BY DEF Endpoints!Init, Endpoints!InFlightHidden
<1>2. Endpoints!InFlightHidden /\ [Endpoints!Next]_(Endpoints!vars) => Endpoints!InFlightHidden'
  BY DEF Endpoints!InFlightHidden, Endpoints!Next, Endpoints!vars, Endpoints!Stage, Endpoints!Activate,
         Endpoints!Unresolved, Endpoints!Indescribable, Endpoints!Finish, Endpoints!GetWaits,
         Endpoints!GetStaged, Endpoints!GetTimeout, Endpoints!GetDone
<1> QED
  BY <1>1, <1>2, PTL DEF Endpoints!Spec

\* In every version of the API an endpoint is listed if and only if its routes answer, and
\* what a version lists all later ones do.
THEOREM RoutesAnswerAlways ==
    ASSUME TransportParameters
    PROVE  Endpoints!Spec => []Endpoints!RoutesAnswer
<1>1. TransportInv => Endpoints!RoutesAnswer
  <2> SUFFICES ASSUME TransportInv, NEW version \in Endpoints!Version
               PROVE  /\ \A older \in 0..version : Endpoints!Listed(older) => Endpoints!Listed(version)
                      /\ \A route \in {"constraints", "staged", "active", "transportfile", "transporttype"} :
                            IF Endpoints!Listed(version) /\ route \in Endpoints!Routes(version)
                            THEN Endpoints!Status(route, version) = 200
                                   \/ (route = "transportfile" /\ transportfile = {})
                            ELSE Endpoints!Status(route, version) # 200
    BY DEF Endpoints!RoutesAnswer
  <2>1. endpoint \in Endpoint /\ version \in 0..2
    BY DEF TransportInv, StagedSound, Endpoints!Version
  <2>2. endpoint.type \in {"sender", "receiver"}
    BY <2>1 DEF TransportParameters, Endpoints!EndpointsMade
  <2>3. endpoint.transport \in {"rtp", "websocket", "mqtt", "mxl"}
    BY <2>1 DEF TransportParameters, Endpoints!EndpointsMade
  <2>4. ASSUME NEW older \in 0..version, Endpoints!Listed(older)
        PROVE  Endpoints!Listed(version)
    BY <2>1, <2>3, <2>4 DEF Endpoints!Listed, Endpoints!Permitted
  <2>5. ASSUME NEW route \in {"constraints", "staged", "active", "transportfile", "transporttype"}
        PROVE  IF Endpoints!Listed(version) /\ route \in Endpoints!Routes(version)
               THEN Endpoints!Status(route, version) = 200
                      \/ (route = "transportfile" /\ transportfile = {})
               ELSE Endpoints!Status(route, version) # 200
    BY <2>1, <2>2 DEF Endpoints!Listed, Endpoints!Routes, Endpoints!Status
  <2> QED
    BY <2>4, <2>5
<1> QED
  BY <1>1, TransportAlways, PTL

=============================================================================
