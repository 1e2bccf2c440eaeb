------------------------ MODULE ChannelMappingProofs ------------------------
(***************************************************************************)
(* The safety of ChannelMapping, for every set of inputs and outputs with  *)
(* any channels and capabilities, every set of bodies and any number of    *)
(* requests.                                                               *)
(***************************************************************************)
EXTENDS ChannelMapping, SequenceTheorems, DataFacts, TLAPS

-----------------------------------------------------------------------------
(* The inductive invariant *)

\* The outputs on which the activation of a request is staged
Locked(q) == {o \in Output : staged[o].id = q}

\* Where a request is, and what has become of its activation
Unused(q) ==
    /\ pc[q] = "none" /\ result[q] = "none" /\ body[q] = NoBody /\ pos[q] = 1
    /\ applied[q] = {} /\ Locked(q) = {}

Refused(q) ==
    /\ pc[q] = "replied" /\ result[q] = "refused"
    /\ applied[q] = {} /\ Locked(q) = {}

ForLater(q) ==
    /\ pc[q] = "replied" /\ body[q].mode = "scheduled"
    /\ \/ result[q] = "accepted" /\ applied[q] = {} /\ Locked(q) = Members(body[q])
       \/ result[q] = "accepted" /\ applied[q] = Members(body[q]) /\ Locked(q) = {}
       \/ result[q] = "deleted" /\ applied[q] = {} /\ Locked(q) = {}

AtOnce(q) ==
    /\ pc[q] \in {"await", "replied"} /\ body[q].mode = "immediate"
    /\ result[q] \in {"none", "error", "ok"}
    /\ \/ /\ result[q] # "ok" /\ applied[q] = {} /\ Locked(q) = Members(body[q])
          /\ \A o \in Locked(q) : ~staged[o].done
       \/ applied[q] = Members(body[q]) /\ \A o \in Locked(q) : staged[o].done

Made(q) == body[q] \in Bodies /\ pos[q] \in 1..Len(body[q].action)

Progress(q) == Unused(q) \/ (Made(q) /\ (Refused(q) \/ ForLater(q) \/ AtOnce(q)))

\* A staged activation is of the mode that was requested.
Requested ==
    \A o \in Output : staged[o].mode # "null" =>
        /\ staged[o].mode = body[staged[o].id].mode
        /\ staged[o].mode = "scheduled" => ~staged[o].done

\* An output is locked from when its activation was validated until it is performed: what is
\* staged still fits the map that is active.
Validated ==
    \A o \in Output : staged[o].mode # "null" /\ ~staged[o].done =>
        OutputCaps(o, staged[o].patch) /\ InputCaps(o, Merged(active[o], staged[o].patch))

Control == TypeOK /\ Requested /\ \A q \in Request : Progress(q)

-----------------------------------------------------------------------------
(* The operators *)

\* The body of a request: its action has members, each for an output of its own.
LEMMA BodyFacts ==
    ASSUME NEW b \in Bodies
    PROVE  /\ b.mode \in Modes
           /\ Len(b.action) \in Nat \ {0} /\ DOMAIN b.action = 1..Len(b.action)
           /\ \A i \in 1..Len(b.action) : b.action[i].output \in Members(b) /\ b.action[i].patch \in Patch
           /\ \A i, j \in 1..Len(b.action) : b.action[i].output = b.action[j].output => i = j
           /\ Members(b) \subseteq Output /\ Members(b) # {}
           /\ \A o \in Members(b) : \E i \in 1..Len(b.action) : b.action[i].output = o
<1>1. b.action \in Seq(Range(b.action)) /\ b.action # <<>> /\ b.mode \in Modes
  BY BodyAssumption
<1>2. Len(b.action) \in Nat /\ DOMAIN b.action = 1..Len(b.action)
  BY <1>1, LenProperties
<1>3. Len(b.action) # 0
  BY <1>1, EmptySeq
<1>4. \A i \in 1..Len(b.action) : b.action[i].output \in Members(b) /\ b.action[i].patch \in Patch
  BY <1>2 DEF Members, Patch
<1>5. /\ \A i \in DOMAIN b.action : b.action[i].output \in Output
      /\ \A i, j \in DOMAIN b.action : b.action[i].output = b.action[j].output => i = j
  BY BodyAssumption
<1>6. Members(b) \subseteq Output /\ \A o \in Members(b) : \E i \in 1..Len(b.action) : b.action[i].output = o
  BY <1>2, <1>5 DEF Members
<1>7. Members(b) # {}
  <2>1. 1 \in 1..Len(b.action)
    BY <1>2, <1>3
  <2> QED
    BY <1>4, <2>1
<1> QED
  BY <1>1, <1>2, <1>3, <1>4, <1>5, <1>6, <1>7

\* What is staged for a member of the action
LEMMA StagedFacts ==
    ASSUME NEW q \in Request, NEW b \in Bodies, NEW o \in Members(b)
    PROVE  /\ Staged(q, b, o) \in Activation
           /\ Staged(q, b, o).mode = b.mode /\ Staged(q, b, o).id = q /\ ~Staged(q, b, o).done
           /\ \E i \in DOMAIN b.action : b.action[i].output = o /\ Staged(q, b, o).patch = b.action[i].patch
<1> DEFINE i == CHOOSE j \in DOMAIN b.action : b.action[j].output = o
<1>1. i \in DOMAIN b.action /\ b.action[i].output = o /\ b.action[i].patch \in Patch /\ b.mode \in Modes
  BY BodyFacts
<1> HIDE DEF i
<1>2. Staged(q, b, o) = [mode |-> b.mode, id |-> q, done |-> FALSE, patch |-> b.action[i].patch]
  BY DEF Staged, i
<1> QED
  BY <1>1, <1>2 DEF Activation

LEMMA NotPendingFacts ==
    NotPending \in Activation /\ NotPending.mode = "null" /\ NotPending.id = None
BY DEF NotPending, Activation, Patch, None

\* The members that have been seen to, and the first that has not
LEMMA StopFacts ==
    ASSUME NEW q \in Request, Made(q)
    PROVE  LET action == body[q].action IN
           /\ Stop(q) \in pos[q]..(Len(action) + 1)
           /\ \A i \in pos[q]..(Stop(q) - 1) : Own(q, action[i].output) /\ Modified(q, action[i].output)
           /\ Stop(q) <= Len(action) => ~Own(q, action[Stop(q)].output) \/ ~Modified(q, action[Stop(q)].output)
<1> DEFINE n == Len(body[q].action)
           open(i) == ~Own(q, body[q].action[i].output) \/ ~Modified(q, body[q].action[i].output)
           S == {i \in pos[q]..n : open(i)} \cup {n + 1}
<1>1. n \in Nat /\ pos[q] \in 1..n
  BY BodyFacts DEF Made
<1> HIDE DEF n, open
<1>2. S \in SUBSET Nat /\ S # {}
  BY <1>1
<1>3. PICK m \in S : \A i \in S : m <= i
  BY <1>2, NatMin
<1>4. Min(S) \in S /\ \A i \in S : Min(S) <= i
  BY <1>3 DEF Min
<1>5. Stop(q) = Min(S)
  BY DEF Stop, n, open
<1> HIDE DEF S
<1>6. Stop(q) \in S /\ \A i \in S : Stop(q) <= i
  BY <1>4, <1>5
<1> USE DEF S
<1>7. Stop(q) \in pos[q]..(n + 1) /\ (Stop(q) <= n => open(Stop(q)))
  BY <1>1, <1>6
<1>8. \A i \in pos[q]..(Stop(q) - 1) : ~open(i)
  BY <1>1, <1>6, <1>7
<1> QED
  BY <1>7, <1>8 DEF n, open

\* A change of the active map
LEMMA MergedFacts ==
    ASSUME NEW o \in Output, NEW map \in [Channel(o) -> Route], NEW patch \in Patch
    PROVE  Merged(map, patch) \in [Channel(o) -> Route]
<1>1. \A c \in DOMAIN patch : patch[c] \in Route
  BY BodyAssumption DEF Patch, NoPatch
<1> QED
  BY <1>1 DEF Merged

-----------------------------------------------------------------------------
(* Types, and what has become of each request *)

LEMMA ControlInit ==
    ASSUME Init
    PROVE  Control
<1>1. /\ \A o \in Output : staged[o] = NotPending
      /\ \A q \in Request : Locked(q) = {}
  BY NotPendingFacts DEF Init, Locked, Request, None
<1>2. Len(NoBody.action) = 0
  BY EmptySeq DEF NoBody
<1>3. TypeOK
  <2>1. DOMAIN active = Output /\ \A o \in Output : active[o] \in [Channel(o) -> Route]
    BY MappingAssumption DEF Init
  <2>2. staged \in [Output -> Activation]
    BY NotPendingFacts DEF Init
  <2>3. \A o \in Output : staged[o].mode = "null" /\ staged[o].id = None
    BY <1>1, NotPendingFacts
  <2>4. /\ body \in [Request -> Bodies \cup {NoBody}]
        /\ pos \in [Request -> Nat]
        /\ \A q \in Request : pos[q] \in 1..(Len(body[q].action) + 1)
    BY <1>2 DEF Init
  <2>5. /\ pc \in [Request -> {"none", "await", "replied"}]
        /\ result \in [Request -> {"none", "refused", "accepted", "deleted", "ok", "error"}]
        /\ due \subseteq Scheduled /\ fresh \in BOOLEAN /\ armed \subseteq Request
        /\ signalled \subseteq Request \cup {Thread} /\ applied \in [Request -> SUBSET Output]
    BY DEF Init
  <2> QED
    BY <2>1, <2>2, <2>3, <2>4, <2>5 DEF TypeOK
<1>4. Requested /\ \A q \in Request : Progress(q)
  BY <1>1, NotPendingFacts DEF Init, Requested, Progress, Unused
<1> QED
  BY <1>3, <1>4 DEF Control

\* Requests other than the one whose handler runs
LEMMA Others ==
    ASSUME NEW q \in Request, Progress(q),
           UNCHANGED <<pc[q], result[q], body[q], pos[q], applied[q]>>,
           Locked(q)' = Locked(q), \A o \in Locked(q) : staged'[o].done = staged[o].done
    PROVE  Progress(q)'
BY DEF Progress, Made, Unused, Refused, ForLater, AtOnce

LEMMA PostRefusedStep ==
    ASSUME Control, NEW q \in Request, NEW b \in Bodies, PostRefused(q, b)
    PROVE  Control'
<1> USE DEF outputs, thread
<1>1. TypeOK /\ Requested /\ \A p \in Request : Progress(p)
  BY DEF Control
<1>2. /\ pc[q] = "none" /\ body' = [body EXCEPT ![q] = b] /\ pc' = [pc EXCEPT ![q] = "replied"]
      /\ result' = [result EXCEPT ![q] = "refused"]
      /\ UNCHANGED <<staged, active, applied, pos, due, fresh, armed, signalled>>
  BY DEF PostRefused, NextRequest
<1>3. Unused(q)
  BY <1>1, <1>2 DEF Progress, Refused, ForLater, AtOnce
<1>4. /\ \A p \in Request : Locked(p)' = Locked(p)
      /\ body'[q] = b /\ pc'[q] = "replied" /\ result'[q] = "refused" /\ pos'[q] = 1
      /\ \A p \in Request : p # q => body'[p] = body[p] /\ pc'[p] = pc[p] /\ result'[p] = result[p]
  BY <1>1, <1>2, <1>3 DEF TypeOK, Locked, Unused
<1>5. \A o \in Output : staged[o].id # q
  BY <1>3 DEF Unused, Locked
<1>6. 1 \in 1..Len(b.action) /\ 1 \in 1..(Len(b.action) + 1)
  BY BodyFacts
<1>7. TypeOK'
  <2>1. \A o \in Output : staged'[o].mode # "null" => o \in Members(body'[staged'[o].id])
    <3>1. \A o \in Output : staged[o].mode # "null" => staged[o].id \in Request /\ staged[o].id # q
      BY <1>1, <1>5 DEF TypeOK, Activation
    <3> QED
      BY <1>1, <1>2, <1>4, <3>1 DEF TypeOK
  <2>2. \A p \in Request : pos'[p] \in 1..(Len(body'[p].action) + 1)
    BY <1>1, <1>2, <1>4, <1>6 DEF TypeOK
  <2>3. /\ body' \in [Request -> Bodies \cup {NoBody}]
        /\ pc' \in [Request -> {"none", "await", "replied"}]
        /\ result' \in [Request -> {"none", "refused", "accepted", "deleted", "ok", "error"}]
    BY <1>1, <1>2 DEF TypeOK
  <2>4. due' \subseteq Scheduled'
    BY <1>1, <1>2 DEF TypeOK, Scheduled, ScheduledFor
  <2> QED
    BY <1>1, <1>2, <2>1, <2>2, <2>3, <2>4 DEF TypeOK
<1>8. Requested'
  <2>1. \A o \in Output : staged[o].mode # "null" => staged[o].id \in Request /\ staged[o].id # q
    BY <1>1, <1>5 DEF TypeOK, Activation
  <2> QED
    BY <1>1, <1>2, <1>4, <2>1 DEF Requested
<1>9. Progress(q)'
  BY <1>2, <1>3, <1>4, <1>6 DEF Progress, Made, Refused, Unused
<1>10. \A p \in Request : p # q => Progress(p)'
  BY <1>1, <1>2, <1>4, Others
<1> QED
  BY <1>7, <1>8, <1>9, <1>10 DEF Control

LEMMA PostStep ==
    ASSUME Control, NEW q \in Request, NEW b \in Bodies, Post(q, b)
    PROVE  Control'
<1> USE DEF thread
<1>1. TypeOK /\ Requested /\ \A p \in Request : Progress(p)
  BY DEF Control
<1>2. /\ pc[q] = "none" /\ ValidAction(b)
      /\ staged' = [o \in Output |-> IF o \in Members(b) THEN Staged(q, b, o) ELSE staged[o]]
      /\ body' = [body EXCEPT ![q] = b]
      /\ pc' = [pc EXCEPT ![q] = IF b.mode = "immediate" THEN "await" ELSE "replied"]
      /\ result' = [result EXCEPT ![q] = IF b.mode = "immediate" THEN "none" ELSE "accepted"]
      /\ fresh' = TRUE /\ signalled' \subseteq signalled \cup Request \cup {Thread}
      /\ UNCHANGED <<active, applied, pos, due, armed>>
  BY DEF Post, NextRequest, Notify
<1>3. Unused(q)
  BY <1>1, <1>2 DEF Progress, Refused, ForLater, AtOnce
<1>4. /\ body'[q] = b /\ pc'[q] = (IF b.mode = "immediate" THEN "await" ELSE "replied")
      /\ result'[q] = (IF b.mode = "immediate" THEN "none" ELSE "accepted") /\ pos'[q] = 1
      /\ \A p \in Request : p # q => body'[p] = body[p] /\ pc'[p] = pc[p] /\ result'[p] = result[p]
  BY <1>1, <1>2, <1>3 DEF TypeOK, Unused
<1>5. /\ \A o \in Members(b) : staged'[o] = Staged(q, b, o)
      /\ \A o \in Output : o \notin Members(b) => staged'[o] = staged[o]
      /\ Members(b) \subseteq Output
  BY <1>2, BodyFacts
<1>6. \A o \in Members(b) : staged[o].mode = "null" /\ staged[o].id = None
  <2>1. \A o \in Members(b) : NotLocked(o)
    BY <1>2, BodyFacts DEF ValidAction
  <2> QED
    BY <1>1, <1>5, <2>1 DEF TypeOK, NotLocked
<1>7. \A o \in Output : staged[o].id # q
  BY <1>3 DEF Unused, Locked
<1>8. /\ Locked(q)' = Members(b)
      /\ \A p \in Request : p # q => Locked(p)' = Locked(p)
      /\ \A p \in Request : \A o \in Locked(p) : staged'[o] = staged[o]
  <2>1. \A o \in Members(b) : staged'[o].id = q
    BY <1>5, StagedFacts
  <2>2. None \notin Request
    BY DEF None, Request
  <2> QED
    BY <1>5, <1>6, <1>7, <2>1, <2>2 DEF Locked
<1>9. 1 \in 1..Len(b.action) /\ 1 \in 1..(Len(b.action) + 1)
  BY BodyFacts
<1>10. \A o \in Output : o \notin Members(b) /\ staged[o].mode # "null" => staged[o].id \in Request /\ staged[o].id # q
  BY <1>1, <1>7 DEF TypeOK, Activation
<1>11. TypeOK'
  <2>1. staged' \in [Output -> Activation]
    BY <1>1, <1>2, StagedFacts DEF TypeOK
  <2>2. ASSUME NEW o \in Output
        PROVE  /\ staged'[o].mode = "null" <=> staged'[o].id = None
               /\ staged'[o].mode # "null" => o \in Members(body'[staged'[o].id])
    <3>1. CASE o \in Members(b)
      <4>1. staged'[o].mode = b.mode /\ staged'[o].id = q
        BY <1>5, <3>1, StagedFacts
      <4>2. b.mode # "null" /\ q # None
        BY BodyFacts DEF Modes, None, Request
      <4> QED
        BY <1>4, <3>1, <4>1, <4>2
    <3>2. CASE o \notin Members(b)
      BY <1>1, <1>4, <1>5, <1>10, <3>2 DEF TypeOK
    <3> QED
      BY <3>1, <3>2
  <2>3. \A p \in Request : pos'[p] \in 1..(Len(body'[p].action) + 1)
    BY <1>1, <1>2, <1>4, <1>9 DEF TypeOK
  <2>4. /\ body' \in [Request -> Bodies \cup {NoBody}]
        /\ pc' \in [Request -> {"none", "await", "replied"}]
        /\ result' \in [Request -> {"none", "refused", "accepted", "deleted", "ok", "error"}]
    BY <1>1, <1>2 DEF TypeOK
  <2>5. due' \subseteq Scheduled'
    <3>1. \A p \in due : \E o \in Output : staged'[o].mode = "scheduled" /\ staged'[o].id = p
      BY <1>1, <1>5, <1>6 DEF TypeOK, Scheduled, ScheduledFor
    <3> QED
      BY <1>1, <1>2, <3>1 DEF TypeOK, Scheduled, ScheduledFor
  <2>6. signalled' \subseteq Request \cup {Thread}
    BY <1>1, <1>2 DEF TypeOK
  <2> QED
    BY <1>1, <1>2, <2>1, <2>2, <2>3, <2>4, <2>5, <2>6 DEF TypeOK
<1>12. Requested'
  <2> SUFFICES ASSUME NEW o \in Output, staged'[o].mode # "null"
               PROVE  /\ staged'[o].mode = body'[staged'[o].id].mode
                      /\ staged'[o].mode = "scheduled" => ~staged'[o].done
    BY DEF Requested
  <2>1. CASE o \in Members(b)
    BY <1>4, <1>5, <2>1, StagedFacts
  <2>2. CASE o \notin Members(b)
    BY <1>1, <1>4, <1>5, <1>10, <2>2 DEF Requested
  <2> QED
    BY <2>1, <2>2
<1>13. Progress(q)'
  <2>1. Made(q)'
    BY <1>4, <1>9 DEF Made
  <2>2. applied'[q] = {} /\ Locked(q)' = Members(body'[q])
    BY <1>2, <1>3, <1>4, <1>8 DEF Unused
  <2>3. b.mode = "immediate" \/ b.mode = "scheduled"
    BY BodyFacts DEF Modes
  <2>4. CASE b.mode = "immediate"
    <3>1. \A o \in Locked(q)' : ~staged'[o].done
      BY <1>5, <1>8, StagedFacts
    <3>2. AtOnce(q)'
      BY <1>4, <2>2, <2>4, <3>1 DEF AtOnce
    <3> QED
      BY <2>1, <3>2 DEF Progress
  <2>5. CASE b.mode = "scheduled"
    BY <1>4, <2>1, <2>2, <2>5 DEF Progress, ForLater
  <2> QED
    BY <2>3, <2>4, <2>5
<1>14. \A p \in Request : p # q => Progress(p)'
  BY <1>1, <1>2, <1>4, <1>8, Others
<1> QED
  BY <1>11, <1>12, <1>13, <1>14 DEF Control

\* A staged activation and its request
LEMMA LockedFacts ==
    ASSUME Control, NEW o \in Output, staged[o].mode # "null"
    PROVE  /\ staged[o].id \in Request /\ o \in Locked(staged[o].id)
           /\ Made(staged[o].id) /\ (ForLater(staged[o].id) \/ AtOnce(staged[o].id))
           /\ staged[o].mode = body[staged[o].id].mode
<1> DEFINE q == staged[o].id
<1>1. TypeOK /\ Requested /\ \A p \in Request : Progress(p)
  BY DEF Control
<1>2. q \in Request /\ staged[o].mode = body[q].mode
  BY <1>1 DEF TypeOK, Activation, Requested
<1>3. o \in Locked(q)
  BY DEF Locked
<1> QED
  BY <1>1, <1>2, <1>3 DEF Progress, Unused, Refused

\* A scheduled activation is listed for all of the outputs it is staged on, an immediate one
\* for none.
LEMMA ScheduledFacts ==
    ASSUME Control, NEW q \in Request
    PROVE  /\ ScheduledFor(q) \in {{}, Locked(q)}
           /\ ScheduledFor(q) # {} => Made(q) /\ ForLater(q) /\ applied[q] = {} /\ Locked(q) = Members(body[q])
<1>1. TypeOK /\ Progress(q)
  BY DEF Control
<1>2. ASSUME NEW o \in Locked(q)
      PROVE  staged[o].mode # "null" /\ staged[o].mode = body[q].mode /\ staged[o].id = q
  <2>1. o \in Output /\ staged[o].id = q /\ q # None
    BY DEF Locked, Request, None
  <2>2. staged[o].mode # "null"
    BY <1>1, <2>1 DEF TypeOK
  <2> QED
    BY <2>1, <2>2, LockedFacts
<1>3. \A o \in ScheduledFor(q) : o \in Locked(q) /\ staged[o].mode = "scheduled"
  BY DEF ScheduledFor, Locked
<1>4. body[q].mode = "scheduled" => ScheduledFor(q) = Locked(q)
  BY <1>2 DEF ScheduledFor, Locked
<1>5. body[q].mode # "scheduled" => ScheduledFor(q) = {}
  BY <1>2, <1>3
<1>6. ASSUME ScheduledFor(q) # {}
      PROVE  Made(q) /\ ForLater(q) /\ applied[q] = {} /\ Locked(q) = Members(body[q])
  <2>1. Locked(q) # {} /\ body[q].mode = "scheduled"
    BY <1>3, <1>5, <1>6
  <2> QED
    BY <1>1, <2>1 DEF Progress, Unused, Refused, ForLater, AtOnce
<1> QED
  BY <1>4, <1>5, <1>6

LEMMA FinishStep ==
    ASSUME Control, NEW q \in Request, Finish(q)
    PROVE  Control'
<1> DEFINE action   == body[q].action
           stop     == Stop(q)
           reported == {action[i].output : i \in pos[q]..(stop - 1)}
           last     == stop > Len(action)
           throws   == ~last /\ ~Own(q, action[stop].output)
<1>1. TypeOK /\ Requested /\ \A p \in Request : Progress(p)
  BY DEF Control
<1>2. /\ pc[q] = "await" /\ Modified(q, Awaited(q))
      /\ staged' = [o \in Output |-> IF o \in reported THEN NotPending ELSE staged[o]]
      /\ pos' = [pos EXCEPT ![q] = IF last THEN @ ELSE stop]
      /\ pc' = [pc EXCEPT ![q] = IF last \/ throws THEN "replied" ELSE "await"]
      /\ result' = [result EXCEPT ![q] = IF last THEN "ok" ELSE IF throws THEN "error" ELSE @]
      /\ fresh' = (fresh \/ reported # {}) /\ signalled' \subseteq signalled \cup Request \cup {Thread}
      /\ UNCHANGED <<active, applied, body, due, armed>>
  BY DEF Finish, Waiting, Notify
<1>3. Made(q) /\ AtOnce(q)
  BY <1>1, <1>2 DEF Progress, Unused, Refused, ForLater
<1>4. /\ stop \in pos[q]..(Len(action) + 1)
      /\ \A i \in pos[q]..(stop - 1) : Own(q, action[i].output)
  BY <1>3, StopFacts
<1>5. Len(action) \in Nat /\ pos[q] \in 1..Len(action) /\ \A i \in 1..Len(action) : action[i].output \in Members(body[q])
  BY <1>3, BodyFacts DEF Made
<1> HIDE DEF stop, throws
<1>6. reported \subseteq Locked(q)
  <2>1. \A i \in pos[q]..(stop - 1) : i \in 1..Len(action)
    BY <1>4, <1>5
  <2>2. Members(body[q]) \subseteq Output
    BY <1>3, BodyFacts DEF Made
  <2> QED
    BY <1>4, <1>5, <2>1, <2>2 DEF Own, Locked
<1>7. applied[q] = Members(body[q]) /\ \A o \in Locked(q) : staged[o].done
  <2>1. CASE applied[q] = {} /\ Locked(q) = Members(body[q]) /\ \A o \in Locked(q) : ~staged[o].done
    <3>1. Awaited(q) \in Locked(q)
      BY <1>5, <2>1 DEF Awaited
    <3>2. staged[Awaited(q)].id = q /\ Awaited(q) \in Output /\ q # None
      BY <3>1 DEF Locked, Request, None
    <3>3. staged[Awaited(q)].mode # "null"
      BY <1>1, <3>2 DEF TypeOK
    <3>4. staged[Awaited(q)].mode = "immediate"
      BY <1>1, <1>3, <3>2, <3>3 DEF Requested, AtOnce
    <3> QED
      BY <1>2, <2>1, <3>1, <3>2, <3>4 DEF Modified, Own
  <2> QED
    BY <1>3, <2>1 DEF AtOnce
<1>8. /\ \A o \in reported : staged'[o] = NotPending
      /\ \A o \in Output : o \notin reported => staged'[o] = staged[o]
      /\ reported \subseteq Output
  BY <1>2, <1>6 DEF Locked
<1> HIDE DEF reported
<1>9. /\ Locked(q)' \subseteq Locked(q)
      /\ \A p \in Request : \A o \in Locked(p)' : staged'[o] = staged[o]
      /\ \A p \in Request : p # q => Locked(p)' = Locked(p)
  <2>1. None \notin Request /\ \A o \in reported : staged'[o].id = None /\ staged[o].id = q
    BY <1>6, <1>8, NotPendingFacts DEF None, Request, Locked
  <2> QED
    BY <1>8, <2>1 DEF Locked
<1>10. /\ pos'[q] \in 1..Len(action) /\ pc'[q] \in {"await", "replied"}
       /\ result'[q] \in {"none", "error", "ok"}
       /\ \A p \in Request : p # q => pos'[p] = pos[p] /\ pc'[p] = pc[p] /\ result'[p] = result[p]
  <2>1. (IF last THEN pos[q] ELSE stop) \in 1..Len(action)
    BY <1>4, <1>5
  <2> QED
    BY <1>1, <1>2, <1>3, <2>1 DEF TypeOK, AtOnce
<1>11. TypeOK'
  <2>1. staged' \in [Output -> Activation]
    BY <1>1, <1>2, NotPendingFacts DEF TypeOK
  <2>2. ASSUME NEW o \in Output
        PROVE  /\ staged'[o].mode = "null" <=> staged'[o].id = None
               /\ staged'[o].mode # "null" => o \in Members(body'[staged'[o].id])
    BY <1>1, <1>2, <1>8, NotPendingFacts DEF TypeOK
  <2>3. pos' \in [Request -> Nat] /\ \A p \in Request : pos'[p] \in 1..(Len(body'[p].action) + 1)
    <3>1. pos'[q] \in 1..(Len(action) + 1) /\ pos'[q] \in Nat
      BY <1>5, <1>10
    <3>2. pos' = [pos EXCEPT ![q] = pos'[q]]
      BY <1>1, <1>2 DEF TypeOK
    <3> QED
      BY <1>1, <1>2, <1>10, <3>1, <3>2 DEF TypeOK
  <2>4. /\ pc' \in [Request -> {"none", "await", "replied"}]
        /\ result' \in [Request -> {"none", "refused", "accepted", "deleted", "ok", "error"}]
    BY <1>1, <1>2 DEF TypeOK
  <2>5. due' \subseteq Scheduled'
    <3>1. \A o \in reported : staged[o].mode # "scheduled"
      <4>1. \A o \in reported : staged[o].id = q /\ o \in Output
        BY <1>6 DEF Locked
      <4> QED
        BY <1>1, <1>3, <4>1 DEF Requested, AtOnce
    <3>2. ASSUME NEW p \in due
          PROVE  \E o \in Output : staged'[o].mode = "scheduled" /\ staged'[o].id = p
      <4>1. PICK o \in Output : staged[o].mode = "scheduled" /\ staged[o].id = p
        BY <1>1 DEF TypeOK, Scheduled, ScheduledFor
      <4> QED
        BY <1>8, <3>1, <4>1
    <3> QED
      BY <1>1, <1>2, <3>2 DEF TypeOK, Scheduled, ScheduledFor
  <2>6. signalled' \subseteq Request \cup {Thread} /\ fresh' \in BOOLEAN
    BY <1>1, <1>2 DEF TypeOK
  <2> QED
    BY <1>1, <1>2, <2>1, <2>2, <2>3, <2>4, <2>5, <2>6 DEF TypeOK
<1>12. Requested'
  BY <1>1, <1>2, <1>8, NotPendingFacts DEF Requested
<1>13. Progress(q)'
  <2>1. Made(q)'
    BY <1>2, <1>3, <1>10 DEF Made
  <2>2. \A o \in Locked(q)' : staged'[o].done
    BY <1>7, <1>9
  <2>3. AtOnce(q)'
    BY <1>2, <1>3, <1>7, <1>10, <2>2 DEF AtOnce
  <2> QED
    BY <2>1, <2>3 DEF Progress
<1>14. \A p \in Request : p # q => Progress(p)'
  BY <1>1, <1>2, <1>9, <1>10, Others
<1> QED
  BY <1>11, <1>12, <1>13, <1>14 DEF Control

LEMMA TimeoutStep ==
    ASSUME Control, NEW q \in Request, Timeout(q)
    PROVE  Control'
<1>1. TypeOK /\ Requested /\ \A p \in Request : Progress(p)
  BY DEF Control
<1>2. /\ pc[q] = "await" /\ pc' = [pc EXCEPT ![q] = "replied"] /\ result' = [result EXCEPT ![q] = "error"]
      /\ signalled' \subseteq signalled
      /\ UNCHANGED <<staged, active, applied, body, pos, due, fresh, armed>>
  BY DEF Timeout, Waiting, outputs, thread
<1>3. Made(q) /\ AtOnce(q)
  BY <1>1, <1>2 DEF Progress, Unused, Refused, ForLater
<1>4. /\ pc'[q] = "replied" /\ result'[q] = "error"
      /\ \A p \in Request : Locked(p)' = Locked(p)
      /\ \A p \in Request : p # q => pc'[p] = pc[p] /\ result'[p] = result[p]
  BY <1>1, <1>2 DEF TypeOK, Locked
<1>5. TypeOK'
  <2>1. /\ pc' \in [Request -> {"none", "await", "replied"}]
        /\ result' \in [Request -> {"none", "refused", "accepted", "deleted", "ok", "error"}]
        /\ signalled' \subseteq Request \cup {Thread}
    BY <1>1, <1>2 DEF TypeOK
  <2>2. due' \subseteq Scheduled'
    BY <1>1, <1>2 DEF TypeOK, Scheduled, ScheduledFor
  <2> QED
    BY <1>1, <1>2, <2>1, <2>2 DEF TypeOK
<1>6. Requested'
  BY <1>1, <1>2 DEF Requested
<1>7. Progress(q)'
  BY <1>2, <1>3, <1>4 DEF Progress, Made, AtOnce
<1>8. \A p \in Request : p # q => Progress(p)'
  BY <1>1, <1>2, <1>4, Others
<1> QED
  BY <1>5, <1>6, <1>7, <1>8 DEF Control

LEMMA DeleteStep ==
    ASSUME Control, NEW q \in Request, Delete(q)
    PROVE  Control'
<1>1. TypeOK /\ Requested /\ \A p \in Request : Progress(p)
  BY DEF Control
<1>2. /\ ScheduledFor(q) # {}
      /\ staged' = [o \in Output |-> IF o \in ScheduledFor(q) THEN NotPending ELSE staged[o]]
      /\ result' = [result EXCEPT ![q] = "deleted"] /\ due' = due \ {q} /\ fresh' = TRUE
      /\ UNCHANGED <<active, applied, body, pc, pos, armed, signalled>>
  BY DEF Delete
<1>3. Made(q) /\ ForLater(q) /\ applied[q] = {} /\ ScheduledFor(q) = Locked(q)
  BY <1>2, ScheduledFacts
<1>4. /\ \A o \in Locked(q) : staged'[o] = NotPending /\ staged[o].id = q
      /\ \A o \in Output : o \notin Locked(q) => staged'[o] = staged[o] /\ staged[o].id # q
  BY <1>2, <1>3 DEF Locked
<1>5. /\ Locked(q)' = {}
      /\ \A p \in Request : p # q => Locked(p)' = Locked(p) /\ \A o \in Locked(p) : staged'[o] = staged[o]
  <2>1. None \notin Request /\ \A o \in Locked(q) : staged'[o].id = None
    BY <1>4, NotPendingFacts DEF None, Request
  <2> QED
    BY <1>4, <2>1 DEF Locked
<1>6. result'[q] = "deleted" /\ \A p \in Request : p # q => result'[p] = result[p]
  BY <1>1, <1>2 DEF TypeOK
<1>7. TypeOK'
  <2>1. staged' \in [Output -> Activation]
    BY <1>1, <1>2, NotPendingFacts DEF TypeOK
  <2>2. ASSUME NEW o \in Output
        PROVE  /\ staged'[o].mode = "null" <=> staged'[o].id = None
               /\ staged'[o].mode # "null" => o \in Members(body'[staged'[o].id])
    BY <1>1, <1>2, <1>4, NotPendingFacts DEF TypeOK
  <2>3. result' \in [Request -> {"none", "refused", "accepted", "deleted", "ok", "error"}]
    BY <1>1, <1>2 DEF TypeOK
  <2>4. due' \subseteq Scheduled'
    <3>1. ASSUME NEW p \in due, p # q
          PROVE  p \in Request /\ \E o \in Output : staged'[o].mode = "scheduled" /\ staged'[o].id = p
      <4>1. PICK o \in Output : staged[o].mode = "scheduled" /\ staged[o].id = p
        BY <1>1 DEF TypeOK, Scheduled, ScheduledFor
      <4> QED
        BY <1>1, <1>4, <3>1, <4>1 DEF TypeOK, Scheduled
    <3> QED
      BY <1>2, <3>1 DEF Scheduled, ScheduledFor
  <2> QED
    BY <1>1, <1>2, <2>1, <2>2, <2>3, <2>4 DEF TypeOK
<1>8. Requested'
  BY <1>1, <1>2, <1>4, NotPendingFacts DEF Requested
<1>9. Progress(q)'
  BY <1>2, <1>3, <1>5, <1>6 DEF Progress, Made, ForLater
<1>10. \A p \in Request : p # q => Progress(p)'
  BY <1>1, <1>2, <1>5, <1>6, Others
<1> QED
  BY <1>7, <1>8, <1>9, <1>10 DEF Control

LEMMA PassStep ==
    ASSUME Control, NEW failed \in SUBSET Output, Pass(failed)
    PROVE  Control'
<1> DEFINE unlocked(o) == o \in Pending /\ (staged[o].mode = "scheduled" \/ o \in failed)
<1>1. TypeOK /\ Requested /\ \A p \in Request : Progress(p)
  BY DEF Control
<1>2. /\ Pending \subseteq Output
      /\ active' = [o \in Output |-> IF o \in Pending THEN Merged(active[o], staged[o].patch) ELSE active[o]]
      /\ applied' = [q \in Request |-> applied[q] \cup {o \in Pending : staged[o].id = q}]
      /\ due' = due \ {staged[o].id : o \in Pending} /\ armed' \subseteq Request /\ fresh' = FALSE
      /\ signalled' \subseteq signalled \cup Request
      /\ UNCHANGED <<body, pc, pos, result>>
  BY DEF Pass, Pending, NextScheduled, Scheduled, requests
<1>3. \A o \in Output : /\ o \notin Pending => staged'[o] = staged[o]
                        /\ unlocked(o) => staged'[o] = NotPending
                        /\ o \in Pending /\ ~unlocked(o) => staged'[o] = [staged[o] EXCEPT !.done = TRUE]
  BY DEF Pass
<1>4. \A o \in Pending : staged[o].mode # "null" /\ (staged[o].mode = "scheduled" \/ ~staged[o].done)
  BY DEF Pending
<1>5. \A o \in Output : staged[o] \in Activation
  BY <1>1 DEF TypeOK
<1>6. \A o \in Output : o \in Pending /\ ~unlocked(o) =>
          /\ staged'[o] \in Activation /\ staged'[o].mode = staged[o].mode /\ staged'[o].id = staged[o].id
          /\ staged'[o].done = TRUE /\ staged[o].mode = "immediate"
  BY <1>3, <1>5 DEF Activation, Pending
<1> HIDE DEF unlocked
<1>7. \A o \in Output : (o \in Pending => staged'[o].mode # "scheduled") /\ (unlocked(o) => o \in Pending)
  BY <1>3, <1>6, NotPendingFacts DEF unlocked
<1>8. ASSUME NEW q \in Request
      PROVE  /\ Locked(q)' = {o \in Locked(q) : ~unlocked(o)}
             /\ \A o \in Locked(q)' : IF o \in Pending THEN staged'[o].done ELSE staged'[o] = staged[o]
  <2>1. q # None
    BY DEF None, Request
  <2>2. \A o \in Output : staged'[o].id = IF unlocked(o) THEN None ELSE staged[o].id
    BY <1>3, <1>6, <1>7, NotPendingFacts
  <2> QED
    BY <1>3, <1>6, <2>1, <2>2 DEF Locked
<1>9. ASSUME NEW q \in Request
      PROVE  {o \in Pending : staged[o].id = q} = {o \in Locked(q) : o \in Pending}
  BY <1>2 DEF Locked
<1>10. ASSUME NEW q \in Request
       PROVE  Progress(q)'
  <2>1. applied'[q] = applied[q] \cup {o \in Locked(q) : o \in Pending}
    BY <1>1, <1>2, <1>9 DEF TypeOK
  <2>2. CASE Unused(q) \/ (Made(q) /\ Refused(q))
    <3>1. Locked(q)' = {} /\ applied'[q] = {}
      BY <1>8, <2>1, <2>2 DEF Unused, Refused
    <3> QED
      BY <1>2, <2>2, <3>1 DEF Progress, Unused, Made, Refused
  <2>3. CASE Made(q) /\ ForLater(q)
    <3>1. \A o \in Locked(q) : o \in Output /\ staged[o].id = q /\ staged[o].mode = "scheduled"
      <4>1. \A o \in Locked(q) : o \in Output /\ staged[o].id = q /\ staged[o].mode # "null"
        BY <1>1 DEF TypeOK, Locked, None, Request
      <4> QED
        BY <1>1, <2>3, <4>1 DEF Requested, ForLater
    <3>2. \A o \in Locked(q) : (o \in Pending <=> q \in due) /\ (unlocked(o) <=> o \in Pending)
      BY <3>1 DEF Pending, unlocked
    <3>3. CASE q \in due
      <4>1. Locked(q)' = {} /\ applied'[q] = applied[q] \cup Locked(q)
        BY <1>8, <2>1, <3>2, <3>3
      <4> QED
        BY <1>2, <2>3, <4>1 DEF Progress, Made, ForLater
    <3>4. CASE q \notin due
      <4>1. Locked(q)' = Locked(q) /\ applied'[q] = applied[q]
        BY <1>8, <2>1, <3>2, <3>4
      <4> QED
        BY <1>2, <2>3, <4>1 DEF Progress, Made, ForLater
    <3> QED
      BY <3>3, <3>4
  <2>4. CASE Made(q) /\ AtOnce(q)
    <3>1. \A o \in Locked(q) : o \in Output /\ staged[o].id = q /\ staged[o].mode = "immediate"
      <4>1. \A o \in Locked(q) : o \in Output /\ staged[o].id = q /\ staged[o].mode # "null"
        BY <1>1 DEF TypeOK, Locked, None, Request
      <4> QED
        BY <1>1, <2>4, <4>1 DEF Requested, AtOnce
    <3>2. \A o \in Locked(q) : o \in Pending <=> ~staged[o].done
      BY <3>1 DEF Pending
    <3>3. CASE applied[q] = {} /\ Locked(q) = Members(body[q]) /\ \A o \in Locked(q) : ~staged[o].done
      <4>1. applied'[q] = Members(body[q]) /\ \A o \in Locked(q)' : staged'[o].done
        BY <1>8, <2>1, <3>2, <3>3
      <4> QED
        BY <1>2, <2>4, <4>1 DEF Progress, Made, AtOnce
    <3>4. CASE applied[q] = Members(body[q]) /\ \A o \in Locked(q) : staged[o].done
      <4>1. applied'[q] = applied[q] /\ \A o \in Locked(q)' : staged'[o].done
        BY <1>8, <2>1, <3>2, <3>4
      <4> QED
        BY <1>2, <2>4, <3>4, <4>1 DEF Progress, Made, AtOnce
    <3> QED
      BY <2>4, <3>3, <3>4 DEF AtOnce
  <2> QED
    BY <1>1, <2>2, <2>3, <2>4 DEF Progress
<1>11. Requested'
  <2> SUFFICES ASSUME NEW o \in Output, staged'[o].mode # "null"
               PROVE  /\ staged'[o].mode = body'[staged'[o].id].mode
                      /\ staged'[o].mode = "scheduled" => ~staged'[o].done
    BY DEF Requested
  <2>1. ~unlocked(o)
    BY <1>3, NotPendingFacts
  <2> QED
    <3>1. CASE o \in Pending
      <4>1. staged'[o].mode = staged[o].mode /\ staged'[o].id = staged[o].id /\ staged[o].mode = "immediate"
        BY <1>6, <2>1, <3>1
      <4> QED
        BY <1>1, <1>2, <4>1 DEF Requested
    <3>2. CASE o \notin Pending
      BY <1>1, <1>2, <1>3, <3>2 DEF Requested
    <3> QED
      BY <3>1, <3>2
<1>12. TypeOK'
  <2>1. staged' \in [Output -> Activation]
    <3>1. staged' = [o \in Output |-> staged'[o]]
      BY DEF Pass
    <3>2. \A o \in Output : staged'[o] \in Activation
      BY <1>3, <1>5, <1>6, NotPendingFacts
    <3> QED
      BY <3>1, <3>2
  <2>2. ASSUME NEW o \in Output
        PROVE  /\ staged'[o].mode = "null" <=> staged'[o].id = None
               /\ staged'[o].mode # "null" => o \in Members(body'[staged'[o].id])
    <3>1. /\ staged[o].mode = "null" <=> staged[o].id = None
          /\ staged[o].mode # "null" => o \in Members(body[staged[o].id])
      BY <1>1 DEF TypeOK
    <3>2. staged'[o] = NotPending \/ (staged'[o].mode = staged[o].mode /\ staged'[o].id = staged[o].id)
      BY <1>3, <1>6
    <3> QED
      BY <1>2, <3>1, <3>2, NotPendingFacts
  <2>3. DOMAIN active' = Output /\ \A o \in Output : active'[o] \in [Channel(o) -> Route]
    <3>1. \A o \in Output : staged[o].patch \in Patch
      BY <1>5 DEF Activation
    <3>2. \A o \in Output : active[o] \in [Channel(o) -> Route]
      BY <1>1 DEF TypeOK
    <3> QED
      BY <1>2, <3>1, <3>2, MergedFacts
  <2>4. due' \subseteq Scheduled'
    <3>1. ASSUME NEW p \in due'
          PROVE  p \in Request /\ \E o \in Output : staged'[o].mode = "scheduled" /\ staged'[o].id = p
      <4>1. p \in due /\ p \in Request /\ \A o \in Pending : staged[o].id # p
        BY <1>1, <1>2, <3>1 DEF TypeOK, Scheduled
      <4>2. PICK o \in Output : staged[o].mode = "scheduled" /\ staged[o].id = p
        BY <1>1, <4>1 DEF TypeOK, Scheduled, ScheduledFor
      <4> QED
        BY <1>3, <4>1, <4>2
    <3> QED
      BY <3>1 DEF Scheduled, ScheduledFor
  <2>5. applied' \in [Request -> SUBSET Output]
    BY <1>1, <1>2 DEF TypeOK
  <2> QED
    BY <1>1, <1>2, <2>1, <2>2, <2>3, <2>4, <2>5 DEF TypeOK
<1> QED
  BY <1>10, <1>11, <1>12 DEF Control

LEMMA ControlStep ==
    ASSUME Control, [Next]_vars
    PROVE  Control'
<1> USE DEF outputs, requests, thread
<1>1. ASSUME UNCHANGED <<staged, active, body, pc, pos, result, fresh, armed, applied>>,
             due' \subseteq due \cup Scheduled, signalled' \subseteq signalled
      PROVE  Control'
  <2>1. TypeOK /\ Requested /\ \A p \in Request : Progress(p)
    BY DEF Control
  <2>2. Scheduled' = Scheduled /\ \A p \in Request : Locked(p)' = Locked(p)
    BY <1>1 DEF Scheduled, ScheduledFor, Locked
  <2>3. TypeOK' /\ Requested'
    BY <1>1, <2>1, <2>2 DEF TypeOK, Requested
  <2>4. \A p \in Request : Progress(p)'
    BY <1>1, <2>1, <2>2, Others
  <2> QED
    BY <2>3, <2>4 DEF Control
<1>2. ASSUME NEW q \in Request, Elapse(q)
      PROVE  Control'
  BY <1>1, <1>2 DEF Elapse
<1>3. ASSUME NEW w \in Request \cup {Thread}, WakeInVain(w)
      PROVE  Control'
  BY <1>1, <1>3 DEF WakeInVain
<1>4. ASSUME UNCHANGED vars
      PROVE  Control'
  BY <1>1, <1>4 DEF vars
<1> QED
  BY <1>2, <1>3, <1>4, PostRefusedStep, PostStep, FinishStep, TimeoutStep, DeleteStep, PassStep DEF Next, Activate

\* Every variable keeps its type; an output is locked by a request that staged it, and a
\* scheduled activation that is due is pending.
THEOREM TypeCorrect == Spec => []TypeOK
<1>1. Init => Control
  BY ControlInit
<1>2. Control /\ [Next]_vars => Control'
  BY ControlStep
<1>3. Control => TypeOK
  BY DEF Control
<1> QED
  BY <1>1, <1>2, <1>3, PTL DEF Spec

\* An activation of several outputs becomes active on all of them at once or on none, and is
\* listed for all of them until then.
THEOREM AllOrNothingHolds == Spec => []AllOrNothing
<1>1. Init => Control
  BY ControlInit
<1>2. Control /\ [Next]_vars => Control'
  BY ControlStep
<1>3. Control => AllOrNothing
  <2> SUFFICES ASSUME Control, NEW q \in Request
               PROVE  /\ applied[q] \in {{}, Members(body[q])}
                      /\ ScheduledFor(q) \in {{}, Members(body[q])}
                      /\ ScheduledFor(q) # {} => applied[q] = {}
    BY DEF AllOrNothing
  <2>1. applied[q] \in {{}, Members(body[q])}
    BY DEF Control, Progress, Unused, Refused, ForLater, AtOnce
  <2> QED
    BY <2>1, ScheduledFacts
<1> QED
  BY <1>1, <1>2, <1>3, PTL DEF Spec

\* Of an immediate activation that is reported every output has become active, and of one that
\* is refused or deleted none ever does.
THEOREM RepliesTrueHolds == Spec => []RepliesTrue
<1>1. Init => Control
  BY ControlInit
<1>2. Control /\ [Next]_vars => Control'
  BY ControlStep
<1>3. Control => RepliesTrue
  BY DEF Control, RepliesTrue, Progress, Unused, Refused, ForLater, AtOnce, Locked
<1> QED
  BY <1>1, <1>2, <1>3, PTL DEF Spec

-----------------------------------------------------------------------------
(* Validation of the capabilities of inputs *)

\* As many channels of one block as a block has are all of them.
LEMMA WholeBlock ==
    ASSUME NEW size \in Nat \ {0}, NEW block \in SUBSET Nat, Cardinality(block) = size,
           \A j, k \in block : j \div size = k \div size
    PROVE  \A k \in block, j \in Nat : j \div size = k \div size => j \in block
<1> TAKE k \in block, j \in Nat
<1> HAVE j \div size = k \div size
<1> DEFINE b == k \div size
           first == size * b
           all == first..(first + size - 1)
<1>1. \A x \in Nat : x \div size \in Nat /\ size * (x \div size) <= x /\ x < size * (x \div size) + size
  OBVIOUS
<1>2. b \in Nat /\ first \in Nat
  BY <1>1
<1>3. ASSUME NEW x \in Nat, x \div size = b
      PROVE  x \in all
  <2>1. first <= x /\ x < first + size
    BY <1>1, <1>3
  <2> QED
    BY <1>2, <2>1
<1> HIDE DEF b, first
<1>4. IsFiniteSet(all) /\ Cardinality(all) = size
  <2>1. first \in Int /\ first + size - 1 \in Int /\ ~(first > first + size - 1)
        /\ (first + size - 1) - first + 1 = size
    BY <1>2
  <2> QED
    BY <2>1, FS_Interval
<1>5. block \in SUBSET all
  <2>1. \A x \in block : x \in Nat /\ x \div size = b
    BY DEF b
  <2> QED
    BY <1>3, <2>1
<1>6. block = all
  BY <1>4, <1>5, FS_Subset
<1> QED
  BY <1>3, <1>6 DEF b

\* The first n channels of the output that come from input i
From(map, n, i) == {c \in 0..(n - 1) : map[c] # Unrouted /\ map[c][1] = i}

\* The whole block of channel k of input i is routed to them.
Complete(map, n, i, k) ==
    \A j \in Nat : j \div BlockSize[i] = k \div BlockSize[i] => \E d \in From(map, n, i) : map[d][2] = j

\* What validate_input_caps has made sure of when it has gone through the first n channels
Current(map, n, s) ==
    IF s.input = Unrouted THEN \A i \in Input : From(map, n, i) = {}
    ELSE /\ s.input \in Input /\ s.block \in SUBSET Nat /\ IsFiniteSet(s.block) /\ s.block # {}
         /\ \A j, k \in s.block : j \div BlockSize[s.input] = k \div BlockSize[s.input]
         /\ \A k \in s.block : \E d \in From(map, n, s.input) : map[d][2] = k

Blocks(map, n, s) ==
    \A i \in Input : \A c \in From(map, n, i) :
        (i = s.input /\ map[c][2] \in s.block) \/ Complete(map, n, i, map[c][2])

Offsets(map, n, s) ==
    \A i \in Input : ~Reordering[i] =>
        \A c \in From(map, n, i) : i \in DOMAIN s.offset /\ map[c][2] - c = s.offset[i]

Scanned(map, n, s) == s.ok => Current(map, n, s) /\ Blocks(map, n, s) /\ Offsets(map, n, s)

\* A block that is complete is routed as a whole.
LEMMA CompleteBlock ==
    ASSUME NEW map, NEW n \in Nat, NEW s, Current(map, n, s), s.input # Unrouted, BlockIsComplete(s)
    PROVE  \A k \in s.block : Complete(map, n, s.input, k)
<1>1. /\ s.input \in Input /\ s.block \in SUBSET Nat
      /\ \A j, k \in s.block : j \div BlockSize[s.input] = k \div BlockSize[s.input]
      /\ \A k \in s.block : \E d \in From(map, n, s.input) : map[d][2] = k
      /\ Cardinality(s.block) = BlockSize[s.input] /\ BlockSize[s.input] \in Nat \ {0}
  BY MappingAssumption DEF Current, BlockIsComplete
<1> DEFINE size == BlockSize[s.input]
           block == s.block
<1> HIDE DEF size, block
<1>2. /\ size \in Nat \ {0} /\ block \in SUBSET Nat /\ Cardinality(block) = size
      /\ \A j, k \in block : j \div size = k \div size
  BY <1>1 DEF size, block
<1>3. \A k \in block, j \in Nat : j \div size = k \div size => j \in block
  BY <1>2, WholeBlock
<1> QED
  BY <1>1, <1>3 DEF Complete, size, block

\* One more channel, that is not routed or that comes from channel k of input i
LEMMA ScanUnrouted ==
    ASSUME NEW map, NEW n \in Nat, NEW s, map[n] = Unrouted, Scanned(map, n, s)
    PROVE  Scanned(map, n + 1, s)
<1>1. \A i : From(map, n + 1, i) = From(map, n, i)
  <2>1. 0..((n + 1) - 1) = 0..(n - 1) \cup {n}
    OBVIOUS
  <2> QED
    BY <2>1 DEF From
<1> QED
  BY <1>1 DEF Scanned, Current, Blocks, Offsets, Complete

LEMMA ScanChannel ==
    ASSUME NEW map, NEW n \in Nat, NEW s, Scanned(map, n, s),
           NEW i \in Input, NEW k \in Nat, map[n] = <<i, k>>
    PROVE  Scanned(map, n + 1, NextChannel(s, n, i, k))
<1> DEFINE t      == NextChannel(s, n, i, k)
           size   == BlockSize[i]
           other  == i # s.input
           block  == IF other \/ Cardinality(s.block) = size THEN {} ELSE s.block
           fixed  == ~Reordering[i]
           offset == IF other /\ fixed /\ i \notin DOMAIN s.offset
                     THEN [j \in DOMAIN s.offset \cup {i} |-> IF j = i THEN k - n ELSE s.offset[j]]
                     ELSE s.offset
<1> SUFFICES ASSUME t.ok
             PROVE  Current(map, n + 1, t) /\ Blocks(map, n + 1, t) /\ Offsets(map, n + 1, t)
  BY DEF Scanned
<1>1. /\ t.input = i /\ t.block = block \cup {k} /\ t.offset = offset
      /\ s.ok /\ (other => BlockIsComplete(s))
      /\ fixed => offset[i] = k - n
      /\ \A j \in block : k \div size = j \div size
  BY DEF NextChannel
<1>2. Current(map, n, s) /\ Blocks(map, n, s) /\ Offsets(map, n, s)
  BY <1>1 DEF Scanned
<1>3. i # Unrouted /\ map[n] # Unrouted /\ map[n][1] = i /\ map[n][2] = k /\ size \in Nat \ {0}
  BY MappingAssumption
<1>4. /\ From(map, n + 1, i) = From(map, n, i) \cup {n}
      /\ \A x \in Input : x # i => From(map, n + 1, x) = From(map, n, x)
      /\ \A x \in Input : From(map, n, x) \subseteq From(map, n + 1, x)
  <2>1. 0..((n + 1) - 1) = 0..(n - 1) \cup {n}
    OBVIOUS
  <2> QED
    BY <1>3, <2>1 DEF From
<1>5. \A x \in Input : \A j : Complete(map, n, x, j) => Complete(map, n + 1, x, j)
  BY <1>4 DEF Complete
<1> HIDE DEF t, size, other, fixed, offset
<1>6. block = {} \/ (block = s.block /\ ~other)
  OBVIOUS
<1>7. Current(map, n + 1, t)
  <2>1. block \in SUBSET Nat /\ IsFiniteSet(block) /\ \A j, x \in block : j \div size = x \div size
    BY <1>2, <1>3, <1>6, FS_EmptySet DEF Current, other, size
  <2>2. t.block \in SUBSET Nat /\ t.block # {} /\ IsFiniteSet(t.block)
    BY <1>1, <2>1, FS_AddElement
  <2>3. \A j, x \in t.block : j \div size = x \div size
    BY <1>1, <2>1
  <2>4. \A j \in t.block : \E d \in From(map, n + 1, i) : map[d][2] = j
    <3>1. \A j \in block : \E d \in From(map, n, i) : map[d][2] = j
      BY <1>2, <1>3, <1>6 DEF Current, other
    <3> QED
      BY <1>1, <1>3, <1>4, <3>1
  <2> QED
    BY <1>1, <1>3, <2>2, <2>3, <2>4 DEF Current, size
<1>8. Blocks(map, n + 1, t)
  <2> SUFFICES ASSUME NEW x \in Input, NEW c \in From(map, n + 1, x)
               PROVE  (x = i /\ map[c][2] \in t.block) \/ Complete(map, n + 1, x, map[c][2])
    BY <1>1 DEF Blocks
  <2>1. CASE c \notin From(map, n, x)
    BY <1>1, <1>3, <1>4, <2>1
  <2>2. CASE c \in From(map, n, x)
    <3>1. (x = s.input /\ map[c][2] \in s.block) \/ Complete(map, n, x, map[c][2])
      BY <1>2, <2>2 DEF Blocks
    <3>2. CASE x = s.input /\ map[c][2] \in s.block
      <4>1. x # Unrouted
        BY MappingAssumption
      <4>2. CASE BlockIsComplete(s)
        BY <1>2, <1>5, <3>2, <4>1, <4>2, CompleteBlock
      <4>3. CASE ~BlockIsComplete(s)
        <5>1. ~other /\ Cardinality(s.block) # size
          BY <1>1, <3>2, <4>3 DEF BlockIsComplete, other, size
        <5>2. block = s.block /\ x = i
          BY <3>2, <5>1 DEF other
        <5> QED
          BY <1>1, <3>2, <5>2
      <4> QED
        BY <4>2, <4>3
    <3> QED
      BY <1>5, <3>1, <3>2
  <2> QED
    BY <2>1, <2>2
<1>9. Offsets(map, n + 1, t)
  <2> SUFFICES ASSUME NEW x \in Input, ~Reordering[x], NEW c \in From(map, n + 1, x)
               PROVE  x \in DOMAIN offset /\ map[c][2] - c = offset[x]
    BY <1>1 DEF Offsets
  <2>1. \A d \in From(map, n, x) : x \in DOMAIN s.offset /\ map[d][2] - d = s.offset[x]
    BY <1>2 DEF Offsets
  <2>2. x \in DOMAIN s.offset => x \in DOMAIN offset /\ offset[x] = s.offset[x]
    BY DEF offset
  <2>3. CASE c \in From(map, n, x)
    BY <2>1, <2>2, <2>3
  <2>4. CASE c \notin From(map, n, x)
    <3>1. x = i /\ c = n /\ fixed
      BY <1>4, <2>4 DEF fixed
    <3>2. i \in DOMAIN offset
      <4>1. CASE other
        BY <3>1, <4>1 DEF offset
      <4>2. CASE ~other
        <5>1. From(map, n, i) # {}
          BY <1>2, <1>3, <4>2 DEF Current, other
        <5> QED
          BY <2>1, <2>2, <3>1, <5>1
      <4> QED
        BY <4>1, <4>2
    <3> QED
      BY <1>1, <1>3, <3>1, <3>2
  <2> QED
    BY <2>3, <2>4
<1> QED
  BY <1>7, <1>8, <1>9

\* What has been gone through, after each of the channels: step(s, n) is the state s after
\* one more channel, the n-th.
UptoStep(map, s, n) ==
    IF map[n] = Unrouted THEN s ELSE NextChannel(s, n, map[n][1], map[n][2])

Upto(map, len, f) ==
    f = [n \in 0..len |-> IF n = 0 THEN NoInput
                          ELSE IF map[n - 1] = Unrouted THEN f[n - 1]
                          ELSE NextChannel(f[n - 1], n - 1, map[n - 1][1], map[n - 1][2])]

LEMMA UptoExists ==
    ASSUME NEW map, NEW len \in Nat
    PROVE  \E f : Upto(map, len, f)
<1> DEFINE Without == {n \in 0..len : ~\E f : Upto(map, n, f)}
<1> SUFFICES ASSUME Without # {}
             PROVE  FALSE
  BY DEF Without
<1>1. PICK n \in Without : \A m \in Without : n <= m
  <2>1. Without \in SUBSET Nat
    OBVIOUS
  <2> QED
    BY <2>1, NatMin
<1>2. n \in 0..len /\ ~\E f : Upto(map, n, f)
  OBVIOUS
<1>3. CASE n = 0
  <2> DEFINE f == [m \in 0..0 |-> NoInput]
  <2>1. Upto(map, 0, f)
    BY DEF Upto
  <2> QED
    BY <1>2, <1>3, <2>1
<1>4. CASE n # 0
  <2>1. n - 1 \in 0..len /\ n - 1 \notin Without
    BY <1>1, <1>2, <1>4
  <2>2. PICK f : Upto(map, n - 1, f)
    BY <2>1
  <2> DEFINE g == [m \in 0..n |-> IF m = n THEN UptoStep(map, f[n - 1], n - 1) ELSE f[m]]
  <2>3. \A m \in 0..(n - 1) : g[m] = f[m]
    BY <1>2
  <2>4. \A m \in 0..n : g[m] = IF m = 0 THEN NoInput
                               ELSE IF map[m - 1] = Unrouted THEN g[m - 1]
                               ELSE NextChannel(g[m - 1], m - 1, map[m - 1][1], map[m - 1][2])
    <3> TAKE m \in 0..n
    <3>1. CASE m = n
      <4>1. g[m] = UptoStep(map, f[n - 1], n - 1) /\ f[n - 1] = g[m - 1]
        BY <1>2, <1>4, <2>3, <3>1
      <4> QED
        BY <1>4, <3>1, <4>1 DEF UptoStep
    <3>2. CASE m # n
      <4>1. m \in 0..(n - 1) /\ (m # 0 => m - 1 \in 0..(n - 1))
        BY <1>2, <3>2
      <4>2. f[m] = IF m = 0 THEN NoInput
                   ELSE IF map[m - 1] = Unrouted THEN f[m - 1]
                   ELSE NextChannel(f[m - 1], m - 1, map[m - 1][1], map[m - 1][2])
        BY <2>2, <4>1 DEF Upto
      <4> QED
        BY <2>3, <4>1, <4>2
    <3> QED
      BY <3>1, <3>2
  <2>5. g = [m \in 0..n |-> g[m]]
    OBVIOUS
  <2> HIDE DEF g
  <2>6. Upto(map, n, g)
    BY <2>4, <2>5 DEF Upto
  <2> QED
    BY <1>2, <2>6
<1> QED
  BY <1>3, <1>4

\* validate_input_caps accepts no map that routes part of a block, or that reorders an input
\* which cannot.
THEOREM InputCapsSound ==
    ASSUME NEW o \in Output, NEW map \in [Channel(o) -> Route], InputCaps(o, map)
    PROVE  \A i \in Input :
               /\ \A c \in From(map, Channels[o], i) : Complete(map, Channels[o], i, map[c][2])
               /\ ~Reordering[i] => \A c, d \in From(map, Channels[o], i) : map[c][2] - c = map[d][2] - d
<1> DEFINE len  == Channels[o]
           upto == CHOOSE f : Upto(map, len, f)
<1>1. len \in Nat
  BY MappingAssumption
<1>2. Upto(map, len, upto)
  BY <1>1, UptoExists
<1>3. upto[len].ok /\ BlockIsComplete(upto[len])
  BY DEF InputCaps, Upto
<1> HIDE DEF upto
<1>4. \A n \in 0..len : Scanned(map, n, upto[n])
  <2> DEFINE Bad == {n \in 0..len : ~Scanned(map, n, upto[n])}
  <2> SUFFICES ASSUME Bad # {}
               PROVE  FALSE
    BY DEF Bad
  <2>1. PICK n \in Bad : \A m \in Bad : n <= m
    <3>1. Bad \in SUBSET Nat
      BY <1>1
    <3> QED
      BY <3>1, NatMin
  <2>2. n \in 0..len /\ ~Scanned(map, n, upto[n])
    OBVIOUS
  <2>3. CASE n = 0
    <3>1. upto[n] = NoInput
      BY <1>1, <1>2, <2>3 DEF Upto
    <3>2. \A i : From(map, n, i) = {}
      BY <2>3 DEF From
    <3> QED
      BY <2>2, <3>1, <3>2 DEF Scanned, Current, Blocks, Offsets, NoInput
  <2>4. CASE n # 0
    <3>1. n - 1 \in 0..len /\ n - 1 \in Nat /\ (n - 1) + 1 = n /\ n - 1 \in Channel(o) /\ n - 1 \notin Bad
      BY <1>1, <2>1, <2>2, <2>4 DEF Channel
    <3>2. Scanned(map, n - 1, upto[n - 1])
      BY <3>1
    <3>3. upto[n] = IF map[n - 1] = Unrouted THEN upto[n - 1]
                    ELSE NextChannel(upto[n - 1], n - 1, map[n - 1][1], map[n - 1][2])
      BY <1>2, <2>2, <2>4 DEF Upto
    <3>4. CASE map[n - 1] = Unrouted
      <4>1. Scanned(map, (n - 1) + 1, upto[n - 1])
        BY <3>1, <3>2, <3>4, ScanUnrouted
      <4> QED
        BY <2>2, <3>1, <3>3, <3>4, <4>1
    <3>5. CASE map[n - 1] # Unrouted
      <4>1. PICK i \in Input, k \in Nat : map[n - 1] = <<i, k>>
        BY <3>1, <3>5 DEF Route
      <4>2. Scanned(map, (n - 1) + 1, NextChannel(upto[n - 1], n - 1, i, k))
        BY <3>1, <3>2, <4>1, ScanChannel
      <4>3. upto[n] = NextChannel(upto[n - 1], n - 1, i, k)
        BY <3>3, <3>5, <4>1
      <4> QED
        BY <2>2, <3>1, <4>2, <4>3
    <3> QED
      BY <3>4, <3>5
  <2> QED
    BY <2>3, <2>4
<1> DEFINE s == upto[len]
<1>5. Current(map, len, s) /\ Blocks(map, len, s) /\ Offsets(map, len, s)
  BY <1>1, <1>3, <1>4 DEF Scanned
<1>6. BlockIsComplete(s)
  BY <1>3
<1> HIDE DEF s
<1> TAKE i \in Input
<1>7. \A c \in From(map, len, i) : Complete(map, len, i, map[c][2])
  <2> TAKE c \in From(map, len, i)
  <2>1. (i = s.input /\ map[c][2] \in s.block) \/ Complete(map, len, i, map[c][2])
    BY <1>5 DEF Blocks
  <2>2. i # Unrouted
    BY MappingAssumption
  <2> QED
    BY <1>1, <1>5, <1>6, <2>1, <2>2, CompleteBlock
<1>8. ~Reordering[i] => \A c, d \in From(map, len, i) : map[c][2] - c = map[d][2] - d
  BY <1>5 DEF Offsets
<1> QED
  BY <1>7, <1>8

\* A request that is accepted leaves a map that meets the constraints.
LEMMA ValidMeets ==
    ASSUME NEW o \in Output, NEW map \in [Channel(o) -> Route], NEW patch \in Patch,
           MeetsConstraints(o, map), OutputCaps(o, patch), InputCaps(o, Merged(map, patch))
    PROVE  MeetsConstraints(o, Merged(map, patch))
<1> DEFINE new == Merged(map, patch)
<1>1. new \in [Channel(o) -> Route]
  BY MergedFacts
<1>2. \A c \in Channel(o) : new[c] = IF c \in DOMAIN patch THEN patch[c] ELSE map[c]
  BY DEF Merged
<1>3. Channels[o] \in Nat
  BY MappingAssumption
<1> HIDE DEF new
<1>4. ASSUME NEW c \in Channel(o)
      PROVE  IF new[c] = Unrouted THEN Unrouted \in Routable[o]
             ELSE new[c][1] \in Routable[o] /\ new[c][2] \in Channel(new[c][1])
  <2>1. CASE c \notin DOMAIN patch
    BY <1>2, <2>1 DEF MeetsConstraints
  <2>2. CASE c \in DOMAIN patch /\ patch[c] = Unrouted
    BY <1>2, <2>2 DEF OutputCaps
  <2>3. CASE c \in DOMAIN patch /\ patch[c] # Unrouted
    <3>1. new[c] = patch[c] /\ new[c][1] \in Routable[o] /\ new[c][2] < Channels[new[c][1]]
      BY <1>2, <2>3 DEF OutputCaps
    <3>2. PICK i \in Input, k \in Nat : new[c] = <<i, k>>
      BY <1>1, <2>3, <3>1 DEF Route
    <3>3. Channels[i] \in Nat
      BY MappingAssumption
    <3> QED
      BY <2>3, <3>1, <3>2, <3>3 DEF Channel
  <2> QED
    BY <2>1, <2>2, <2>3
<1>5. \A i \in Input : {c \in DOMAIN new : new[c] # Unrouted /\ new[c][1] = i} = From(new, Channels[o], i)
  BY <1>1 DEF From, Channel
<1>6. InputCaps(o, new)
  BY DEF new
<1>7. \A i \in Input :
          /\ \A c \in From(new, Channels[o], i) : Complete(new, Channels[o], i, new[c][2])
          /\ ~Reordering[i] => \A c, d \in From(new, Channels[o], i) : new[c][2] - c = new[d][2] - d
  BY <1>1, <1>6, InputCapsSound
<1>8. \A i \in Input : Channel(i) \subseteq Nat
  BY MappingAssumption DEF Channel
<1>9. MeetsConstraints(o, new)
  BY <1>1, <1>4, <1>5, <1>7, <1>8 DEF MeetsConstraints, Complete
<1> QED
  BY <1>9 DEF new

-----------------------------------------------------------------------------
(* Validated when it is posted, and still when it takes effect *)

Inv == Control /\ Validated /\ ActiveMeetsConstraints

\* Steps that leave the active maps alone, and stage nothing.
LEMMA KeepsValidated ==
    ASSUME Validated, active' = active,
           \A o \in Output : staged'[o] = staged[o] \/ staged'[o].mode = "null"
    PROVE  Validated'
BY DEF Validated

LEMMA PostValidated ==
    ASSUME Control, Validated, NEW q \in Request, NEW b \in Bodies, Post(q, b)
    PROVE  Validated'
<1>1. /\ ValidAction(b) /\ active' = active
      /\ staged' = [o \in Output |-> IF o \in Members(b) THEN Staged(q, b, o) ELSE staged[o]]
  BY DEF Post
<1> SUFFICES ASSUME NEW o \in Output, staged'[o].mode # "null", ~staged'[o].done
             PROVE  OutputCaps(o, staged'[o].patch) /\ InputCaps(o, Merged(active'[o], staged'[o].patch))
  BY DEF Validated
<1>2. CASE o \in Members(b)
  <2>1. PICK i \in DOMAIN b.action : b.action[i].output = o /\ Staged(q, b, o).patch = b.action[i].patch
    BY <1>2, StagedFacts
  <2>2. ValidMember(o, b.action[i].patch)
    BY <1>1, <2>1 DEF ValidAction
  <2>3. staged'[o].patch = b.action[i].patch
    BY <1>1, <1>2, <2>1
  <2> QED
    BY <1>1, <2>2, <2>3 DEF ValidMember
<1>3. CASE o \notin Members(b)
  <2>1. staged'[o] = staged[o]
    BY <1>1, <1>3
  <2> QED
    BY <1>1, <2>1 DEF Validated
<1> QED
  BY <1>2, <1>3

LEMMA PassValidated ==
    ASSUME Inv, NEW failed \in SUBSET Output, Pass(failed)
    PROVE  Validated' /\ ActiveMeetsConstraints'
<1>1. /\ active' = [o \in Output |-> IF o \in Pending THEN Merged(active[o], staged[o].patch) ELSE active[o]]
      /\ staged' = [o \in Output |->
                      IF o \notin Pending THEN staged[o]
                      ELSE IF staged[o].mode = "scheduled" \/ o \in failed THEN NotPending
                      ELSE [staged[o] EXCEPT !.done = TRUE]]
  BY DEF Pass
<1>2. TypeOK /\ Requested /\ Validated /\ ActiveMeetsConstraints
  BY DEF Inv, Control
<1>3. ASSUME NEW o \in Output
      PROVE  /\ staged[o] \in Activation /\ staged[o].patch \in Patch /\ active[o] \in [Channel(o) -> Route]
             /\ MeetsConstraints(o, active[o])
  BY <1>2 DEF TypeOK, Activation, ActiveMeetsConstraints
<1>4. Validated'
  <2> SUFFICES ASSUME NEW o \in Output, staged'[o].mode # "null", ~staged'[o].done
               PROVE  OutputCaps(o, staged'[o].patch) /\ InputCaps(o, Merged(active'[o], staged'[o].patch))
    BY DEF Validated
  <2>1. o \notin Pending
    <3>1. \A x \in Activation : [x EXCEPT !.done = TRUE].done = TRUE
      BY DEF Activation
    <3> QED
      BY <1>1, <1>3, <3>1, NotPendingFacts
  <2> QED
    BY <1>1, <1>2, <2>1 DEF Validated
<1>5. ActiveMeetsConstraints'
  <2> SUFFICES ASSUME NEW o \in Output
               PROVE  MeetsConstraints(o, active'[o])
    BY DEF ActiveMeetsConstraints
  <2>1. CASE o \in Pending
    <3>1. staged[o].mode # "null" /\ ~staged[o].done
      BY <1>2, <2>1 DEF Pending, Requested
    <3>2. OutputCaps(o, staged[o].patch) /\ InputCaps(o, Merged(active[o], staged[o].patch))
      BY <1>2, <3>1 DEF Validated
    <3>3. MeetsConstraints(o, Merged(active[o], staged[o].patch))
      BY <1>3, <3>2, ValidMeets
    <3> QED
      BY <1>1, <2>1, <3>3
  <2>2. CASE o \notin Pending
    BY <1>1, <1>3, <2>2
  <2> QED
    BY <2>1, <2>2
<1> QED
  BY <1>4, <1>5

LEMMA InvStep ==
    ASSUME Inv, [Next]_vars
    PROVE  Inv'
<1> USE DEF outputs, requests, thread
<1>1. Control /\ Validated /\ ActiveMeetsConstraints /\ Control'
  BY ControlStep DEF Inv
<1>2. ASSUME active' = active
      PROVE  ActiveMeetsConstraints'
  BY <1>1, <1>2 DEF ActiveMeetsConstraints
<1>3. ASSUME NEW q \in Request, NEW b \in Bodies, Post(q, b)
      PROVE  Inv'
  <2>1. active' = active
    BY <1>3 DEF Post
  <2> QED
    BY <1>1, <1>2, <1>3, <2>1, PostValidated DEF Inv
<1>4. ASSUME NEW failed \in SUBSET Output, Pass(failed)
      PROVE  Inv'
  BY <1>1, <1>4, PassValidated DEF Inv
<1>5. ASSUME active' = active, \A o \in Output : staged'[o] = staged[o] \/ staged'[o].mode = "null"
      PROVE  Inv'
  BY <1>1, <1>2, <1>5, KeepsValidated DEF Inv
<1>6. ASSUME NEW q \in Request, Finish(q) \/ Delete(q)
      PROVE  Inv'
  BY <1>5, <1>6, NotPendingFacts DEF Finish, Delete
<1>7. ASSUME \/ \E q \in Request, b \in Bodies : PostRefused(q, b)
             \/ \E q \in Request : Timeout(q) \/ Elapse(q)
             \/ \E w \in Request \cup {Thread} : WakeInVain(w)
             \/ UNCHANGED vars
      PROVE  Inv'
  <2>1. active' = active /\ staged' = staged
    BY <1>7 DEF PostRefused, Timeout, Elapse, WakeInVain, vars
  <2> QED
    BY <1>5, <2>1
<1> QED
  BY <1>3, <1>4, <1>6, <1>7 DEF Next, Activate

\* Every active map meets the constraints of its output and of the inputs at all times, although
\* an action is validated against the map that is active when it is posted and merged into the
\* one that is active when it takes effect.
THEOREM ActiveMeetsConstraintsHolds == Spec => []ActiveMeetsConstraints
<1>1. Init => Inv
  <2>1. Init => Validated
    BY NotPendingFacts DEF Init, Validated
  <2>2. Init => ActiveMeetsConstraints
    BY InitialMapAssumption DEF Init, ActiveMeetsConstraints
  <2> QED
    BY <2>1, <2>2, ControlInit DEF Inv
<1>2. Inv /\ [Next]_vars => Inv'
  BY InvStep
<1>3. Inv => ActiveMeetsConstraints
  BY DEF Inv
<1> QED
  BY <1>1, <1>2, <1>3, PTL DEF Spec

=============================================================================
