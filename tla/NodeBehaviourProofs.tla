------------------------ MODULE NodeBehaviourProofs ------------------------
(***************************************************************************)
(* The safety of NodeBehaviour, for every set of resources, services and   *)
(* lists of them, and for any number of changes and faults.                *)
(***************************************************************************)
EXTENDS NodeBehaviour, SequenceTheorems, DataFacts, TLAPS

-----------------------------------------------------------------------------
(* The inductive invariant *)

\* The events that are still to be sent, in order
Queue == events \o grain

Empty == [r \in Resource |-> Null]

NodeAdded(e) == e.res = Node /\ Added(e)
NodeRemoved(e) == e.res = Node /\ Removed(e)

\* The devices come after the node and go before it.
Families ==
    /\ own[Node] = Null => \A d \in Device : own[d] = Null
    /\ registry[Node] = Null => \A d \in Device : registry[d] = Null

\* Where the thread may be in each of its modes
Places ==
    /\ mode \in {"initial_discovery", "peer_to_peer_operation", "rediscovery"} =>
        /\ pc = "wait" /\ client = None /\ request = Idle /\ heartbeat = None
        /\ ~error /\ ~registered /\ ~unregistered
    /\ mode = "initial_registration" =>
        /\ pc \in {"wait", "request"} /\ heartbeat = None /\ ~unregistered /\ services # <<>>
        /\ client = None => pc = "wait" /\ ~error /\ ~registered
        /\ ~(error /\ registered)
        /\ request # Idle <=> pc = "request" /\ ~error /\ ~registered
    /\ mode = "registered_operation" =>
        /\ pc \in {"wait", "request", "confirm"} => services # <<>>
        /\ pc \in {"request", "confirm", "drain"} \/ (pc = "wait" /\ error) => client # None
        /\ pc = "confirm" \/ (pc = "wait" /\ ~error /\ ~unregistered) => request = Idle

\* The heartbeats go on until a flag is set, from when the client is made.
Beats ==
    mode = "registered_operation" /\ pc \in {"wait", "request", "confirm"} /\ client # None =>
        heartbeat # None \/ error \/ unregistered

\* The request is that of the first event, which is discarded by its completion, if
\* it has not been put back.
Requests ==
    /\ pc # "request" => events = <<>>
    /\ request # Idle =>
        /\ Queue # <<>> /\ request.event = Queue[1]
        /\ pc = "request" => events # <<>>
        /\ mode = "initial_registration" => NodeAdded(request.event)
        /\ mode = "initial_registration" /\ request.phase = "repost" => registry = Empty
        /\ request.phase = "repost" \/ (request.phase = "delete" /\ ~Removed(request.event)) => Added(request.event)
    /\ \A i \in DOMAIN Queue : Queue[i].pre # Queue[i].post

ControlInv == TypeOK /\ Families /\ Places /\ TasksHaveClient /\ Beats /\ Requests

\* When the node is removed its devices have been.
Ordered(known, queue) ==
    \A k \in DOMAIN queue : NodeRemoved(queue[k]) =>
        \A d \in Device :
            \/ /\ known[d] = Null
               /\ \A i \in 1..(k - 1) : queue[i].res # d
            \/ \E i \in 1..(k - 1) :
                /\ queue[i].res = d /\ queue[i].post = Null
                /\ \A j \in (i + 1)..(k - 1) : queue[j].res # d

\* Before it is added again it is removed.
Readded(queue, first) ==
    \A k \in first..Len(queue) : NodeAdded(queue[k]) =>
        \E j \in first..(k - 1) : NodeRemoved(queue[j])

\* What the registry knows of the node and what is to be sent go together.
Consistent(known, queue, first) ==
    Follows(own, known, queue) /\ Ordered(known, queue) /\ Readded(queue, first)

\* The registry has the node, or has carried out its removal, the first event.
Linked == registry[Node] # Null \/ (Queue # <<>> /\ NodeRemoved(Queue[1]))

\* Once the node has been registered
Following ==
    mode \in {"registered_operation", "rediscovery"} \/ (mode = "initial_registration" /\ registered)

\* It can go on making requests.
Sending ==
    \/ request # Idle
    \/ /\ client # None /\ ~error /\ ~unregistered
       /\ pc \in {"wait", "request"} \/ (pc = "confirm" /\ registered)

Kept ==
    ~stale /\ Following =>
        /\ Follows(own, registry, Queue) /\ Ordered(registry, Queue)
        /\ registry[Node] # Null => Readded(Queue, 1)
        /\ mode = "registered_operation" /\ Sending => Linked

\* Until it has, what is to be sent is all there is, the node first.
Begun ==
    ~stale /\ mode = "initial_registration" /\ client # None /\ ~error /\ ~registered =>
        /\ Queue # <<>> => NodeAdded(Queue[1])
        /\ Consistent(Empty, Queue, 2)

Inv == ControlInv /\ Kept /\ Begun

-----------------------------------------------------------------------------
(* The operators *)

\* Sequences of events, appended to, put back and taken from at the front
LEMMA QueueFacts ==
    ASSUME NEW a \in Seq(Event), NEW b \in Seq(Event)
    PROVE  /\ a \o b \in Seq(Event)
           /\ <<>> \o b = b /\ b \o <<>> = b
           /\ a \o b = <<>> <=> a = <<>> /\ b = <<>>
           /\ a # <<>> => /\ Tail(a) \in Seq(Event) /\ Head(a) = (a \o b)[1] /\ Head(a) \in Event
                          /\ Tail(a) \o b = Tail(a \o b)
           /\ \A x \in Event : Append(b, x) \in Seq(Event) /\ a \o Append(b, x) = Append(a \o b, x)
<1>1. a \o b \in Seq(Event) /\ Len(a \o b) = Len(a) + Len(b) /\ Len(a) \in Nat /\ Len(b) \in Nat
  BY ConcatProperties, LenProperties
<1>2. <<>> \o b = b /\ b \o <<>> = b
  BY ConcatEmptySeq
<1>3. a \o b = <<>> <=> a = <<>> /\ b = <<>>
  BY ConcatEqualIffEmpty
<1>4. ASSUME a # <<>>
      PROVE  /\ Tail(a) \in Seq(Event) /\ Head(a) = (a \o b)[1] /\ Head(a) \in Event
             /\ Tail(a) \o b = Tail(a \o b)
  <2>1. Tail(a) \in Seq(Event) /\ Head(a) \in Event /\ Len(Tail(a)) = Len(a) - 1 /\ Len(a) > 0
        /\ \A i \in 1..Len(Tail(a)) : Tail(a)[i] = a[i + 1]
    BY <1>4, HeadTailProperties, EmptySeq
  <2>2. \A i \in 1..(Len(a) + Len(b)) : (a \o b)[i] = IF i <= Len(a) THEN a[i] ELSE b[i - Len(a)]
    BY ConcatProperties
  <2>3. Head(a) = (a \o b)[1]
    BY <1>1, <2>1, <2>2
  <2>4. a \o b # <<>>
    BY <1>3, <1>4
  <2>5. /\ Tail(a \o b) \in Seq(Event) /\ Len(Tail(a \o b)) = Len(a) + Len(b) - 1
        /\ \A i \in 1..Len(Tail(a \o b)) : Tail(a \o b)[i] = (a \o b)[i + 1]
    BY <1>1, <2>4, HeadTailProperties
  <2>6. /\ Tail(a) \o b \in Seq(Event) /\ Len(Tail(a) \o b) = Len(a) - 1 + Len(b)
        /\ \A i \in 1..(Len(a) - 1 + Len(b)) :
              (Tail(a) \o b)[i] = IF i <= Len(a) - 1 THEN Tail(a)[i] ELSE b[i - (Len(a) - 1)]
    BY <2>1, ConcatProperties
  <2>7. \A i \in 1..Len(Tail(a \o b)) : (Tail(a) \o b)[i] = Tail(a \o b)[i]
    <3> TAKE i \in 1..Len(Tail(a \o b))
    <3>1. i \in Nat /\ i >= 1 /\ i <= Len(a) + Len(b) - 1 /\ i + 1 \in 1..(Len(a) + Len(b))
      BY <1>1, <2>5
    <3>2. Tail(a \o b)[i] = IF i + 1 <= Len(a) THEN a[i + 1] ELSE b[i + 1 - Len(a)]
      BY <2>2, <2>5, <3>1
    <3>3. (Tail(a) \o b)[i] = IF i <= Len(a) - 1 THEN Tail(a)[i] ELSE b[i - (Len(a) - 1)]
      BY <1>1, <2>6, <3>1
    <3>4. i <= Len(a) - 1 => Tail(a)[i] = a[i + 1]
      BY <1>1, <2>1, <3>1
    <3>5. i + 1 - Len(a) = i - (Len(a) - 1) /\ (i + 1 <= Len(a) <=> i <= Len(a) - 1)
      BY <1>1, <3>1
    <3> QED
      BY <3>2, <3>3, <3>4, <3>5
  <2> QED
    BY <2>1, <2>3, <2>5, <2>6, <2>7, SeqEqual
<1>5. ASSUME NEW x \in Event
      PROVE  Append(b, x) \in Seq(Event) /\ a \o Append(b, x) = Append(a \o b, x)
  <2>1. <<x>> \in Seq(Event)
    OBVIOUS
  <2>2. Append(b, x) = b \o <<x>> /\ Append(a \o b, x) = (a \o b) \o <<x>>
    BY <1>1, AppendIsConcat
  <2> QED
    BY <2>1, <2>2, ConcatAssociative, AppendProperties
<1> QED
  BY <1>1, <1>2, <1>3, <1>4, <1>5

\* The events from the first 'added' event of the node on
LEMMA FromFacts ==
    ASSUME NEW q \in Seq(Event)
    PROVE  /\ FromNodeAdded(q) \in Seq(Event)
           /\ FromNodeAdded(q) # <<>> => NodeAdded(FromNodeAdded(q)[1])
           /\ \A i \in DOMAIN FromNodeAdded(q) : \E j \in DOMAIN q : FromNodeAdded(q)[i] = q[j]
           /\ q = <<>> \/ NodeAdded(q[1]) => FromNodeAdded(q) = q
<1> DEFINE is(i) == q[i].res = Node /\ Added(q[i])
           first(i) == is(i) /\ \A j \in 1..(i - 1) : ~is(j)
<1>1. Len(q) \in Nat /\ DOMAIN q = 1..Len(q)
  BY LenProperties
<1>2. CASE ~(\E i \in DOMAIN q : is(i))
  <2>1. FromNodeAdded(q) = <<>>
    BY <1>2 DEF FromNodeAdded
  <2>2. q # <<>> => 1 \in DOMAIN q
    BY <1>1, EmptySeq
  <2> QED
    BY <1>2, <2>1, <2>2 DEF NodeAdded
<1>3. CASE \E i \in DOMAIN q : is(i)
  <2>1. \E i \in DOMAIN q : first(i)
    <3> DEFINE S == {i \in DOMAIN q : is(i)}
    <3>1. S \in SUBSET Nat /\ S # {}
      BY <1>1, <1>3
    <3>2. PICK m \in S : \A n \in S : m <= n
      BY <3>1, NatMin
    <3>3. \A j \in 1..(m - 1) : ~is(j)
      BY <1>1, <3>1, <3>2
    <3> QED
      BY <3>2, <3>3
  <2> DEFINE m == CHOOSE i \in DOMAIN q : first(i)
  <2>2. m \in DOMAIN q /\ first(m)
    BY <2>1
  <2>3. FromNodeAdded(q) = SubSeq(q, m, Len(q))
    BY <1>3 DEF FromNodeAdded
  <2> HIDE DEF m
  <2>4. m \in 1..Len(q)
    BY <1>1, <2>2
  <2>5. \A i \in m..Len(q) : q[i] \in Event
    BY <1>1, <2>4, ElementOfSeq
  <2>6. /\ SubSeq(q, m, Len(q)) \in Seq(Event)
        /\ Len(SubSeq(q, m, Len(q))) = Len(q) - m + 1
        /\ \A i \in 1..(Len(q) - m + 1) : SubSeq(q, m, Len(q))[i] = q[m + i - 1]
    BY <1>1, <2>4, <2>5, SubSeqProperties
  <2>7. NodeAdded(SubSeq(q, m, Len(q))[1])
    BY <1>1, <2>2, <2>4, <2>6 DEF NodeAdded
  <2>8. \A i \in DOMAIN SubSeq(q, m, Len(q)) : \E j \in DOMAIN q : SubSeq(q, m, Len(q))[i] = q[j]
    <3>1. DOMAIN SubSeq(q, m, Len(q)) = 1..(Len(q) - m + 1)
      BY <1>1, <2>4, <2>6, LenProperties
    <3>2. \A i \in 1..(Len(q) - m + 1) : m + i - 1 \in 1..Len(q)
      BY <1>1, <2>4
    <3> QED
      BY <1>1, <2>6, <3>1, <3>2
  <2>9. ASSUME q = <<>> \/ NodeAdded(q[1])
        PROVE  FromNodeAdded(q) = q
    <3>1. m = 1
      BY <1>1, <2>2, <2>4, <2>9, EmptySeq DEF NodeAdded
    <3> QED
      BY <2>3, <3>1, SubSeqFull
  <2> QED
    BY <2>3, <2>6, <2>7, <2>8, <2>9
<1> QED
  BY <1>2, <1>3

\* The resources that exist as events: each of them once, the node first
LEMMA AddedFacts ==
    ASSUME own \in [Resource -> Data]
    PROVE  /\ AddedEvents \in Seq(Event)
           /\ \A i \in DOMAIN AddedEvents :
                /\ AddedEvents[i].pre = Null /\ AddedEvents[i].post = own[AddedEvents[i].res]
                /\ AddedEvents[i].res \in Resource /\ own[AddedEvents[i].res] # Null
           /\ \A r \in Resource : own[r] # Null => \E i \in DOMAIN AddedEvents : AddedEvents[i].res = r
           /\ \A i, j \in DOMAIN AddedEvents : AddedEvents[i].res = AddedEvents[j].res => i = j
           /\ own[Node] # Null => AddedEvents # <<>> /\ NodeAdded(AddedEvents[1])
<1> DEFINE added(r) == [res |-> r, pre |-> Null, post |-> own[r]]
           N == {x \in {Node} : own[x] # Null}
           D == {x \in Device : own[x] # Null}
           EN == {added(r) : r \in N}
           ED == {added(r) : r \in D}
           a == SetToSeq(EN)
           b == SetToSeq(ED)
<1>1. AddedEvents = a \o b
  BY DEF AddedEvents
<1>2. ASSUME NEW S \in SUBSET Resource, IsFiniteSet(S)
      PROVE  IsFiniteSet({added(r) : r \in S})
  <2> DEFINE f == [r \in S |-> added(r)]
  <2>1. f \in Surjection(S, {added(r) : r \in S})
    BY DEF Surjection
  <2> QED
    BY <1>2, <2>1, FS_Surjection
<1>3. IsFiniteSet(N) /\ IsFiniteSet(D) /\ N \subseteq Resource /\ D \subseteq Resource
  BY ParameterAssumption, FS_Subset, FS_Singleton DEF Resource
<1>4. IsFiniteSet(EN) /\ IsFiniteSet(ED)
  BY <1>2, <1>3
<1>5. EN \subseteq Event /\ ED \subseteq Event
  BY <1>3 DEF Event, Data
<1>n. \A S : \A t \in Seq(S) : Len(t) \in Nat
  BY LenProperties
<1> HIDE DEF EN, ED
<1>6. /\ a \in Seq(EN) /\ DOMAIN a = 1..Len(a) /\ Len(a) \in Nat
      /\ \A i \in DOMAIN a : a[i] \in EN
      /\ \A x \in EN : \E i \in DOMAIN a : a[i] = x
      /\ \A i, j \in DOMAIN a : a[i] = a[j] => i = j
      /\ a = <<>> <=> EN = {}
  BY <1>4, <1>n, SetToSeqFacts
<1>7. /\ b \in Seq(ED) /\ DOMAIN b = 1..Len(b) /\ Len(b) \in Nat
      /\ \A i \in DOMAIN b : b[i] \in ED
      /\ \A x \in ED : \E i \in DOMAIN b : b[i] = x
      /\ \A i, j \in DOMAIN b : b[i] = b[j] => i = j
  BY <1>4, <1>n, SetToSeqFacts
<1> HIDE DEF a, b
<1> USE DEF EN, ED
<1>8. a \in Seq(Event) /\ b \in Seq(Event)
  BY <1>5, <1>6, <1>7, SeqMonotonic
<1> DEFINE q == AddedEvents
<1>9. /\ q \in Seq(Event) /\ Len(q) = Len(a) + Len(b) /\ DOMAIN q = 1..(Len(a) + Len(b))
      /\ \A i \in 1..(Len(a) + Len(b)) : q[i] = IF i <= Len(a) THEN a[i] ELSE b[i - Len(a)]
  BY <1>1, <1>8, ConcatProperties, LenProperties
<1> HIDE DEF q
<1>10. \A i \in DOMAIN q : \/ i \in DOMAIN a /\ q[i] = a[i] /\ q[i] \in EN
                           \/ i - Len(a) \in DOMAIN b /\ q[i] = b[i - Len(a)] /\ q[i] \in ED
  <2> TAKE i \in DOMAIN q
  <2>1. i \in 1..(Len(a) + Len(b))
    BY <1>9
  <2>2. CASE i <= Len(a)
    BY <1>6, <1>9, <2>1, <2>2
  <2>3. CASE ~(i <= Len(a))
    BY <1>6, <1>7, <1>9, <2>1, <2>3
  <2> QED
    BY <2>2, <2>3
<1>11. \A x \in EN : x.res = Node /\ x = added(Node) /\ own[Node] # Null
  OBVIOUS
<1>12. \A x \in ED : x.res \in Device /\ x = added(x.res) /\ own[x.res] # Null
  OBVIOUS
<1>13. \A i \in DOMAIN q : /\ q[i].pre = Null /\ q[i].post = own[q[i].res]
                           /\ q[i].res \in Resource /\ own[q[i].res] # Null
  BY <1>10, <1>11, <1>12 DEF Resource
<1>14. ASSUME NEW r \in Resource, own[r] # Null
       PROVE  \E i \in DOMAIN q : q[i].res = r
  <2>1. CASE r = Node
    <3>1. added(r) \in EN
      BY <1>14, <2>1
    <3>2. PICK i \in DOMAIN a : a[i] = added(r)
      BY <1>6, <3>1
    <3>3. i \in DOMAIN q /\ q[i] = a[i]
      BY <1>6, <1>7, <1>9, <3>2
    <3> QED
      BY <3>2, <3>3
  <2>2. CASE r \in Device
    <3>1. added(r) \in ED
      BY <1>14, <2>2
    <3>2. PICK i \in DOMAIN b : b[i] = added(r)
      BY <1>7, <3>1
    <3>3. i + Len(a) \in DOMAIN q /\ q[i + Len(a)] = b[i]
      <4>1. i \in Nat /\ i >= 1 /\ i <= Len(b)
        BY <1>7, <3>2
      <4>2. i + Len(a) \in 1..(Len(a) + Len(b)) /\ ~(i + Len(a) <= Len(a)) /\ i + Len(a) - Len(a) = i
        BY <1>6, <1>7, <4>1
      <4> QED
        BY <1>9, <4>2
    <3> QED
      BY <3>2, <3>3
  <2> QED
    BY <2>1, <2>2 DEF Resource
<1>15. ASSUME NEW i \in DOMAIN q, NEW j \in DOMAIN q, q[i].res = q[j].res
       PROVE  i = j
  <2>1. CASE q[i].res = Node
    <3>1. i \in DOMAIN a /\ j \in DOMAIN a /\ a[i] = a[j]
      BY <1>10, <1>11, <1>12, <1>15, <2>1, ParameterAssumption
    <3> QED
      BY <1>6, <3>1
  <2>2. CASE q[i].res # Node
    <3>1. i - Len(a) \in DOMAIN b /\ j - Len(a) \in DOMAIN b /\ b[i - Len(a)] = b[j - Len(a)]
      BY <1>10, <1>11, <1>12, <1>15, <2>2
    <3>2. i - Len(a) = j - Len(a)
      BY <1>7, <3>1
    <3> QED
      BY <1>6, <1>9, <3>2
  <2> QED
    BY <2>1, <2>2
<1>16. ASSUME own[Node] # Null
       PROVE  q # <<>> /\ NodeAdded(q[1])
  <2>1. EN # {}
    BY <1>16
  <2>2. a # <<>> /\ Len(a) > 0
    BY <1>6, <1>8, <2>1, EmptySeq
  <2>3. 1 \in DOMAIN q /\ q[1] = a[1] /\ 1 \in DOMAIN a
    BY <1>6, <1>7, <1>9, <2>2
  <2>4. q[1] = added(Node)
    BY <1>6, <1>11, <2>3
  <2> QED
    BY <1>9, <2>3, <2>4 DEF NodeAdded, Added
<1> QED
  BY <1>9, <1>13, <1>14, <1>15, <1>16 DEF q

\* The request for an event, and what the registry makes of one
LEMMA RequestFacts ==
    ASSUME NEW e \in Event
    PROVE  /\ Requested(e) \in [phase : Phases, event : Event]
           /\ Requested(e).event = e
           /\ Requested(e).phase = IF Removed(e) THEN "delete" ELSE "post"
           /\ Requested(e) # Idle
BY DEF Requested, Phases, Idle, None

LEMMA EffectType ==
    ASSUME TypeOK, request # Idle
    PROVE  /\ request \in [phase : Phases, event : Event]
           /\ request.event \in Event /\ request.event.res \in Resource
           /\ Effect(request) \in [Resource -> Data]
BY DEF TypeOK, Effect, Deleted, Posted, Event, Data, Phases

-----------------------------------------------------------------------------
(* Types *)

LEMMA TypeStep ==
    ASSUME ControlInv, [Next]_vars
    PROVE  TypeOK'
<1> USE ParameterAssumption
<1>t. TypeOK
  BY DEF ControlInv
<1>s. /\ Head(services) \in Service \/ services = <<>>
      /\ services # <<>> => Tail(services) \in Seq(Service)
      /\ \A x \in Service : Version[x] \in Nat
  BY <1>t, HeadTailProperties DEF TypeOK
<1>g. /\ grain # <<>> => Head(grain) \in Event /\ Tail(grain) \in Seq(Event)
      /\ events # <<>> => Head(events) \in Event /\ Tail(events) \in Seq(Event)
      /\ events \o grain \in Seq(Event)
  BY <1>t, QueueFacts DEF TypeOK
<1>e. <<>> \in Seq(Event)
  BY EmptySeq
<1>q. ASSUME NEW e \in Event, request' = Requested(e)
      PROVE  /\ request' \in {Idle} \cup [phase : Phases, event : Event]
             /\ request'.phase \in {"post", "repost"} => ~Removed(request'.event)
  BY <1>q, RequestFacts
<1>l. ASSUME Steal
      PROVE  /\ events' \in Seq(Event) /\ grain' \in Seq(Event) /\ fresh' = FALSE /\ pc' \in {"wait", "request"}
             /\ request' \in {Idle} \cup [phase : Phases, event : Event]
             /\ request'.phase \in {"post", "repost"} => ~Removed(request'.event)
  <2>1. CASE grain = <<>>
    BY <1>t, <1>e, <1>l, <2>1 DEF Steal, TypeOK
  <2>2. CASE grain # <<>>
    BY <1>t, <1>e, <1>g, <1>l, <1>q, <2>2 DEF Steal, TypeOK
  <2> QED
    BY <2>1, <2>2
<1>p. ASSUME NEW current \in Service \cup {None}, Proceed(current), services' = services,
             UNCHANGED <<environment, version, mode, error, unregistered>>
      PROVE  TypeOK'
  <2>1. CASE services = <<>> \/ unregistered
    BY <1>t, <1>p, <2>1 DEF Proceed, TypeOK, environment
  <2>2. CASE ~(services = <<>> \/ unregistered) /\ current = None
    <3>1. SelectService /\ UNCHANGED <<grain, fresh, events, request>>
      BY <1>p, <2>2 DEF Proceed
    <3> QED
      BY <1>t, <1>p, <1>s, <2>2, <3>1 DEF SelectService, TypeOK, environment
  <2>3. CASE ~(services = <<>> \/ unregistered) /\ current # None
    <3>1. Steal /\ UNCHANGED <<client, registered, heartbeat, failed>>
      BY <1>p, <2>3 DEF Proceed
    <3> QED
      BY <1>t, <1>p, <1>l, <3>1 DEF TypeOK, environment
  <2> QED
    BY <2>1, <2>2, <2>3
<1>1. ASSUME NEW r \in Resource, NEW v \in Data, Change(r, v)
      PROVE  TypeOK'
  <2>1. [res |-> r, pre |-> own[r], post |-> v] \in Event
    BY <1>t DEF TypeOK, Event
  <2>2. grain' \in Seq(Event)
    BY <1>t, <1>1, <2>1 DEF Change, TypeOK
  <2> QED
    BY <1>t, <1>1, <2>2 DEF Change, TypeOK, locals
<1>2. CASE Lose
  <2>1. registry' \in [Resource -> Data]
    BY <1>2 DEF Lose, Data
  <2> QED
    BY <1>t, <1>2, <2>1 DEF Lose, TypeOK, locals
<1>3. CASE Discover
  BY <1>t, <1>3 DEF Discover, EnterMode, TypeOK, Modes, environment
<1>4. CASE Advertise
  BY <1>t, <1>e, <1>4 DEF Advertise, TypeOK, environment, locals
<1>5. CASE BackgroundDiscovery
  BY <1>t, <1>5 DEF BackgroundDiscovery, EnterMode, TypeOK, Modes, environment
<1>6. CASE InitialRegistration
  <2> DEFINE remaining == IF error THEN Tail(services) ELSE services
             top == client = None \/ error
             queue == FromNodeAdded(IF top THEN AddedEvents ELSE grain)
  <2>1. services # <<>>
    BY <1>6 DEF ControlInv, Places, InitialRegistration
  <2>2. remaining \in Seq(Service)
    BY <1>t, <1>s, <2>1 DEF TypeOK
  <2>3. queue \in Seq(Event) /\ (queue # <<>> => Head(queue) \in Event)
    BY <1>t, AddedFacts, FromFacts, QueueFacts DEF TypeOK
  <2>4. CASE remaining = <<>> \/ registered
    BY <1>t, <1>6, <2>2, <2>4 DEF InitialRegistration, EnterMode, TypeOK, Modes
  <2>5. CASE ~(remaining = <<>> \/ registered)
    <3>1. RegisterNode(remaining) /\ services' = remaining /\ error' = FALSE
          /\ UNCHANGED <<own, registry, changes, faults, heartbeat>>
      BY <1>6, <2>5 DEF InitialRegistration
    <3>2. Head(remaining) \in Service /\ Version[Head(remaining)] \in Nat
      BY <1>s, <2>2, <2>5, HeadTailProperties
    <3>3. /\ events' = queue /\ client' = Head(remaining) /\ version' = Version[Head(remaining)]
          /\ failed' = (IF top THEN failed \ {Head(remaining)} ELSE failed)
          /\ stale' = (IF top THEN FALSE ELSE stale) /\ grain' = <<>> /\ fresh' = FALSE
          /\ IF queue = <<>> THEN pc' = "wait" /\ request' = request
             ELSE pc' = "request" /\ request' = Requested(Head(queue))
          /\ UNCHANGED <<mode, registered, unregistered>>
      BY <3>1 DEF RegisterNode
    <3> HIDE DEF queue, remaining, top
    <3>4. /\ request' \in {Idle} \cup [phase : Phases, event : Event]
          /\ request'.phase \in {"post", "repost"} => ~Removed(request'.event)
          /\ pc' \in {"wait", "request"}
      BY <1>t, <2>3, <3>3, RequestFacts DEF TypeOK
    <3>5. grain' \in Seq(Event) /\ failed' \subseteq Service /\ stale' \in BOOLEAN
      <4>1. stale' \in BOOLEAN
        BY <1>t, <3>3 DEF TypeOK
      <4> QED
        BY <1>t, <1>e, <3>3, <4>1 DEF TypeOK
    <3> QED
      BY <1>t, <2>2, <2>3, <3>1, <3>2, <3>3, <3>4, <3>5 DEF TypeOK
  <2> QED
    BY <2>4, <2>5
<1>7. CASE RegisteredOperation
  BY <1>t, <1>7, <1>p DEF RegisteredOperation, TypeOK
<1>8. CASE PopService
  <2>1. services # <<>>
    BY <1>8 DEF ControlInv, Places, PopService
  <2> QED
    BY <1>t, <1>s, <1>8, <2>1 DEF PopService, TypeOK, environment
<1>9. CASE Drained
  BY <1>t, <1>9, <1>p DEF Drained
<1>10. CASE Confirmed
  <2>1. CASE error \/ unregistered
    BY <1>t, <1>10, <2>1 DEF Confirmed, TypeOK, environment
  <2>2. CASE ~(error \/ unregistered)
    BY <1>t, <1>l, <1>10, <2>2 DEF Confirmed, TypeOK, environment
  <2> QED
    BY <2>1, <2>2
<1>11. CASE NextEvent
  <2>1. CASE pc' = "wait" /\ Restore /\ request' = request
    BY <1>t, <1>e, <1>g, <1>11, <2>1 DEF NextEvent, Restore, TypeOK, environment
  <2>2. CASE events # <<>> /\ request' = Requested(Head(events)) /\ UNCHANGED <<pc, grain, fresh, events>>
    BY <1>t, <1>g, <1>q, <1>11, <2>2 DEF NextEvent, TypeOK, environment
  <2> QED
    BY <1>11, <2>1, <2>2 DEF NextEvent
<1>12. CASE Leave
  BY <1>t, <1>12 DEF Leave, EnterMode, TypeOK, Modes, environment
<1>13. CASE Reply
  <2>1. request # Idle
    BY <1>13 DEF Reply
  <2>2. Effect(request) \in [Resource -> Data] /\ request \in [phase : Phases, event : Event]
    BY <1>t, <2>1, EffectType
  <2>3. ASSUME NEW x \in {"delete", "repost"}
        PROVE  /\ [request EXCEPT !.phase = x] \in [phase : Phases, event : Event]
               /\ [request EXCEPT !.phase = x].phase = x /\ [request EXCEPT !.phase = x].event = request.event
    BY <2>2 DEF Phases
  <2>4. /\ request' \in {Idle} \cup [phase : Phases, event : Event]
        /\ request'.phase \in {"post", "repost"} => ~Removed(request'.event)
    <3>1. CASE request' = [request EXCEPT !.phase = "delete"]
      BY <2>3, <3>1
    <3>2. CASE request' = [request EXCEPT !.phase = "repost"] /\ ~Removed(request.event)
      BY <2>3, <3>2
    <3>3. CASE request' = Idle
      BY <3>3 DEF Idle, None
    <3> QED
      BY <1>13, <3>1, <3>2, <3>3 DEF Reply, Finish
  <2>5. /\ events' \in Seq(Event) /\ registered' \in BOOLEAN /\ unregistered' \in BOOLEAN
        /\ registry' = Effect(request) /\ stale' \in BOOLEAN
        /\ UNCHANGED <<own, changes, faults, grain, fresh, version, services, mode, pc, client, error,
                       heartbeat, failed>>
    BY <1>t, <1>g, <1>13 DEF Reply, Finish, TypeOK
  <2> QED
    BY <1>t, <2>2, <2>4, <2>5 DEF TypeOK
<1>14. ASSUME RequestFails, faults' \in 0..MaxFaults, failed' \subseteq Service
       PROVE  TypeOK'
  <2>1. registry' \in [Resource -> Data]
    BY <1>t, <1>14, EffectType DEF RequestFails, TypeOK
  <2>2. request' = Idle /\ Idle.phase = "none"
    BY <1>14 DEF RequestFails, Idle, None
  <2> QED
    BY <1>t, <1>14, <2>1, <2>2 DEF RequestFails, TypeOK
<1>15. CASE RequestError
  <2>1. client # None
    BY <1>15 DEF RequestError, RequestFails, ControlInv, TasksHaveClient
  <2> QED
    BY <1>t, <1>14, <1>15, <2>1 DEF RequestError, TypeOK
<1>16. CASE RequestCancelled
  BY <1>t, <1>14, <1>16 DEF RequestCancelled, TypeOK
<1>17. CASE HeartbeatReply
  BY <1>t, <1>17 DEF HeartbeatReply, TypeOK, environment
<1>18. CASE HeartbeatError
  <2>1. client # None
    BY <1>18 DEF HeartbeatError, Beating, ControlInv, TasksHaveClient, None
  <2> QED
    BY <1>t, <1>18, <2>1 DEF HeartbeatError, TypeOK
<1>19. CASE HeartbeatDue
  BY <1>t, <1>19 DEF HeartbeatDue, TypeOK, environment
<1>20. CASE HeartbeatCancelled
  BY <1>t, <1>20 DEF HeartbeatCancelled, TypeOK, environment
<1>21. CASE UNCHANGED vars
  BY <1>t, <1>21 DEF vars, environment, locals, TypeOK
<1> QED
  BY <1>1, <1>2, <1>3, <1>4, <1>5, <1>6, <1>7, <1>8, <1>9, <1>10, <1>11, <1>12, <1>13, <1>15, <1>16,
     <1>17, <1>18, <1>19, <1>20, <1>21 DEF Next, Thread, Tasks

-----------------------------------------------------------------------------
(* Where the thread is, its client and its tasks *)

LEMMA PlacesStep ==
    ASSUME ControlInv, [Next]_vars
    PROVE  Places' /\ TasksHaveClient' /\ Beats'
<1>t. TypeOK /\ Places /\ TasksHaveClient /\ Beats
  BY DEF ControlInv
<1>n. None \notin Service /\ Lists \subseteq Seq(Service)
  BY ParameterAssumption
<1>s. services # <<>> => Head(services) \in Service /\ Head(services) # None
  BY <1>t, <1>n, HeadTailProperties DEF TypeOK
<1>r. \A e \in Event : Requested(e) # Idle
  BY RequestFacts
<1>p. ASSUME NEW current \in Service \cup {None}, Proceed(current), mode = "registered_operation",
             request = Idle \/ unregistered, current = None => heartbeat = None /\ request = Idle,
             current # None => current = client /\ Beats /\ ~error /\ pc = "wait",
             UNCHANGED <<environment, version, services, mode, error, unregistered>>
      PROVE  Places' /\ TasksHaveClient' /\ Beats'
  <2>1. CASE services = <<>> \/ unregistered
    BY <1>t, <1>p, <2>1 DEF Proceed, Places, TasksHaveClient, Beats
  <2>2. CASE ~(services = <<>> \/ unregistered) /\ current = None
    <3>1. SelectService /\ UNCHANGED <<grain, fresh, events, request>>
      BY <1>p, <2>2 DEF Proceed
    <3> QED
      BY <1>t, <1>p, <1>s, <2>2, <3>1 DEF SelectService, Places, TasksHaveClient, Beats, None
  <2>3. CASE ~(services = <<>> \/ unregistered) /\ current # None
    <3>1. Steal /\ UNCHANGED <<client, registered, heartbeat, failed>>
      BY <1>p, <2>3 DEF Proceed
    <3> QED
      BY <1>t, <1>p, <2>3, <3>1 DEF Steal, Places, TasksHaveClient, Beats
  <2> QED
    BY <2>1, <2>2, <2>3
<1>1. ASSUME NEW r \in Resource, NEW v \in Data, Change(r, v)
      PROVE  Places' /\ TasksHaveClient' /\ Beats'
  <2>1. UNCHANGED <<version, services, mode, pc, locals>>
    BY <1>1 DEF Change
  <2> QED
    BY <1>t, <2>1 DEF Places, TasksHaveClient, Beats, locals
<1>2. CASE Lose
  BY <1>t, <1>2 DEF Lose, Places, TasksHaveClient, Beats, locals
<1>3. CASE Discover
  <2>1. /\ mode' \in {"peer_to_peer_operation", "initial_registration", "registered_operation"}
        /\ services' = <<>> => mode' = "peer_to_peer_operation"
        /\ pc' = "wait" /\ client' = None /\ error' = FALSE /\ registered' = FALSE /\ unregistered' = FALSE
    BY <1>3 DEF Discover, EnterMode
  <2>2. request = Idle /\ heartbeat = None /\ UNCHANGED <<request, heartbeat>>
    BY <1>t, <1>3 DEF Discover, Places
  <2> QED
    BY <2>1, <2>2 DEF Places, TasksHaveClient, Beats
<1>4. CASE Advertise
  BY <1>t, <1>4 DEF Advertise, Places, TasksHaveClient, Beats, locals
<1>5. CASE BackgroundDiscovery
  <2>1. request = Idle /\ heartbeat = None /\ UNCHANGED <<request, heartbeat>>
    BY <1>t, <1>5 DEF BackgroundDiscovery, Places
  <2>2. /\ services' # <<>> /\ mode' = "initial_registration"
        /\ pc' = "wait" /\ client' = None /\ error' = FALSE /\ registered' = FALSE /\ unregistered' = FALSE
    BY <1>5 DEF BackgroundDiscovery, EnterMode
  <2> QED
    BY <2>1, <2>2 DEF Places, TasksHaveClient, Beats
<1>6. CASE InitialRegistration
  <2> DEFINE remaining == IF error THEN Tail(services) ELSE services
  <2>1. /\ mode = "initial_registration" /\ pc = "wait" /\ error' = FALSE /\ services' = remaining
        /\ UNCHANGED heartbeat
    BY <1>6 DEF InitialRegistration
  <2>2. request = Idle /\ heartbeat = None /\ ~unregistered
    BY <1>t, <2>1 DEF Places, TypeOK
  <2>3. CASE remaining = <<>> \/ registered
    <3>1. /\ mode' = IF remaining = <<>> THEN "initial_discovery" ELSE "registered_operation"
          /\ pc' = "wait" /\ client' = None /\ registered' = FALSE /\ unregistered' = FALSE
          /\ UNCHANGED request
      BY <1>6, <2>3 DEF InitialRegistration, EnterMode
    <3> QED
      BY <2>1, <2>2, <3>1 DEF Places, TasksHaveClient, Beats
  <2>4. CASE ~(remaining = <<>> \/ registered)
    <3>1. RegisterNode(remaining)
      BY <1>6, <2>4 DEF InitialRegistration
    <3>2. remaining # <<>> /\ Head(remaining) # None
      <4>1. remaining \in Seq(Service)
        BY <1>t, <2>1, HeadTailProperties DEF TypeOK, Places
      <4> QED
        BY <1>n, <2>4, <4>1, HeadTailProperties
    <3> DEFINE queue == FromNodeAdded(IF client = None \/ error THEN AddedEvents ELSE grain)
    <3>3. /\ client' = Head(remaining)
          /\ IF queue = <<>> THEN pc' = "wait" /\ request' = request
             ELSE pc' = "request" /\ request' = Requested(Head(queue))
          /\ UNCHANGED <<mode, registered, unregistered>>
      BY <3>1 DEF RegisterNode
    <3>4. queue # <<>> => Requested(Head(queue)) # Idle
      <4>1. queue \in Seq(Event)
        BY <1>t, AddedFacts, FromFacts DEF TypeOK
      <4> QED
        BY <1>r, <4>1, HeadTailProperties
    <3> HIDE DEF queue, remaining
    <3> QED
      BY <1>t, <2>1, <2>2, <2>4, <3>2, <3>3, <3>4 DEF Places, TasksHaveClient, Beats, TypeOK
  <2> QED
    BY <2>3, <2>4
<1>7. CASE RegisteredOperation
  <2>1. client \in Service \cup {None} /\ Proceed(client) /\ mode = "registered_operation" /\ pc = "wait" /\ ~error
        /\ UNCHANGED <<environment, version, services, mode, error, unregistered>>
    BY <1>t, <1>7 DEF RegisteredOperation, TypeOK
  <2>2. request = Idle \/ unregistered
    BY <1>t, <2>1 DEF Places
  <2>3. client = None => heartbeat = None /\ request = Idle
    BY <1>t DEF TasksHaveClient
  <2> QED
    BY <1>t, <1>p, <2>1, <2>2, <2>3
<1>8. CASE PopService
  <2>1. client # None
    BY <1>t, <1>8 DEF PopService, Places
  <2> QED
    BY <1>t, <1>8, <2>1 DEF PopService, Places, TasksHaveClient, Beats
<1>9. CASE Drained
  <2>1. mode = "registered_operation"
    BY <1>t, <1>9 DEF Drained, Places, TypeOK, Modes
  <2> QED
    BY <1>p, <1>9, <2>1 DEF Drained
<1>10. CASE Confirmed
  <2>1. mode = "registered_operation"
    BY <1>t, <1>10 DEF Confirmed, Places, TypeOK, Modes
  <2> QED
    BY <1>t, <1>10, <2>1 DEF Confirmed, Steal, Places, TasksHaveClient, Beats
<1>11. CASE NextEvent
  <2>1. mode \in {"initial_registration", "registered_operation"}
    BY <1>t, <1>11 DEF NextEvent, Places, TypeOK, Modes
  <2>2. CASE pc' = "wait" /\ request' = request
    BY <1>t, <1>11, <2>1, <2>2 DEF NextEvent, Places, TasksHaveClient, Beats
  <2>3. CASE /\ ~(error \/ unregistered \/ (mode = "initial_registration" /\ registered)) /\ events # <<>>
             /\ request' = Requested(Head(events)) /\ pc' = pc
    <3>1. mode = "registered_operation"
      BY <1>t, <1>11, <2>1, <2>3 DEF NextEvent, Places
    <3> QED
      BY <1>t, <1>11, <2>3, <3>1 DEF NextEvent, Places, TasksHaveClient, Beats
  <2> QED
    BY <1>11, <2>2, <2>3 DEF NextEvent
<1>12. CASE Leave
  BY <1>12 DEF Leave, EnterMode, Places, TasksHaveClient, Beats
<1>13. CASE Reply
  <2>1. request # Idle /\ UNCHANGED <<services, mode, pc, client, error, heartbeat>>
    BY <1>13 DEF Reply
  <2>2. \/ request' # Idle /\ UNCHANGED <<registered, unregistered>>
        \/ /\ request' = Idle
           /\ registered' = (registered \/ mode = "initial_registration")
           /\ \/ unregistered' = unregistered
              \/ mode = "registered_operation" /\ unregistered'
    <3>1. request \in [phase : Phases, event : Event]
      BY <1>t, <2>1, EffectType
    <3>2. \A x \in {"delete", "repost"} : [request EXCEPT !.phase = x] # Idle
      BY <3>1 DEF Idle, None
    <3>3. CASE Finish(request.event)
      BY <1>t, <3>3 DEF Finish, TypeOK
    <3> QED
      BY <1>13, <3>2, <3>3 DEF Reply
  <2>3. mode \in {"initial_registration", "registered_operation"}
    BY <1>t, <2>1 DEF Places, TypeOK, Modes
  <2>4. client # None /\ registered' \in BOOLEAN
    BY <1>t, <2>1, <2>2 DEF TasksHaveClient, TypeOK
  <2>5. CASE mode = "initial_registration"
    BY <1>t, <2>1, <2>2, <2>4, <2>5 DEF Places, TasksHaveClient, Beats
  <2>6. CASE mode = "registered_operation"
    BY <1>t, <2>1, <2>2, <2>4, <2>6 DEF Places, TasksHaveClient, Beats
  <2> QED
    BY <2>3, <2>5, <2>6
<1>14. CASE RequestFails
  <2>1. /\ request # Idle /\ request' = Idle /\ error' = TRUE
        /\ UNCHANGED <<services, mode, pc, client, registered, unregistered, heartbeat>>
    BY <1>14 DEF RequestFails
  <2>2. mode \in {"initial_registration", "registered_operation"}
    BY <1>t, <2>1 DEF Places, TypeOK, Modes
  <2> QED
    BY <1>t, <2>1, <2>2 DEF Places, TasksHaveClient, Beats
<1>15. CASE RequestError
  BY <1>14, <1>15 DEF RequestError
<1>16. CASE RequestCancelled
  BY <1>14, <1>16 DEF RequestCancelled
<1>17. CASE HeartbeatReply
  <2>1. mode = "registered_operation" /\ heartbeat # None
    BY <1>t, <1>17 DEF HeartbeatReply, Beating, Places, TypeOK, Modes, None
  <2> QED
    BY <1>t, <1>17, <2>1 DEF HeartbeatReply, Places, TasksHaveClient, Beats, None
<1>18. CASE HeartbeatError
  <2>1. mode = "registered_operation" /\ heartbeat # None
    BY <1>t, <1>18 DEF HeartbeatError, Beating, Places, TypeOK, Modes, None
  <2> QED
    BY <1>t, <1>18, <2>1 DEF HeartbeatError, Places, TasksHaveClient, Beats
<1>19. CASE HeartbeatDue
  <2>1. mode = "registered_operation" /\ heartbeat # None
    BY <1>t, <1>19 DEF HeartbeatDue, Places, TypeOK, Modes, None
  <2> QED
    BY <1>t, <1>19, <2>1 DEF HeartbeatDue, Places, TasksHaveClient, Beats, None
<1>20. CASE HeartbeatCancelled
  BY <1>t, <1>20 DEF HeartbeatCancelled, Cancelled, Places, TasksHaveClient, Beats, TypeOK
<1>21. CASE UNCHANGED vars
  BY <1>t, <1>21 DEF vars, locals, Places, TasksHaveClient, Beats
<1> QED
  BY <1>1, <1>2, <1>3, <1>4, <1>5, <1>6, <1>7, <1>8, <1>9, <1>10, <1>11, <1>12, <1>13, <1>15, <1>16,
     <1>17, <1>18, <1>19, <1>20, <1>21 DEF Next, Thread, Tasks

-----------------------------------------------------------------------------
(* The queue, and the request *)

\* The steps that leave what is to be sent as it is
Still ==
    \/ Lose \/ Discover \/ BackgroundDiscovery
    \/ RegisteredOperation \/ PopService \/ Drained \/ Confirmed \/ NextEvent \/ Leave
    \/ RequestError \/ RequestCancelled
    \/ HeartbeatReply \/ HeartbeatError \/ HeartbeatDue \/ HeartbeatCancelled
    \/ UNCHANGED vars

LEMMA QueueKept ==
    ASSUME ControlInv, Still
    PROVE  /\ Queue' = Queue /\ own' = own
           /\ pc' # "request" => events' = <<>>
           /\ \/ request' = Idle
              \/ /\ request' = request
                 /\ request = Idle \/ mode' = mode
                 /\ registry' \in {registry, Empty}
                 /\ pc' = "request" => pc = "request" /\ events' = events
              \/ /\ Queue # <<>> /\ request' = Requested(Queue[1]) /\ registry' = registry
                 /\ events' # <<>> /\ mode' = "registered_operation"
<1> DEFINE Goal ==
      /\ Queue' = Queue /\ own' = own
      /\ pc' # "request" => events' = <<>>
      /\ \/ request' = Idle
         \/ /\ request' = request
            /\ request = Idle \/ mode' = mode
            /\ registry' \in {registry, Empty}
            /\ pc' = "request" => pc = "request" /\ events' = events
         \/ /\ Queue # <<>> /\ request' = Requested(Queue[1]) /\ registry' = registry
            /\ events' # <<>> /\ mode' = "registered_operation"
<1>t. TypeOK /\ Places /\ Requests
  BY DEF ControlInv
<1>q. events \in Seq(Event) /\ grain \in Seq(Event)
  BY <1>t DEF TypeOK
<1>e. pc # "request" => events = <<>>
  BY <1>t DEF Requests
<1>u. ASSUME UNCHANGED <<events, grain>>
      PROVE  Queue' = Queue
  BY <1>u DEF Queue
<1>l. ASSUME Steal, events = <<>>, mode' = mode, mode = "registered_operation", own' = own, registry' = registry
      PROVE  Goal
  <2>1. Queue = grain
    BY <1>q, <1>l, QueueFacts DEF Queue
  <2>2. Queue' = grain \o <<>>
    BY <1>l DEF Queue, Steal
  <2>3. Queue' = Queue
    BY <1>q, <2>1, <2>2, QueueFacts
  <2>4. grain # <<>> => Head(grain) = Queue[1]
    BY <1>q, <2>1, QueueFacts, EmptySeq
  <2> QED
    BY <1>l, <2>1, <2>3, <2>4 DEF Steal
<1>p. ASSUME NEW current, Proceed(current), events = <<>>, mode = "registered_operation",
             UNCHANGED <<environment, mode>>
      PROVE  Goal
  <2>1. own' = own /\ registry' = registry /\ mode' = mode
    BY <1>p DEF environment
  <2>2. CASE services = <<>> \/ unregistered
    BY <1>p, <1>u, <2>1, <2>2 DEF Proceed
  <2>3. CASE ~(services = <<>> \/ unregistered) /\ current = None
    BY <1>p, <1>u, <2>1, <2>3 DEF Proceed, SelectService
  <2>4. CASE ~(services = <<>> \/ unregistered) /\ current # None
    BY <1>p, <1>l, <2>1, <2>4 DEF Proceed
  <2> QED
    BY <2>2, <2>3, <2>4
<1>1. CASE Lose
  BY <1>e, <1>u, <1>1 DEF Lose, locals, Empty
<1>2. CASE Discover
  <2>1. request = Idle /\ pc = "wait"
    BY <1>t, <1>2 DEF Discover, Places
  <2> QED
    BY <1>e, <1>u, <1>2, <2>1 DEF Discover, EnterMode, environment
<1>3. CASE BackgroundDiscovery
  <2>1. request = Idle /\ pc = "wait"
    BY <1>t, <1>3 DEF BackgroundDiscovery, Places
  <2> QED
    BY <1>e, <1>u, <1>3, <2>1 DEF BackgroundDiscovery, EnterMode, environment
<1>4. CASE RegisteredOperation
  BY <1>e, <1>p, <1>4 DEF RegisteredOperation
<1>5. CASE PopService
  BY <1>e, <1>u, <1>5 DEF PopService, environment
<1>6. CASE Drained
  <2>1. mode = "registered_operation"
    BY <1>t, <1>6 DEF Drained, Places, TypeOK, Modes
  <2> QED
    BY <1>e, <1>p, <1>6, <2>1 DEF Drained
<1>7. CASE Confirmed
  <2>1. mode = "registered_operation"
    BY <1>t, <1>7 DEF Confirmed, Places, TypeOK, Modes
  <2>2. CASE error \/ unregistered
    BY <1>e, <1>u, <1>7, <2>2 DEF Confirmed, environment
  <2>3. CASE ~(error \/ unregistered)
    BY <1>e, <1>l, <1>7, <2>1, <2>3 DEF Confirmed, environment
  <2> QED
    BY <2>2, <2>3
<1>8. CASE NextEvent
  <2>1. mode' = mode /\ own' = own /\ registry' = registry /\ pc = "request"
    BY <1>8 DEF NextEvent, environment
  <2>2. CASE pc' = "wait" /\ Restore /\ request' = request
    <3>1. Queue' = <<>> \o Queue
      BY <2>2 DEF Restore, Queue
    <3>2. Queue' = Queue
      BY <1>q, <3>1, QueueFacts DEF Queue
    <3> QED
      BY <2>1, <2>2, <3>2 DEF Restore
  <2>3. CASE /\ ~(error \/ unregistered \/ (mode = "initial_registration" /\ registered)) /\ events # <<>>
             /\ request' = Requested(Head(events)) /\ UNCHANGED <<pc, grain, fresh, events>>
    <3>1. mode = "registered_operation"
      BY <1>t, <1>8, <2>3 DEF NextEvent, Places, TypeOK, Modes
    <3>2. Queue # <<>> /\ Head(events) = Queue[1]
      BY <1>q, <2>3, QueueFacts DEF Queue
    <3> QED
      BY <1>u, <2>1, <2>3, <3>1, <3>2
  <2> QED
    BY <1>8, <2>2, <2>3 DEF NextEvent
<1>9. CASE Leave
  BY <1>e, <1>u, <1>9 DEF Leave, EnterMode, environment
<1>10. CASE RequestError \/ RequestCancelled
  BY <1>e, <1>u, <1>10 DEF RequestError, RequestCancelled, RequestFails
<1>11. CASE HeartbeatReply \/ HeartbeatDue \/ HeartbeatCancelled
  BY <1>e, <1>u, <1>11 DEF HeartbeatReply, HeartbeatDue, HeartbeatCancelled, environment
<1>12. CASE HeartbeatError
  BY <1>e, <1>u, <1>12 DEF HeartbeatError
<1>13. CASE UNCHANGED vars
  BY <1>e, <1>u, <1>13 DEF vars, environment, locals
<1> QED
  BY <1>1, <1>2, <1>3, <1>4, <1>5, <1>6, <1>7, <1>8, <1>9, <1>10, <1>11, <1>12, <1>13 DEF Still

\* A change is the last event to be sent, ...
LEMMA QueueExtended ==
    ASSUME ControlInv, NEW r \in Resource, NEW v \in Data, Change(r, v)
    PROVE  /\ [res |-> r, pre |-> own[r], post |-> v] \in Event
           /\ Queue' = Append(Queue, [res |-> r, pre |-> own[r], post |-> v])
<1>1. [res |-> r, pre |-> own[r], post |-> v] \in Event
  BY DEF ControlInv, TypeOK, Event
<1>2. grain' = Append(grain, [res |-> r, pre |-> own[r], post |-> v]) /\ events' = events
  BY DEF Change, locals
<1> QED
  BY <1>1, <1>2, QueueFacts DEF Queue, ControlInv, TypeOK

\* ... and a request that is completed is no longer sent, if it has not been put back.
LEMMA QueueConsumed ==
    ASSUME TypeOK, NEW e, Finish(e), grain' = grain
    PROVE  Queue' = IF events = <<>> THEN Queue ELSE Tail(Queue)
<1>1. events' = IF events = <<>> THEN <<>> ELSE Tail(events)
  BY DEF Finish
<1> QED
  BY <1>1, QueueFacts DEF Queue, TypeOK

\* What is to be sent first: everything, or what has come since an 'added' event was due.
Selected == FromNodeAdded(IF client = None \/ error THEN AddedEvents ELSE Queue)

LEMMA QueueSelected ==
    ASSUME ControlInv, InitialRegistration
    PROVE  /\ request = Idle /\ events = <<>> /\ own' = own /\ registry' = registry
           /\ \/ Queue' = Queue /\ request' = Idle /\ events' = <<>> /\ pc' = "wait" /\ client' = None
                 /\ stale' = stale /\ mode' \in {"initial_discovery", "registered_operation"}
                 /\ (mode' = "registered_operation" => registered)
              \/ Queue' = Selected /\ events' = Selected /\ ~registered /\ ~registered' /\ mode' = mode
                 /\ stale' = (IF client = None \/ error THEN FALSE ELSE stale)
                 /\ IF Selected = <<>> THEN pc' = "wait" /\ request' = Idle
                    ELSE pc' = "request" /\ request' = Requested(Selected[1])
           /\ Selected \in Seq(Event)
           /\ Selected # <<>> => NodeAdded(Selected[1])
<1> DEFINE remaining == IF error THEN Tail(services) ELSE services
           queue == FromNodeAdded(IF client = None \/ error THEN AddedEvents ELSE grain)
<1>1. TypeOK /\ Places /\ Requests
  BY DEF ControlInv
<1>2. mode = "initial_registration" /\ pc = "wait" /\ UNCHANGED <<own, registry>>
  BY DEF InitialRegistration
<1>3. request = Idle /\ events = <<>>
  BY <1>1, <1>2 DEF Places, Requests
<1>4. Queue = grain
  BY <1>1, <1>3, QueueFacts DEF Queue, TypeOK
<1>5. queue = Selected
  BY <1>4 DEF Selected
<1>6. Selected \in Seq(Event) /\ (Selected # <<>> => NodeAdded(Selected[1]))
  BY <1>1, <1>5, AddedFacts, FromFacts DEF TypeOK
<1>7. CASE remaining = <<>> \/ registered
  BY <1>2, <1>3, <1>6, <1>7 DEF InitialRegistration, EnterMode, Queue
<1>8. CASE ~(remaining = <<>> \/ registered)
  <2>1. RegisterNode(remaining)
    BY <1>8 DEF InitialRegistration
  <2> HIDE DEF remaining
  <2>2. /\ events' = queue /\ grain' = <<>>
        /\ stale' = (IF client = None \/ error THEN FALSE ELSE stale)
        /\ IF queue = <<>> THEN pc' = "wait" /\ request' = request
           ELSE pc' = "request" /\ request' = Requested(Head(queue))
        /\ UNCHANGED <<mode, registered, unregistered>>
    BY <2>1 DEF RegisterNode
  <2> HIDE DEF queue
  <2>3. Queue' = Selected
    BY <1>5, <1>6, <2>2, QueueFacts DEF Queue
  <2>4. Selected # <<>> => Head(Selected) = Selected[1]
    BY <1>6, QueueFacts, EmptySeq
  <2> QED
    BY <1>2, <1>3, <1>5, <1>6, <1>8, <2>2, <2>3, <2>4
<1> QED
  BY <1>7, <1>8

LEMMA RequestsStep ==
    ASSUME ControlInv, [Next]_vars
    PROVE  Requests'
<1>t. TypeOK /\ Places /\ Requests
  BY DEF ControlInv
<1>q. Queue \in Seq(Event) /\ events \in Seq(Event) /\ grain \in Seq(Event)
  BY <1>t, QueueFacts DEF TypeOK, Queue
<1>l. Len(Queue) \in Nat /\ DOMAIN Queue = 1..Len(Queue)
  BY <1>q, LenProperties
<1>f. /\ Queue # <<>> => Queue[1] \in Event
      /\ \A e \in Event : Requested(e).event = e /\ Requested(e).phase # "repost"
                         /\ (Requested(e).phase = "delete" => Removed(e))
  BY <1>q, <1>l, EmptySeq, ElementOfSeq, RequestFacts
<1>1. CASE Still
  <2>1. /\ Queue' = Queue
        /\ pc' # "request" => events' = <<>>
        /\ \/ request' = Idle
           \/ /\ request' = request
              /\ request = Idle \/ mode' = mode
              /\ registry' \in {registry, Empty}
              /\ pc' = "request" => pc = "request" /\ events' = events
           \/ /\ Queue # <<>> /\ request' = Requested(Queue[1])
              /\ events' # <<>> /\ mode' = "registered_operation"
    BY <1>1, QueueKept
  <2>2. Empty' = Empty
    BY DEF Empty
  <2>3. \A i \in DOMAIN Queue' : Queue'[i].pre # Queue'[i].post
    BY <1>t, <2>1 DEF Requests
  <2> QED
    BY <1>t, <1>f, <2>1, <2>2, <2>3 DEF Requests
<1>2. ASSUME NEW r \in Resource, NEW v \in Data, Change(r, v)
      PROVE  Requests'
  <2> DEFINE e == [res |-> r, pre |-> own[r], post |-> v]
  <2>1. e \in Event /\ e.pre # e.post
    BY <1>2, QueueExtended DEF Change
  <2>2. Queue' = Append(Queue, e)
    BY <1>2, QueueExtended
  <2>3. UNCHANGED <<pc, mode, request, events, registry>>
    BY <1>2 DEF Change, locals
  <2> HIDE DEF e
  <2>4. /\ Queue' # <<>> /\ DOMAIN Queue' = 1..(Len(Queue) + 1)
        /\ \A i \in 1..Len(Queue) : Queue'[i] = Queue[i]
        /\ Queue'[Len(Queue) + 1] = e
    BY <1>q, <2>1, <2>2, AppendProperties, LenProperties
  <2>5. Queue # <<>> => Queue'[1] = Queue[1]
    BY <1>q, <1>l, <2>4, EmptySeq
  <2>6. \A i \in DOMAIN Queue' : Queue'[i].pre # Queue'[i].post
    <3> TAKE i \in DOMAIN Queue'
    <3>1. i \in 1..Len(Queue) \/ i = Len(Queue) + 1
      BY <1>l, <2>4
    <3> QED
      BY <1>t, <1>l, <2>1, <2>4, <3>1 DEF Requests
  <2>7. Empty' = Empty
    BY DEF Empty
  <2> QED
    BY <1>t, <2>3, <2>4, <2>5, <2>6, <2>7 DEF Requests
<1>3. CASE Advertise
  <2>1. request = Idle /\ events = <<>> /\ pc = "wait" /\ grain' = <<>> /\ UNCHANGED <<request, events, pc>>
    BY <1>t, <1>3 DEF Advertise, Places, Requests, locals
  <2>2. Queue' = <<>>
    BY <2>1, <1>q, QueueFacts DEF Queue
  <2> QED
    BY <2>1, <2>2 DEF Requests
<1>4. CASE InitialRegistration
  <2>1. \A i \in DOMAIN Selected : Selected[i].pre # Selected[i].post
    <3>1. CASE client = None \/ error
      <4>1. AddedEvents \in Seq(Event) /\ \A i \in DOMAIN AddedEvents : AddedEvents[i].pre # AddedEvents[i].post
        BY <1>t, AddedFacts DEF TypeOK
      <4> QED
        BY <3>1, <4>1, FromFacts DEF Selected
    <3>2. CASE ~(client = None \/ error)
      <4>1. Selected = FromNodeAdded(Queue)
        BY <3>2 DEF Selected
      <4>2. \A i \in DOMAIN Selected : \E j \in DOMAIN Queue : Selected[i] = Queue[j]
        BY <1>q, <4>1, FromFacts
      <4> QED
        BY <1>t, <4>2 DEF Requests
    <3> QED
      BY <3>1, <3>2
  <2>2. /\ Selected \in Seq(Event) /\ (Selected # <<>> => NodeAdded(Selected[1]))
        /\ \/ Queue' = Queue /\ request' = Idle /\ events' = <<>>
           \/ Queue' = Selected /\ events' = Selected
              /\ IF Selected = <<>> THEN pc' = "wait" /\ request' = Idle
                 ELSE pc' = "request" /\ request' = Requested(Selected[1])
    BY <1>4, QueueSelected
  <2>3. Selected # <<>> => Selected[1] \in Event
    BY <2>2, EmptySeq, LenProperties, ElementOfSeq
  <2>4. CASE Queue' = Queue /\ request' = Idle /\ events' = <<>>
    BY <1>t, <2>4 DEF Requests
  <2>5. CASE /\ Queue' = Selected /\ events' = Selected
             /\ IF Selected = <<>> THEN pc' = "wait" /\ request' = Idle
                ELSE pc' = "request" /\ request' = Requested(Selected[1])
    <3>1. Selected # <<>> => request'.event = Selected[1] /\ request'.phase # "repost"
                             /\ (request'.phase = "delete" => Removed(request'.event))
      BY <1>f, <2>3, <2>5
    <3>2. \A i \in DOMAIN Queue' : Queue'[i].pre # Queue'[i].post
      BY <2>1, <2>5
    <3> QED
      BY <2>2, <2>5, <3>1, <3>2 DEF Requests
  <2> QED
    BY <2>2, <2>4, <2>5
<1>5. CASE Reply
  <2>1. /\ request # Idle /\ registry' = Effect(request) /\ UNCHANGED <<grain, mode, pc>>
        /\ request \in [phase : Phases, event : Event]
    BY <1>t, <1>5, EffectType DEF Reply
  <2>2. CASE request' = [request EXCEPT !.phase = "delete"] /\ Added(request.event) /\ UNCHANGED events
    <3>1. request'.event = request.event /\ request'.phase = "delete"
      BY <2>1, <2>2
    <3>2. Queue' = Queue
      BY <2>1, <2>2 DEF Queue
    <3>3. \A i \in DOMAIN Queue' : Queue'[i].pre # Queue'[i].post
      BY <1>t, <3>2 DEF Requests
    <3> QED
      BY <1>t, <2>1, <2>2, <3>1, <3>2, <3>3 DEF Requests
  <2>3. CASE /\ request.phase = "delete" /\ ~Removed(request.event)
             /\ request' = [request EXCEPT !.phase = "repost"] /\ UNCHANGED events
    <3>1. request'.event = request.event /\ request'.phase = "repost"
      BY <2>1, <2>3
    <3>2. Queue' = Queue
      BY <2>1, <2>3 DEF Queue
    <3>3. \A i \in DOMAIN Queue' : Queue'[i].pre # Queue'[i].post
      BY <1>t, <3>2 DEF Requests
    <3>4. mode = "initial_registration" => registry' = Empty'
      BY <1>t, <2>1, <2>3 DEF Requests, NodeAdded, Effect, Deleted, Empty
    <3> QED
      BY <1>t, <2>1, <2>3, <3>1, <3>2, <3>3, <3>4 DEF Requests
  <2>4. CASE Finish(request.event)
    <3>1. request' = Idle /\ (pc' # "request" => events' = <<>>)
      BY <1>t, <2>1, <2>4 DEF Finish, Requests
    <3>2. Queue' = IF events = <<>> THEN Queue ELSE Tail(Queue)
      BY <1>t, <2>1, <2>4, QueueConsumed
    <3>3. \A i \in DOMAIN Queue' : Queue'[i].pre # Queue'[i].post
      <4>1. CASE events = <<>>
        BY <1>t, <3>2, <4>1 DEF Requests
      <4>2. CASE events # <<>>
        <5>1. Queue # <<>> /\ Queue' = Tail(Queue)
          BY <1>q, <3>2, <4>2, QueueFacts DEF Queue
        <5>2. DOMAIN Queue' = 1..(Len(Queue) - 1) /\ \A i \in 1..(Len(Queue) - 1) : Queue'[i] = Queue[i + 1]
          BY <1>q, <5>1, HeadTailProperties, LenProperties
        <5>3. \A i \in 1..(Len(Queue) - 1) : i + 1 \in DOMAIN Queue
          BY <1>l
        <5> QED
          BY <1>t, <5>2, <5>3 DEF Requests
      <4> QED
        BY <4>1, <4>2
    <3> QED
      BY <3>1, <3>3 DEF Requests
  <2> QED
    BY <1>5, <2>2, <2>3, <2>4 DEF Reply
<1> QED
  BY <1>1, <1>2, <1>3, <1>4, <1>5 DEF Next, Thread, Tasks, Still

\* The registry has no devices without their node.
LEMMA EffectFamilies ==
    ASSUME TypeOK, Families, request # Idle
    PROVE  Effect(request)[Node] = Null => \A d \in Device : Effect(request)[d] = Null
<1> DEFINE e == request.event
<1>1. /\ request.phase \in Phases /\ e.res \in Resource /\ e.post \in Data
      /\ request.phase # "delete" => e.post # Null
  BY EffectType DEF TypeOK, Phases, Event, Removed
<1>2. CASE request.phase = "delete"
  <2>1. CASE e.res = Node
    BY <1>2, <2>1 DEF Effect, Deleted, Resource
  <2>2. CASE e.res # Node
    BY <1>1, <1>2, <2>2 DEF Effect, Deleted, TypeOK, Families, Resource
  <2> QED
    BY <2>1, <2>2
<1>3. CASE request.phase # "delete"
  <2>1. CASE PostStatus(e) = 400
    BY <1>3, <2>1 DEF Effect, Posted, Families
  <2>2. CASE PostStatus(e) # 400
    <3>1. e.res = Node \/ registry[Node] # Null
      BY <2>2 DEF PostStatus
    <3>2. Effect(request) = [registry EXCEPT ![e.res] = e.post]
      BY <1>3, <2>2 DEF Effect, Posted
    <3> QED
      BY <1>1, <1>3, <3>1, <3>2 DEF TypeOK, Resource
  <2> QED
    BY <2>1, <2>2
<1> QED
  BY <1>2, <1>3

LEMMA FamiliesStep ==
    ASSUME ControlInv, [Next]_vars
    PROVE  Families'
<1> USE ParameterAssumption
<1>t. TypeOK /\ Families
  BY DEF ControlInv
<1>1. ASSUME NEW r \in Resource, NEW v \in Data, Change(r, v)
      PROVE  Families'
  <2>1. /\ own' = [own EXCEPT ![r] = v] /\ registry' = registry /\ own[r] # v
        /\ r # Node => own[Node] # Null
        /\ r = Node /\ own[r] # Null /\ v = Null => \A d \in Device : own[d] = Null
    BY <1>1 DEF Change
  <2> QED
    BY <1>t, <2>1 DEF Families, TypeOK, Resource
<1>2. CASE Lose
  BY <1>t, <1>2 DEF Lose, Families, Resource
<1>3. CASE Reply
  <2>1. own' = own /\ registry' = Effect(request)
    BY <1>3 DEF Reply
  <2> QED
    BY <1>t, <1>3, <2>1, EffectFamilies DEF Reply, Families
<1>4. CASE RequestError \/ RequestCancelled
  <2>1. own' = own /\ registry' \in {registry, Effect(request)} /\ request # Idle
    BY <1>4 DEF RequestError, RequestCancelled, RequestFails
  <2> QED
    BY <1>t, <2>1, EffectFamilies DEF Families
<1>5. CASE UNCHANGED <<own, registry>>
  BY <1>t, <1>5 DEF Families
<1>6. \/ \E r \in Resource, v \in Data : Change(r, v)
      \/ Lose \/ Reply \/ RequestError \/ RequestCancelled
      \/ UNCHANGED <<own, registry>>
  BY DEF Next, Thread, Tasks, vars, environment, Discover, Advertise, BackgroundDiscovery,
     InitialRegistration, RegisteredOperation, PopService, Drained, Confirmed, NextEvent, Leave,
     HeartbeatReply, HeartbeatError, HeartbeatDue, HeartbeatCancelled
<1> QED
  BY <1>1, <1>2, <1>3, <1>4, <1>5, <1>6

LEMMA ControlInit ==
    ASSUME Init
    PROVE  ControlInv /\ Queue = <<>>
<1> USE ParameterAssumption
<1>1. Queue = <<>>
  BY QueueFacts, EmptySeq DEF Init, Queue
<1>2. TypeOK
  <2>1. request = Idle /\ Idle.phase = "none"
    BY DEF Init, Idle, None
  <2>2. <<>> \in Seq(Event) /\ <<>> \in Seq(Service)
    BY EmptySeq
  <2>3. /\ request \in {Idle} \cup [phase : Phases, event : Event]
        /\ request.phase \in {"post", "repost"} => ~Removed(request.event)
    BY <2>1
  <2>4. /\ own \in [Resource -> Data] /\ registry \in [Resource -> Data]
        /\ grain \in Seq(Event) /\ events \in Seq(Event) /\ services \in Seq(Service)
        /\ changes \in 0..MaxChanges /\ faults \in 0..MaxFaults
    BY <2>2 DEF Init, Data
  <2> QED
    BY <2>3, <2>4 DEF Init, TypeOK, Modes
<1>3. Requests
  BY <1>1 DEF Init, Requests
<1> QED
  BY <1>1, <1>2, <1>3 DEF ControlInv, Init, Families, Places, TasksHaveClient, Beats, Resource

LEMMA ControlStep ==
    ASSUME ControlInv, [Next]_vars
    PROVE  ControlInv'
BY TypeStep, FamiliesStep, PlacesStep, RequestsStep DEF ControlInv

\* Every variable keeps its type: in particular a POST request always has data.
THEOREM TypeCorrect == Spec => []TypeOK
<1>1. Init => ControlInv
  BY ControlInit
<1>2. ControlInv /\ [Next]_vars => ControlInv'
  BY ControlStep
<1>3. ControlInv => TypeOK
  BY DEF ControlInv
<1> QED
  BY <1>1, <1>2, <1>3, PTL DEF Spec

\* The Node persists itself in the registry: its heartbeats go on in registered
\* operation until a flag has been set, and end with it.
THEOREM PersistedHolds == Spec => []Persisted
<1>1. Init => ControlInv
  BY ControlInit
<1>2. ControlInv /\ [Next]_vars => ControlInv'
  BY ControlStep
<1>3. ControlInv => Persisted
  BY DEF ControlInv, Places, Beats, TypeOK, Modes, Persisted
<1> QED
  BY <1>1, <1>2, <1>3, PTL DEF Spec

\* No request or heartbeat outlives the clients it uses.
THEOREM TasksHaveClientHolds == Spec => []TasksHaveClient
<1>1. Init => ControlInv
  BY ControlInit
<1>2. ControlInv /\ [Next]_vars => ControlInv'
  BY ControlStep
<1>3. ControlInv => TasksHaveClient
  BY DEF ControlInv
<1> QED
  BY <1>1, <1>2, <1>3, PTL DEF Spec

-----------------------------------------------------------------------------
(* What is known of the resources, and what is to be sent *)

\* A change of the node's resources is sent last.
LEMMA FollowsAppend ==
    ASSUME NEW data \in [Resource -> Data], NEW known \in [Resource -> Data], NEW q \in Seq(Event),
           NEW e \in Event, Follows(data, known, q)
    PROVE  Follows([data EXCEPT ![e.res] = e.post], known, Append(q, e))
<1> DEFINE q2 == Append(q, e)
           data2 == [data EXCEPT ![e.res] = e.post]
<1>1. /\ q2 \in Seq(Event) /\ DOMAIN q = 1..Len(q) /\ DOMAIN q2 = 1..(Len(q) + 1) /\ Len(q) \in Nat
      /\ \A i \in 1..Len(q) : q2[i] = q[i]
      /\ q2[Len(q) + 1] = e
  BY AppendProperties, LenProperties
<1>2. e.res \in Resource
  BY DEF Event
<1> HIDE DEF q2
<1>3. ASSUME NEW r \in Resource
      PROVE  \/ data2[r] = known[r] /\ \A i \in DOMAIN q2 : q2[i].res # r
             \/ \E i \in DOMAIN q2 : /\ q2[i].res = r /\ q2[i].post = data2[r]
                                     /\ \A j \in DOMAIN q2 : j > i => q2[j].res # r
  <2>1. CASE r = e.res
    <3>1. Len(q) + 1 \in DOMAIN q2 /\ q2[Len(q) + 1].res = r /\ q2[Len(q) + 1].post = data2[r]
          /\ \A j \in DOMAIN q2 : ~(j > Len(q) + 1)
      BY <1>1, <1>2, <2>1
    <3> QED
      BY <3>1
  <2>2. CASE r # e.res
    <3>1. data2[r] = data[r]
      BY <2>2
    <3>2. \A i \in DOMAIN q2 : (i \in DOMAIN q /\ q2[i] = q[i]) \/ q2[i].res # r
      BY <1>1, <2>2
    <3>3. CASE data[r] = known[r] /\ \A i \in DOMAIN q : q[i].res # r
      BY <3>1, <3>2, <3>3
    <3>4. CASE \E i \in DOMAIN q : /\ q[i].res = r /\ q[i].post = data[r]
                                   /\ \A j \in DOMAIN q : j > i => q[j].res # r
      <4>1. PICK i \in DOMAIN q : /\ q[i].res = r /\ q[i].post = data[r]
                                  /\ \A j \in DOMAIN q : j > i => q[j].res # r
        BY <3>4
      <4>2. i \in DOMAIN q2 /\ q2[i] = q[i]
        BY <1>1
      <4> QED
        BY <3>1, <3>2, <4>1, <4>2
    <3> QED
      BY <3>3, <3>4 DEF Follows
  <2> QED
    BY <2>1, <2>2
<1> QED
  BY <1>3 DEF Follows, q2

\* When the registry carries out the first event, it does not matter whether that is still sent.
LEMMA FollowsKnown ==
    ASSUME NEW data \in [Resource -> Data], NEW known \in [Resource -> Data], NEW q \in Seq(Event), q # <<>>,
           NEW known2 \in [Resource -> Data], \A r \in Resource : r # q[1].res => known2[r] = known[r],
           Follows(data, known, q)
    PROVE  /\ Follows(data, known2, q)
           /\ known2[q[1].res] = q[1].post => Follows(data, known2, Tail(q))
<1> DEFINE t == Tail(q)
<1>1. /\ DOMAIN q = 1..Len(q) /\ DOMAIN t = 1..(Len(q) - 1) /\ Len(q) \in Nat /\ Len(q) > 0
      /\ \A i \in 1..(Len(q) - 1) : t[i] = q[i + 1]
  BY HeadTailProperties, LenProperties, EmptySeq
<1> HIDE DEF t
<1>2. Follows(data, known2, q)
  <2> SUFFICES ASSUME NEW r \in Resource
               PROVE  \/ data[r] = known2[r] /\ \A i \in DOMAIN q : q[i].res # r
                      \/ \E i \in DOMAIN q : /\ q[i].res = r /\ q[i].post = data[r]
                                             /\ \A j \in DOMAIN q : j > i => q[j].res # r
    BY DEF Follows
  <2>1. \/ data[r] = known[r] /\ \A i \in DOMAIN q : q[i].res # r
        \/ \E i \in DOMAIN q : /\ q[i].res = r /\ q[i].post = data[r]
                               /\ \A j \in DOMAIN q : j > i => q[j].res # r
    BY DEF Follows
  <2>2. 1 \in DOMAIN q
    BY <1>1
  <2> QED
    BY <2>1, <2>2
<1>3. ASSUME known2[q[1].res] = q[1].post
      PROVE  Follows(data, known2, t)
  <2> SUFFICES ASSUME NEW r \in Resource
               PROVE  \/ data[r] = known2[r] /\ \A i \in DOMAIN t : t[i].res # r
                      \/ \E i \in DOMAIN t : /\ t[i].res = r /\ t[i].post = data[r]
                                             /\ \A j \in DOMAIN t : j > i => t[j].res # r
    BY DEF Follows
  <2>s. \A i \in DOMAIN t : i + 1 \in DOMAIN q /\ t[i] = q[i + 1] /\ i + 1 > 1
    BY <1>1
  <2>1. CASE data[r] = known2[r] /\ \A i \in DOMAIN q : q[i].res # r
    BY <2>s, <2>1
  <2>2. CASE \E i \in DOMAIN q : /\ q[i].res = r /\ q[i].post = data[r]
                                 /\ \A j \in DOMAIN q : j > i => q[j].res # r
    <3>1. PICK i \in DOMAIN q : /\ q[i].res = r /\ q[i].post = data[r]
                                /\ \A j \in DOMAIN q : j > i => q[j].res # r
      BY <2>2
    <3>2. CASE i = 1
      BY <1>3, <2>s, <3>1, <3>2
    <3>3. CASE i # 1
      <4>1. i - 1 \in DOMAIN t /\ t[i - 1] = q[i]
        BY <1>1, <3>3
      <4>2. \A j \in DOMAIN t : j > i - 1 => j + 1 > i
        BY <1>1
      <4> QED
        BY <2>s, <3>1, <4>1, <4>2
    <3> QED
      BY <3>2, <3>3
  <2> QED
    BY <1>2, <2>1, <2>2 DEF Follows
<1> QED
  BY <1>2, <1>3 DEF t

\* The node is only removed when its devices have been.
LEMMA OrderedAppend ==
    ASSUME NEW data \in [Resource -> Data], NEW known \in [Resource -> Data], NEW q \in Seq(Event),
           NEW e \in Event, Follows(data, known, q), Ordered(known, q),
           NodeRemoved(e) => \A d \in Device : data[d] = Null
    PROVE  Ordered(known, Append(q, e))
<1> DEFINE q2 == Append(q, e)
<1>1. /\ DOMAIN q = 1..Len(q) /\ DOMAIN q2 = 1..(Len(q) + 1) /\ Len(q) \in Nat
      /\ \A i \in 1..Len(q) : q2[i] = q[i]
      /\ q2[Len(q) + 1] = e
  BY AppendProperties, LenProperties
<1> HIDE DEF q2
<1> SUFFICES ASSUME NEW k \in DOMAIN q2, NodeRemoved(q2[k]), NEW d \in Device
             PROVE  \/ known[d] = Null /\ \A i \in 1..(k - 1) : q2[i].res # d
                    \/ \E i \in 1..(k - 1) : /\ q2[i].res = d /\ q2[i].post = Null
                                             /\ \A j \in (i + 1)..(k - 1) : q2[j].res # d
  BY DEF Ordered, q2
<1>2. \A i \in 1..(k - 1) : i \in 1..Len(q) /\ q2[i] = q[i]
  BY <1>1
<1>3. CASE k \in DOMAIN q
  <2>1. \/ known[d] = Null /\ \A i \in 1..(k - 1) : q[i].res # d
        \/ \E i \in 1..(k - 1) : /\ q[i].res = d /\ q[i].post = Null
                                 /\ \A j \in (i + 1)..(k - 1) : q[j].res # d
    BY <1>1, <1>3 DEF Ordered
  <2>2. CASE known[d] = Null /\ \A i \in 1..(k - 1) : q[i].res # d
    BY <1>2, <2>2
  <2>3. CASE \E i \in 1..(k - 1) : /\ q[i].res = d /\ q[i].post = Null
                                   /\ \A j \in (i + 1)..(k - 1) : q[j].res # d
    <3>1. PICK i \in 1..(k - 1) : /\ q[i].res = d /\ q[i].post = Null
                                 /\ \A j \in (i + 1)..(k - 1) : q[j].res # d
      BY <2>3
    <3>2. \A j \in (i + 1)..(k - 1) : j \in 1..(k - 1)
      BY <1>1
    <3> QED
      BY <1>2, <3>1, <3>2
  <2> QED
    BY <2>1, <2>2, <2>3
<1>4. CASE k = Len(q) + 1
  <2>1. data[d] = Null /\ d \in Resource
    BY <1>1, <1>4 DEF Resource
  <2>2. \/ data[d] = known[d] /\ \A i \in DOMAIN q : q[i].res # d
        \/ \E i \in DOMAIN q : /\ q[i].res = d /\ q[i].post = data[d]
                               /\ \A j \in DOMAIN q : j > i => q[j].res # d
    BY <2>1 DEF Follows
  <2>3. 1..(k - 1) = DOMAIN q
    BY <1>1, <1>4
  <2>4. \A i \in DOMAIN q : \A j \in (i + 1)..(k - 1) : j \in DOMAIN q /\ j > i
    BY <1>1, <2>3
  <2>5. CASE data[d] = known[d] /\ \A i \in DOMAIN q : q[i].res # d
    BY <1>2, <2>1, <2>3, <2>5
  <2>6. CASE \E i \in DOMAIN q : /\ q[i].res = d /\ q[i].post = data[d]
                                /\ \A j \in DOMAIN q : j > i => q[j].res # d
    <3>1. PICK i \in DOMAIN q : /\ q[i].res = d /\ q[i].post = data[d]
                               /\ \A j \in DOMAIN q : j > i => q[j].res # d
      BY <2>6
    <3>2. \A j \in (i + 1)..(k - 1) : q[j].res # d /\ j \in 1..(k - 1)
      BY <2>3, <2>4, <3>1
    <3> QED
      BY <1>2, <2>1, <2>3, <3>1, <3>2
  <2> QED
    BY <2>2, <2>5, <2>6
<1> QED
  BY <1>1, <1>3, <1>4

LEMMA OrderedKnown ==
    ASSUME NEW known \in [Resource -> Data], NEW q \in Seq(Event), q # <<>>,
           NEW known2 \in [Resource -> Data], \A r \in Resource : r # q[1].res => known2[r] = known[r],
           Ordered(known, q)
    PROVE  /\ Ordered(known2, q)
           /\ known2[q[1].res] = q[1].post => Ordered(known2, Tail(q))
<1> DEFINE t == Tail(q)
<1>1. /\ DOMAIN q = 1..Len(q) /\ DOMAIN t = 1..(Len(q) - 1) /\ Len(q) \in Nat /\ Len(q) > 0
      /\ \A i \in 1..(Len(q) - 1) : t[i] = q[i + 1]
  BY HeadTailProperties, LenProperties, EmptySeq
<1> HIDE DEF t
<1>d. \A d \in Device : d \in Resource /\ d # Node
  BY ParameterAssumption DEF Resource
<1>2. Ordered(known2, q)
  <2> SUFFICES ASSUME NEW k \in DOMAIN q, NodeRemoved(q[k]), NEW d \in Device
               PROVE  \/ known2[d] = Null /\ \A i \in 1..(k - 1) : q[i].res # d
                      \/ \E i \in 1..(k - 1) : /\ q[i].res = d /\ q[i].post = Null
                                               /\ \A j \in (i + 1)..(k - 1) : q[j].res # d
    BY DEF Ordered
  <2>1. \/ known[d] = Null /\ \A i \in 1..(k - 1) : q[i].res # d
        \/ \E i \in 1..(k - 1) : /\ q[i].res = d /\ q[i].post = Null
                                 /\ \A j \in (i + 1)..(k - 1) : q[j].res # d
    BY DEF Ordered
  <2>2. q[1].res # d => known2[d] = known[d]
    BY <1>d
  <2>3. k = 1 => q[1].res # d
    BY <1>d DEF NodeRemoved
  <2>4. k = 1 \/ 1 \in 1..(k - 1)
    BY <1>1
  <2> QED
    BY <2>1, <2>2, <2>3, <2>4
<1>3. ASSUME known2[q[1].res] = q[1].post
      PROVE  Ordered(known2, t)
  <2> SUFFICES ASSUME NEW k \in DOMAIN t, NodeRemoved(t[k]), NEW d \in Device
               PROVE  \/ known2[d] = Null /\ \A i \in 1..(k - 1) : t[i].res # d
                      \/ \E i \in 1..(k - 1) : /\ t[i].res = d /\ t[i].post = Null
                                               /\ \A j \in (i + 1)..(k - 1) : t[j].res # d
    BY DEF Ordered
  <2>1. k + 1 \in DOMAIN q /\ NodeRemoved(q[k + 1]) /\ k \in Nat /\ k >= 1
    BY <1>1
  <2>2. \/ known2[d] = Null /\ \A i \in 1..k : q[i].res # d
        \/ \E i \in 1..k : /\ q[i].res = d /\ q[i].post = Null
                           /\ \A j \in (i + 1)..k : q[j].res # d
    <3>1. \A x \in DOMAIN q : NodeRemoved(q[x]) =>
            \/ known2[d] = Null /\ \A i \in 1..(x - 1) : q[i].res # d
            \/ \E i \in 1..(x - 1) : /\ q[i].res = d /\ q[i].post = Null
                                     /\ \A j \in (i + 1)..(x - 1) : q[j].res # d
      BY <1>2 DEF Ordered
    <3>2. (k + 1) - 1 = k
      BY <2>1
    <3> QED
      BY <2>1, <3>1, <3>2
  <2>s. \A i \in 1..(k - 1) : i + 1 \in 2..k /\ t[i] = q[i + 1]
    BY <1>1, <2>1
  <2>3. CASE known2[d] = Null /\ \A i \in 1..k : q[i].res # d
    BY <2>s, <2>3, <2>1
  <2>4. CASE \E i \in 1..k : /\ q[i].res = d /\ q[i].post = Null
                             /\ \A j \in (i + 1)..k : q[j].res # d
    <3>1. PICK i \in 1..k : /\ q[i].res = d /\ q[i].post = Null
                            /\ \A j \in (i + 1)..k : q[j].res # d
      BY <2>4
    <3>2. CASE i = 1
      <4>1. known2[d] = Null
        BY <1>3, <3>1, <3>2
      <4>2. \A j \in 1..(k - 1) : t[j].res # d
        BY <2>s, <3>1, <3>2
      <4> QED
        BY <4>1, <4>2
    <3>3. CASE i # 1
      <4>1. i - 1 \in 1..(k - 1) /\ t[i - 1] = q[i]
        BY <1>1, <2>1, <3>1, <3>3
      <4>2. \A j \in ((i - 1) + 1)..(k - 1) : j \in 1..(k - 1) /\ j + 1 \in (i + 1)..k
        BY <2>1, <3>1
      <4>3. \A j \in ((i - 1) + 1)..(k - 1) : t[j].res # d
        BY <2>s, <3>1, <4>2
      <4> QED
        BY <3>1, <4>1, <4>3
    <3> QED
      BY <3>2, <3>3
  <2> QED
    BY <2>2, <2>3, <2>4
<1> QED
  BY <1>2, <1>3 DEF t

\* The node is only added when it has been removed.
LEMMA ReaddedAppend ==
    ASSUME NEW data \in [Resource -> Data], NEW known \in [Resource -> Data], NEW q \in Seq(Event),
           NEW e \in Event, Follows(data, known, q), NodeAdded(e) => data[Node] = Null,
           NEW first \in {1, 2}, Readded(q, first), first = 1 => known[Node] # Null,
           first = 2 /\ q # <<>> => NodeAdded(q[1]) /\ q[1].pre # q[1].post
    PROVE  Readded(Append(q, e), first)
<1> DEFINE q2 == Append(q, e)
<1>1. /\ DOMAIN q = 1..Len(q) /\ Len(q2) = Len(q) + 1 /\ Len(q) \in Nat
      /\ \A i \in 1..Len(q) : q2[i] = q[i]
      /\ q2[Len(q) + 1] = e
  BY AppendProperties, LenProperties
<1> HIDE DEF q2
<1> SUFFICES ASSUME NEW k \in first..Len(q2), NodeAdded(q2[k])
             PROVE  \E j \in first..(k - 1) : NodeRemoved(q2[j])
  BY DEF Readded, q2
<1>2. CASE k \in first..Len(q)
  <2>1. NodeAdded(q[k])
    BY <1>1, <1>2
  <2>2. PICK j \in first..(k - 1) : NodeRemoved(q[j])
    BY <1>2, <2>1 DEF Readded
  <2> QED
    BY <1>1, <1>2, <2>2
<1>3. CASE k = Len(q) + 1
  <2>1. data[Node] = Null /\ Node \in Resource
    BY <1>1, <1>3 DEF Resource
  <2>2. \/ known[Node] = Null /\ \A i \in DOMAIN q : q[i].res # Node
        \/ \E i \in DOMAIN q : q[i].res = Node /\ q[i].post = Null
    BY <2>1 DEF Follows
  <2>3. q # <<>>
    BY <1>1, <1>3, <2>2, EmptySeq
  <2>4. 1 \in DOMAIN q
    BY <1>1, <2>3, EmptySeq
  <2>5. PICK i \in DOMAIN q : q[i].res = Node /\ q[i].post = Null
    BY <2>2, <2>3, <2>4 DEF NodeAdded
  <2>6. first = 2 => i # 1
    BY <2>3, <2>5 DEF NodeAdded, Added
  <2>7. i \in first..(k - 1)
    BY <1>1, <1>3, <2>5, <2>6
  <2> QED
    BY <1>1, <2>5, <2>7 DEF NodeRemoved, Removed
<1> QED
  BY <1>1, <1>2, <1>3

LEMMA ReaddedTail ==
    ASSUME NEW q \in Seq(Event), q # <<>>
    PROVE  /\ Readded(q, 1) /\ ~NodeRemoved(q[1]) => Readded(Tail(q), 1)
           /\ Readded(q, 2) => Readded(Tail(q), 1)
<1> DEFINE t == Tail(q)
<1>1. /\ Len(t) = Len(q) - 1 /\ Len(q) \in Nat /\ Len(q) > 0
      /\ \A i \in 1..(Len(q) - 1) : t[i] = q[i + 1]
  BY HeadTailProperties, LenProperties, EmptySeq
<1> HIDE DEF t
<1>2. ASSUME NEW first \in {1, 2}, Readded(q, first), first = 1 => ~NodeRemoved(q[1])
      PROVE  Readded(t, 1)
  <2> SUFFICES ASSUME NEW k \in 1..Len(t), NodeAdded(t[k])
               PROVE  \E j \in 1..(k - 1) : NodeRemoved(t[j])
    BY DEF Readded
  <2>1. k + 1 \in first..Len(q) /\ NodeAdded(q[k + 1]) /\ (k + 1) - 1 = k
    BY <1>1
  <2>2. PICK j \in first..k : NodeRemoved(q[j])
    BY <1>2, <2>1 DEF Readded
  <2>3. j # 1
    BY <1>2, <2>2
  <2>4. j - 1 \in 1..(k - 1) /\ t[j - 1] = q[j]
    BY <1>1, <2>2, <2>3
  <2> QED
    BY <2>2, <2>4
<1> QED
  BY <1>2 DEF t

-----------------------------------------------------------------------------
(* Nothing is forgotten *)

\* What a request in registered operation does to the registry
LEMMA EffectKept ==
    ASSUME ControlInv, Kept, mode = "registered_operation", ~stale, request # Idle
    PROVE  LET known == Effect(request)
               e     == Queue[1]
               taken == request.phase # "delete" /\ PostStatus(e) = 400
           IN  /\ Queue \in Seq(Event) /\ Queue # <<>> /\ request.event = e /\ e.res \in Resource
               /\ known \in [Resource -> Data]
               /\ \A r \in Resource : r # e.res => known[r] = registry[r]
               /\ known[Node] # Null => registry[Node] # Null /\ Readded(Queue, 1)
               /\ request.phase = "delete" => known[e.res] = Null
               /\ request.phase # "delete" /\ ~taken => known[e.res] = e.post /\ known[Node] # Null
               /\ ~NodeRemoved(e) => known[Node] # Null
<1> USE ParameterAssumption
<1> DEFINE known == Effect(request)
           e == Queue[1]
<1>1. TypeOK /\ Places /\ Requests
  BY DEF ControlInv
<1>2. Queue \in Seq(Event)
  BY <1>1, QueueFacts DEF TypeOK, Queue
<1>3. Queue # <<>> /\ request.event = e
  BY <1>1 DEF Requests
<1>4. /\ known \in [Resource -> Data] /\ request \in [phase : Phases, event : Event]
      /\ e \in Event /\ e.res \in Resource /\ e.post \in Data
  BY <1>1, <1>3, EffectType DEF Event
<1>5. 1 \in DOMAIN Queue /\ Len(Queue) >= 1
  BY <1>2, <1>3, EmptySeq, LenProperties
<1>6. Linked /\ Ordered(registry, Queue) /\ (registry[Node] # Null => Readded(Queue, 1))
  BY DEF Kept, Following, Sending
<1>7. registry[Node] # Null => ~NodeAdded(e)
  BY <1>5, <1>6 DEF Readded
<1>8. ~NodeRemoved(e) => registry[Node] # Null
  BY <1>6 DEF Linked
<1>9. request.phase # "delete" => ~Removed(e)
  BY <1>1, <1>3, <1>4 DEF TypeOK, Phases
<1>10. NodeRemoved(e) => \A d \in Device : registry[d] = Null
  BY <1>5, <1>6 DEF Ordered
<1>11. request.phase = "delete" /\ e.res = Node => NodeRemoved(e)
  BY <1>1, <1>3, <1>7, <1>8 DEF Requests, NodeAdded, NodeRemoved
<1> HIDE DEF known, e
<1>12. CASE request.phase = "delete"
  <2>1. CASE e.res = Node
    <3>1. known = Empty
      BY <1>3, <1>12, <2>1 DEF known, Effect, Deleted, Empty
    <3>2. \A r \in Resource : r # Node => registry[r] = Null
      BY <1>10, <1>11, <1>12, <2>1 DEF Resource
    <3> QED
      BY <1>2, <1>3, <1>4, <1>11, <1>12, <2>1, <3>1, <3>2 DEF Empty, Resource, known, e
  <2>2. CASE e.res # Node
    <3>1. known = [registry EXCEPT ![e.res] = Null]
      BY <1>3, <1>12, <2>2 DEF known, Effect, Deleted
    <3>2. /\ \A r \in Resource : r # e.res => known[r] = registry[r]
          /\ known[e.res] = Null /\ known[Node] = registry[Node]
      BY <1>1, <1>4, <2>2, <3>1 DEF TypeOK, Resource
    <3>3. ~NodeRemoved(e)
      BY <2>2 DEF NodeRemoved
    <3> QED
      BY <1>2, <1>3, <1>4, <1>6, <1>8, <1>12, <3>2, <3>3 DEF known, e
  <2> QED
    BY <2>1, <2>2
<1>13. CASE request.phase # "delete"
  <2>1. ~NodeRemoved(e) /\ registry[Node] # Null /\ e.post # Null /\ Readded(Queue, 1)
    BY <1>6, <1>8, <1>9, <1>13 DEF NodeRemoved, Removed
  <2>2. CASE PostStatus(e) = 400
    <3>1. known = registry
      BY <1>3, <1>13, <2>2 DEF known, Effect, Posted
    <3> QED
      BY <1>2, <1>3, <1>4, <1>13, <2>1, <2>2, <3>1 DEF known, e
  <2>3. CASE PostStatus(e) # 400
    <3>1. known = [registry EXCEPT ![e.res] = e.post]
      BY <1>3, <1>13, <2>3 DEF known, Effect, Posted
    <3>2. /\ \A r \in Resource : r # e.res => known[r] = registry[r]
          /\ known[e.res] = e.post /\ known[Node] # Null
      BY <1>1, <1>4, <2>1, <3>1 DEF TypeOK, Resource
    <3> QED
      BY <1>2, <1>3, <1>4, <1>13, <2>1, <2>3, <3>2 DEF known, e
  <2> QED
    BY <2>2, <2>3
<1> QED
  BY <1>12, <1>13

\* The steps of the thread, and those of the heartbeats, do not make more of what is known.
LEMMA ThreadKept ==
    ASSUME ControlInv, Still, ~Lose, ~RequestError, ~RequestCancelled
    PROVE  /\ registry' = registry /\ stale' = stale
           /\ Following' => Following
           /\ mode' = "registered_operation" /\ Sending' =>
                (mode = "registered_operation" /\ Sending) \/ registry[Node] # Null
           /\ mode' = "initial_registration" /\ client' # None /\ ~error' /\ ~registered' =>
                mode = "initial_registration" /\ client # None /\ ~error /\ ~registered
<1> DEFINE Goal ==
      /\ registry' = registry /\ stale' = stale
      /\ Following' => Following
      /\ mode' = "registered_operation" /\ Sending' =>
           (mode = "registered_operation" /\ Sending) \/ registry[Node] # Null
      /\ mode' = "initial_registration" /\ client' # None /\ ~error' /\ ~registered' =>
           mode = "initial_registration" /\ client # None /\ ~error /\ ~registered
<1>t. TypeOK /\ Places /\ TasksHaveClient
  BY DEF ControlInv
<1>p. ASSUME NEW current, Proceed(current), mode = "registered_operation",
             current = None => request = Idle,
             current # None => current = client /\ ~error /\ pc = "wait",
             UNCHANGED <<environment, version, services, mode, error, unregistered>>
      PROVE  Goal
  <2>1. registry' = registry /\ stale' = stale /\ Following
    BY <1>p DEF environment, Following
  <2>2. CASE services = <<>> \/ unregistered
    BY <1>p, <2>1, <2>2 DEF Proceed, Sending
  <2>3. CASE ~(services = <<>> \/ unregistered) /\ current = None
    BY <1>p, <2>1, <2>3 DEF Proceed, SelectService, Sending
  <2>4. CASE ~(services = <<>> \/ unregistered) /\ current # None
    <3>1. Sending
      BY <1>p, <2>4 DEF Sending
    <3> QED
      BY <1>p, <2>1, <3>1
  <2> QED
    BY <2>2, <2>3, <2>4
<1>1. CASE Discover
  <2>1. /\ request' = Idle /\ client' = None /\ mode' # mode /\ registered' = FALSE
        /\ mode' = "registered_operation" => mode = "rediscovery"
        /\ mode' # "rediscovery" /\ registry' = registry /\ stale' = stale
    BY <1>t, <1>1 DEF Discover, EnterMode, Places, environment
  <2> QED
    BY <2>1 DEF Following, Sending
<1>2. CASE BackgroundDiscovery
  BY <1>2 DEF BackgroundDiscovery, EnterMode, Following, Sending, environment
<1>3. CASE RegisteredOperation
  <2>1. client = None => request = Idle
    BY <1>t DEF TasksHaveClient
  <2> QED
    BY <1>p, <1>3, <2>1 DEF RegisteredOperation
<1>4. CASE PopService
  BY <1>4 DEF PopService, Following, Sending, environment
<1>5. CASE Drained
  <2>1. mode = "registered_operation"
    BY <1>t, <1>5 DEF Drained, Places, TypeOK, Modes
  <2> QED
    BY <1>p, <1>5, <2>1 DEF Drained
<1>6. CASE Confirmed
  <2>1. mode = "registered_operation" /\ client # None
    BY <1>t, <1>6 DEF Confirmed, Places, TypeOK, Modes
  <2>2. CASE error \/ unregistered
    BY <1>6, <2>1, <2>2 DEF Confirmed, Following, Sending, environment
  <2>3. CASE ~(error \/ unregistered)
    <3>1. Sending
      BY <1>6, <2>1, <2>3 DEF Confirmed, Sending
    <3> QED
      BY <1>6, <2>1, <3>1 DEF Confirmed, Following, environment
  <2> QED
    BY <2>2, <2>3
<1>7. CASE NextEvent
  <2>1. /\ pc = "request" /\ UNCHANGED <<registry, stale, mode, client, error, registered, unregistered>>
        /\ \/ request' = request
           \/ ~error /\ ~unregistered
    BY <1>7 DEF NextEvent, environment
  <2>2. mode = "registered_operation" => client # None
    BY <1>t, <2>1 DEF Places
  <2> QED
    BY <2>1, <2>2 DEF Following, Sending
<1>8. CASE Leave
  <2>1. mode = "registered_operation"
    BY <1>t, <1>8 DEF Leave, Places, TypeOK, Modes
  <2> QED
    BY <1>8, <2>1 DEF Leave, EnterMode, Following, environment
<1>9. CASE HeartbeatReply
  <2>1. mode = "registered_operation"
    BY <1>t, <1>9 DEF HeartbeatReply, Beating, Places, TypeOK, Modes, None
  <2>2. /\ UNCHANGED <<registry, stale, mode, client, error, request, pc>>
        /\ unregistered' => unregistered \/ registry[Node] = Null
        /\ unregistered => unregistered'
        /\ registered' => registered \/ registry[Node] # Null
    BY <1>t, <1>9 DEF HeartbeatReply, environment, TypeOK
  <2> QED
    BY <2>1, <2>2 DEF Following, Sending
<1>10. CASE HeartbeatError
  <2>1. mode = "registered_operation"
    BY <1>t, <1>10 DEF HeartbeatError, Beating, Places, TypeOK, Modes, None
  <2> QED
    BY <1>10, <2>1 DEF HeartbeatError, Following, Sending
<1>11. CASE HeartbeatDue \/ HeartbeatCancelled \/ UNCHANGED vars
  BY <1>11 DEF HeartbeatDue, HeartbeatCancelled, vars, environment, locals, Following, Sending
<1> QED
  BY <1>1, <1>2, <1>3, <1>4, <1>5, <1>6, <1>7, <1>8, <1>9, <1>10, <1>11 DEF Still

\* Everything, for a registry that knows nothing
LEMMA EverythingFollows ==
    ASSUME TypeOK, Families
    PROVE  FromNodeAdded(AddedEvents) = AddedEvents /\ Consistent(Empty, AddedEvents, 2)
<1> DEFINE q == AddedEvents
<1>1. own \in [Resource -> Data]
  BY DEF TypeOK
<1>2. /\ q \in Seq(Event)
      /\ \A i \in DOMAIN q : /\ q[i].pre = Null /\ q[i].post = own[q[i].res]
                             /\ q[i].res \in Resource /\ own[q[i].res] # Null
      /\ \A r \in Resource : own[r] # Null => \E i \in DOMAIN q : q[i].res = r
      /\ \A i, j \in DOMAIN q : q[i].res = q[j].res => i = j
      /\ own[Node] # Null => q # <<>> /\ NodeAdded(q[1])
  BY <1>1, AddedFacts
<1> HIDE DEF q
<1>3. DOMAIN q = 1..Len(q) /\ Len(q) \in Nat
  BY <1>2, LenProperties
<1>4. own[Node] = Null => q = <<>>
  <2> SUFFICES ASSUME own[Node] = Null, q # <<>>
               PROVE  FALSE
    OBVIOUS
  <2>1. 1 \in DOMAIN q
    BY <1>2, <1>3, EmptySeq
  <2> QED
    BY <1>2, <2>1 DEF Families, Resource
<1>5. FromNodeAdded(q) = q
  BY <1>2, <1>4, FromFacts
<1>6. Follows(own, Empty, q)
  <2> SUFFICES ASSUME NEW r \in Resource
               PROVE  \/ own[r] = Empty[r] /\ \A i \in DOMAIN q : q[i].res # r
                      \/ \E i \in DOMAIN q : /\ q[i].res = r /\ q[i].post = own[r]
                                             /\ \A j \in DOMAIN q : j > i => q[j].res # r
    BY DEF Follows
  <2>1. CASE own[r] = Null
    BY <1>2, <2>1 DEF Empty
  <2>2. CASE own[r] # Null
    <3>1. PICK i \in DOMAIN q : q[i].res = r
      BY <1>2, <2>2
    <3>2. \A j \in DOMAIN q : j > i => q[j].res # r
      BY <1>2, <1>3, <3>1
    <3> QED
      BY <1>2, <3>1, <3>2
  <2> QED
    BY <2>1, <2>2
<1>7. Ordered(Empty, q)
  BY <1>2 DEF Ordered, NodeRemoved, Removed
<1>8. Readded(q, 2)
  <2> SUFFICES ASSUME NEW k \in 2..Len(q), NodeAdded(q[k])
               PROVE  FALSE
    BY DEF Readded
  <2>1. k \in DOMAIN q /\ 1 \in DOMAIN q /\ q[k].res = Node /\ k # 1
    BY <1>3 DEF NodeAdded
  <2>2. own[Node] # Null
    BY <1>2, <2>1
  <2>3. q[1].res = Node
    BY <1>2, <2>2 DEF NodeAdded
  <2> QED
    BY <1>2, <2>1, <2>3
<1> QED
  BY <1>5, <1>6, <1>7, <1>8 DEF Consistent, q

LEMMA KeptStep ==
    ASSUME Inv, [Next]_vars
    PROVE  Kept' /\ Begun'
<1> USE ParameterAssumption
<1>t. ControlInv /\ TypeOK /\ Families /\ Places /\ Requests /\ Kept /\ Begun
  BY DEF Inv, ControlInv
<1>q. Queue \in Seq(Event) /\ Len(Queue) \in Nat /\ DOMAIN Queue = 1..Len(Queue)
      /\ (Queue # <<>> => 1 \in DOMAIN Queue /\ Queue[1] \in Event)
  <2>1. Queue \in Seq(Event)
    BY <1>t, QueueFacts DEF TypeOK, Queue
  <2> QED
    BY <2>1, LenProperties, EmptySeq, ElementOfSeq
<1>k. own \in [Resource -> Data] /\ registry \in [Resource -> Data] /\ Empty \in [Resource -> Data]
  BY <1>t DEF TypeOK, Empty, Data
<1>e. Empty' = Empty
  BY DEF Empty
<1>1. ASSUME Still, ~Lose, ~RequestError, ~RequestCancelled
      PROVE  Kept' /\ Begun'
  <2>1. Queue' = Queue /\ own' = own
    BY <1>t, <1>1, QueueKept
  <2>2. /\ registry' = registry /\ stale' = stale
        /\ Following' => Following
        /\ mode' = "registered_operation" /\ Sending' =>
             (mode = "registered_operation" /\ Sending) \/ registry[Node] # Null
        /\ mode' = "initial_registration" /\ client' # None /\ ~error' /\ ~registered' =>
             mode = "initial_registration" /\ client # None /\ ~error /\ ~registered
    BY <1>t, <1>1, ThreadKept
  <2>3. Kept'
    <3> SUFFICES ASSUME ~stale', Following'
                 PROVE  /\ Follows(own', registry', Queue') /\ Ordered(registry', Queue')
                        /\ registry'[Node] # Null => Readded(Queue', 1)
                        /\ mode' = "registered_operation" /\ Sending' => Linked'
      BY DEF Kept, Follows, Ordered, Readded, NodeAdded, NodeRemoved, Added, Removed
    <3>1. ~stale /\ Following
      BY <2>2
    <3>2. mode' = "registered_operation" /\ Sending' => Linked
      BY <1>t, <2>2, <3>1 DEF Kept, Linked
    <3>3. Linked' <=> Linked
      BY <2>1, <2>2 DEF Linked, NodeRemoved, Removed
    <3> QED
      BY <1>t, <2>1, <2>2, <3>1, <3>2, <3>3 DEF Kept
  <2>4. Begun'
    BY <1>t, <1>e, <2>1, <2>2 DEF Begun, Consistent, Follows, Ordered, Readded, NodeAdded, NodeRemoved, Added, Removed
  <2> QED
    BY <2>3, <2>4
<1>2. CASE Lose
  BY <1>2 DEF Lose, Kept, Begun
<1>3. CASE Advertise
  BY <1>3 DEF Advertise, Kept, Begun, Following, locals
<1>4. ASSUME NEW r \in Resource, NEW v \in Data, Change(r, v)
      PROVE  Kept' /\ Begun'
  <2> DEFINE e == [res |-> r, pre |-> own[r], post |-> v]
  <2>1. e \in Event /\ e.res = r /\ e.pre = own[r] /\ e.post = v /\ e.pre # e.post
    BY <1>t, <1>4, QueueExtended DEF Change
  <2>2. Queue' = Append(Queue, e)
    BY <1>t, <1>4, QueueExtended
  <2>3. /\ UNCHANGED <<registry, stale, mode, pc, client, error, registered, unregistered, request>>
        /\ own' = [own EXCEPT ![r] = v]
        /\ r # Node => own[Node] # Null
        /\ r = Node /\ own[r] # Null /\ v = Null => \A d \in Device : own[d] = Null
    BY <1>4 DEF Change, locals
  <2> HIDE DEF e
  <2>4. (NodeAdded(e) => own[Node] = Null) /\ (NodeRemoved(e) => \A d \in Device : own[d] = Null)
    BY <2>1, <2>3 DEF NodeAdded, Added, NodeRemoved, Removed
  <2>5. Queue' # <<>> /\ Queue'[1] = IF Queue = <<>> THEN e ELSE Queue[1]
    <3>1. /\ Append(Queue, e) # <<>> /\ Append(Queue, e)[Len(Queue) + 1] = e
          /\ \A i \in 1..Len(Queue) : Append(Queue, e)[i] = Queue[i]
      BY <1>q, <2>1, AppendProperties
    <3>2. Queue = <<>> => Len(Queue) + 1 = 1
      BY EmptySeq
    <3> QED
      BY <1>q, <2>2, <3>1, <3>2
  <2>6. Kept'
    <3> SUFFICES ASSUME ~stale', Following'
                 PROVE  /\ Follows(own', registry', Queue') /\ Ordered(registry', Queue')
                        /\ registry'[Node] # Null => Readded(Queue', 1)
                        /\ mode' = "registered_operation" /\ Sending' => Linked'
      BY DEF Kept, Follows, Ordered, Readded, NodeAdded, NodeRemoved, Added, Removed
    <3>1. /\ Follows(own, registry, Queue) /\ Ordered(registry, Queue)
          /\ registry[Node] # Null => Readded(Queue, 1)
          /\ mode = "registered_operation" /\ Sending => Linked
      BY <1>t, <2>3 DEF Kept, Following
    <3>2. Follows(own', registry, Queue')
      BY <1>k, <1>q, <2>1, <2>2, <2>3, <3>1, FollowsAppend
    <3>3. Ordered(registry, Queue')
      BY <1>k, <1>q, <2>1, <2>2, <2>4, <3>1, OrderedAppend
    <3>4. registry[Node] # Null => Readded(Queue', 1)
      BY <1>k, <1>q, <2>1, <2>2, <2>4, <3>1, ReaddedAppend
    <3>5. mode' = "registered_operation" /\ Sending' => Linked'
      BY <2>3, <2>5, <3>1 DEF Linked, Sending, NodeRemoved, Removed
    <3> QED
      BY <2>3, <3>2, <3>3, <3>4, <3>5
  <2>7. Begun'
    <3> SUFFICES ASSUME ~stale', mode' = "initial_registration", client' # None, ~error', ~registered'
                 PROVE  /\ Queue' # <<>> => NodeAdded(Queue'[1])
                        /\ Follows(own', Empty, Queue') /\ Ordered(Empty, Queue') /\ Readded(Queue', 2)
      BY <1>e DEF Begun, Consistent, Follows, Ordered, Readded, NodeAdded, NodeRemoved, Added, Removed
    <3>1. /\ Queue # <<>> => NodeAdded(Queue[1])
          /\ Follows(own, Empty, Queue) /\ Ordered(Empty, Queue) /\ Readded(Queue, 2)
      BY <1>t, <2>3 DEF Begun, Consistent
    <3>2. Follows(own', Empty, Queue')
      BY <1>k, <1>q, <2>1, <2>2, <2>3, <3>1, FollowsAppend
    <3>3. Ordered(Empty, Queue')
      BY <1>k, <1>q, <2>1, <2>2, <2>4, <3>1, OrderedAppend
    <3>4. Readded(Queue', 2)
      <4>1. Queue # <<>> => Queue[1].pre # Queue[1].post
        BY <1>t, <1>q DEF Requests
      <4> QED
        BY <1>k, <1>q, <2>1, <2>2, <2>4, <3>1, <4>1, ReaddedAppend
    <3>5. Queue = <<>> => NodeAdded(e)
      <4> SUFFICES ASSUME Queue = <<>>
                   PROVE  NodeAdded(e)
        OBVIOUS
      <4>1. DOMAIN Queue = {}
        BY <1>q, EmptySeq
      <4>2. \A x \in Resource : own[x] = Null
        BY <3>1, <4>1 DEF Follows, Empty
      <4> QED
        BY <2>1, <2>3, <4>2 DEF NodeAdded, Added, Resource
    <3> QED
      BY <2>5, <3>1, <3>2, <3>3, <3>4, <3>5
  <2> QED
    BY <2>6, <2>7
<1>5. CASE InitialRegistration
  <2>1. /\ own' = own /\ registry' = registry
        /\ Selected \in Seq(Event) /\ (Selected # <<>> => NodeAdded(Selected[1]))
        /\ \/ Queue' = Queue /\ request' = Idle /\ client' = None
              /\ stale' = stale /\ mode' \in {"initial_discovery", "registered_operation"}
              /\ (mode' = "registered_operation" => registered)
           \/ Queue' = Selected /\ ~registered /\ ~registered' /\ mode' = mode
              /\ stale' = (IF client = None \/ error THEN FALSE ELSE stale)
    BY <1>t, <1>5, QueueSelected
  <2>2. mode = "initial_registration"
    BY <1>5 DEF InitialRegistration
  <2>3. CASE /\ Queue' = Queue /\ request' = Idle /\ client' = None
             /\ stale' = stale /\ mode' \in {"initial_discovery", "registered_operation"}
             /\ mode' = "registered_operation" => registered
    <3>1. Begun'
      BY <2>3 DEF Begun
    <3>2. ~Sending'
      BY <2>3 DEF Sending
    <3>3. Following' => Following
      BY <2>2, <2>3 DEF Following
    <3>4. Kept'
      BY <1>t, <2>1, <2>3, <3>2, <3>3 DEF Kept, Follows, Ordered, Readded, NodeAdded, NodeRemoved, Added, Removed
    <3> QED
      BY <3>1, <3>4
  <2>4. CASE /\ Queue' = Selected /\ ~registered /\ ~registered' /\ mode' = mode
             /\ stale' = (IF client = None \/ error THEN FALSE ELSE stale)
    <3>1. Kept'
      BY <2>2, <2>4 DEF Kept, Following
    <3>2. ~stale' => Consistent(Empty, Selected, 2)
      <4>1. CASE client = None \/ error
        BY <1>t, <4>1, EverythingFollows DEF Selected
      <4>2. CASE ~(client = None \/ error) /\ ~stale
        <5>1. Consistent(Empty, Queue, 2) /\ (Queue # <<>> => NodeAdded(Queue[1]))
          BY <1>t, <2>2, <2>4, <4>2 DEF Begun
        <5>2. Selected = FromNodeAdded(Queue)
          BY <4>2 DEF Selected
        <5> QED
          BY <1>q, <5>1, <5>2, FromFacts
      <4> QED
        BY <2>4, <4>1, <4>2
    <3>3. Begun'
      BY <1>e, <2>1, <2>4, <3>2 DEF Begun, Consistent, Follows, Ordered, Readded, NodeAdded, NodeRemoved, Added, Removed
    <3> QED
      BY <3>1, <3>3
  <2> QED
    BY <2>1, <2>3, <2>4
<1>6. CASE RequestError \/ RequestCancelled
  <2>1. /\ request # Idle /\ request' = Idle /\ error' = TRUE /\ registry' \in {registry, Effect(request)}
        /\ UNCHANGED <<stale, mode, registered>>
    BY <1>6 DEF RequestError, RequestCancelled, RequestFails
  <2>2. Queue' = Queue /\ own' = own
    BY <1>t, <1>6, QueueKept DEF Still
  <2>3. Begun'
    BY <2>1 DEF Begun
  <2>4. Kept'
    <3> SUFFICES ASSUME ~stale', Following'
                 PROVE  /\ Follows(own', registry', Queue') /\ Ordered(registry', Queue')
                        /\ registry'[Node] # Null => Readded(Queue', 1)
      BY <2>1 DEF Kept, Sending, Follows, Ordered, Readded, NodeAdded, NodeRemoved, Added, Removed
    <3>1. mode = "registered_operation" /\ ~stale
      BY <1>t, <2>1 DEF Following, Places
    <3>2. /\ Follows(own, registry, Queue) /\ Ordered(registry, Queue)
          /\ registry[Node] # Null => Readded(Queue, 1)
      BY <1>t, <3>1 DEF Kept, Following
    <3>3. CASE registry' = registry
      BY <2>2, <3>2, <3>3
    <3>4. CASE registry' = Effect(request)
      <4>1. /\ Queue # <<>> /\ registry' \in [Resource -> Data]
            /\ \A x \in Resource : x # Queue[1].res => registry'[x] = registry[x]
            /\ registry'[Node] # Null => Readded(Queue, 1)
        BY <1>t, <2>1, <3>1, <3>4, EffectKept
      <4>2. Follows(own, registry', Queue)
        BY <1>k, <1>q, <3>2, <4>1, FollowsKnown
      <4>3. Ordered(registry', Queue)
        BY <1>k, <1>q, <3>2, <4>1, OrderedKnown
      <4> QED
        BY <2>2, <4>1, <4>2, <4>3
    <3> QED
      BY <2>1, <3>3, <3>4
  <2> QED
    BY <2>3, <2>4
<1>7. CASE Reply
  <2> DEFINE e == Queue[1]
  <2>1. /\ request # Idle /\ registry' = Effect(request)
        /\ stale' = (stale \/ (request.phase # "delete" /\ PostStatus(e) = 400))
        /\ UNCHANGED <<own, grain, mode, pc, client, error>>
        /\ request.event = e /\ Queue # <<>>
    BY <1>t, <1>7 DEF Reply, Requests
  <2>2. request \in [phase : Phases, event : Event] /\ e.res \in Resource /\ e \in Event
    BY <1>t, <2>1, EffectType
  <2>3. \/ /\ Added(e) \/ ~Removed(e)
           /\ request' # Idle /\ Queue' = Queue /\ UNCHANGED <<registered, unregistered>>
        \/ /\ request.phase = "post" => ~(Added(e) /\ PostStatus(e) = 200)
           /\ request.phase = "delete" => Removed(e)
           /\ Finish(e)
    <3>1. \A x \in {"delete", "repost"} : [request EXCEPT !.phase = x] # Idle
      BY <2>2 DEF Idle, None
    <3>2. UNCHANGED events => Queue' = Queue
      BY <2>1 DEF Queue
    <3> QED
      BY <1>7, <2>1, <3>1, <3>2 DEF Reply
  <2>4. Finish(e) => /\ request' = Idle /\ Queue' = IF events = <<>> THEN Queue ELSE Tail(Queue)
                     /\ registered' = (registered \/ mode = "initial_registration")
                     /\ unregistered' = (unregistered \/ (mode = "registered_operation" /\ NodeRemoved(e)))
    BY <1>t, <2>1, QueueConsumed DEF Finish, NodeRemoved
  <2> HIDE DEF e
  <2>5. ASSUME mode = "registered_operation"
        PROVE  Kept' /\ Begun'
    <3>1. Begun'
      BY <2>1, <2>5 DEF Begun
    <3> SUFFICES ASSUME ~stale'
                 PROVE  /\ Follows(own', registry', Queue') /\ Ordered(registry', Queue')
                        /\ registry'[Node] # Null => Readded(Queue', 1)
                        /\ Sending' => Linked'
      BY <3>1 DEF Kept, Follows, Ordered, Readded, NodeAdded, NodeRemoved, Added, Removed
    <3>2. ~stale /\ (request.phase # "delete" => PostStatus(e) # 400)
      BY <2>1
    <3>3. /\ Follows(own, registry, Queue) /\ Ordered(registry, Queue)
      BY <1>t, <2>5, <3>2 DEF Kept, Following
    <3>4. /\ registry' \in [Resource -> Data]
          /\ \A x \in Resource : x # e.res => registry'[x] = registry[x]
          /\ registry'[Node] # Null => Readded(Queue, 1)
          /\ request.phase = "delete" => registry'[e.res] = Null
          /\ request.phase # "delete" => registry'[e.res] = e.post
          /\ ~NodeRemoved(e) => registry'[Node] # Null
      BY <1>t, <2>1, <2>5, <3>2, EffectKept DEF e
    <3>5. Follows(own, registry', Queue) /\ (registry'[e.res] = e.post => Follows(own, registry', Tail(Queue)))
      BY <1>k, <1>q, <2>1, <3>3, <3>4, FollowsKnown DEF e
    <3>6. Ordered(registry', Queue) /\ (registry'[e.res] = e.post => Ordered(registry', Tail(Queue)))
      BY <1>k, <1>q, <2>1, <3>3, <3>4, OrderedKnown DEF e
    <3>7. CASE (Added(e) \/ ~Removed(e)) /\ request' # Idle /\ Queue' = Queue
      <4>1. ~NodeRemoved(e)
        <5>1. e.pre # e.post
          BY <1>t, <1>q, <2>1 DEF Requests, e
        <5> QED
          BY <3>7, <5>1 DEF NodeRemoved, Added, Removed
      <4> QED
        BY <2>1, <3>4, <3>5, <3>6, <3>7, <4>1 DEF Linked
    <3>8. CASE (request.phase = "delete" => Removed(e)) /\ Finish(e)
      <4>1. registry'[e.res] = e.post
        BY <3>4, <3>8 DEF Removed
      <4>2. registry'[Node] # Null => ~NodeRemoved(e)
        BY <2>2, <4>1 DEF NodeRemoved, Removed
      <4>3. registry'[Node] # Null => Readded(Queue', 1)
        <5>1. registry'[Node] # Null => Readded(Queue, 1) /\ Readded(Tail(Queue), 1)
          BY <1>q, <2>1, <3>4, <4>2, ReaddedTail DEF e
        <5> QED
          BY <2>4, <3>8, <5>1
      <4>4. Sending' => Linked'
        BY <2>4, <2>5, <3>4, <3>8 DEF Sending, Linked
      <4>5. Follows(own', registry', Queue') /\ Ordered(registry', Queue')
        BY <2>1, <2>4, <3>5, <3>6, <3>8, <4>1
      <4> QED
        BY <4>3, <4>4, <4>5
    <3> QED
      BY <2>3, <3>7, <3>8
  <2>6. ASSUME mode = "initial_registration"
        PROVE  Kept' /\ Begun'
    <3>1. ~error /\ ~registered /\ client # None /\ events # <<>> /\ NodeAdded(e)
      BY <1>t, <2>1, <2>6 DEF Places, Requests, ControlInv, TasksHaveClient
    <3>2. e.pre # e.post /\ ~Removed(e) /\ e.res = Node /\ e.post # Null /\ Added(e)
      <4>1. e.pre # e.post
        BY <1>t, <1>q, <2>1 DEF Requests, e
      <4> QED
        BY <3>1, <4>1 DEF NodeAdded, Added, Removed
    <3>3. CASE request' # Idle /\ Queue' = Queue /\ UNCHANGED <<registered, unregistered>>
      <4>1. Kept'
        BY <2>1, <2>6, <3>1, <3>3 DEF Kept, Following
      <4>2. Begun'
        <5>1. (~stale' => ~stale) /\ own' = own /\ Queue' = Queue
          BY <2>1, <3>3
        <5>2. ~stale => (Queue # <<>> => NodeAdded(Queue[1])) /\ Consistent(Empty, Queue, 2)
          BY <1>t, <2>6, <3>1 DEF Begun
        <5> QED
          BY <1>e, <5>1, <5>2
          DEF Begun, Consistent, Follows, Ordered, Readded, NodeAdded, NodeRemoved, Added, Removed
      <4> QED
        BY <4>1, <4>2
    <3>4. CASE /\ request.phase = "post" => ~(Added(e) /\ PostStatus(e) = 200)
               /\ request.phase = "delete" => Removed(e)
               /\ Finish(e)
      <4>1. registered' /\ Queue' = Tail(Queue)
        BY <2>4, <2>6, <3>1, <3>4
      <4>2. Begun'
        BY <4>1 DEF Begun
      <4> SUFFICES ASSUME ~stale'
                   PROVE  /\ Follows(own', registry', Queue') /\ Ordered(registry', Queue')
                          /\ Readded(Queue', 1)
        BY <2>1, <2>6, <4>2 DEF Kept, Follows, Ordered, Readded, NodeAdded, NodeRemoved, Added, Removed
      <4>3. Follows(own, Empty, Queue) /\ Ordered(Empty, Queue) /\ Readded(Queue, 2)
        BY <1>t, <2>1, <2>6, <3>1 DEF Begun, Consistent
      <4>4. request.phase \in {"post", "repost"}
        BY <2>2, <3>2, <3>4 DEF Phases
      <4>5. registry = Empty
        <5>1. CASE request.phase = "repost"
          BY <1>t, <2>1, <2>6, <5>1 DEF Requests
        <5>2. CASE request.phase = "post"
          <6>1. registry[Node] = Null
            BY <3>2, <3>4, <5>2 DEF PostStatus
          <6>2. \A x \in Resource : registry[x] = Null
            BY <1>t, <6>1 DEF Families, Resource
          <6> QED
            BY <1>k, <6>2 DEF Empty
        <5> QED
          BY <4>4, <5>1, <5>2
      <4>6. registry' = [registry EXCEPT ![e.res] = e.post]
        <5>1. PostStatus(e) # 400
          BY <3>2 DEF PostStatus
        <5> QED
          BY <2>1, <4>4, <5>1 DEF Effect, Posted
      <4>7. /\ registry' \in [Resource -> Data] /\ registry'[e.res] = e.post
            /\ \A x \in Resource : x # e.res => registry'[x] = Empty[x]
        BY <1>k, <2>2, <4>5, <4>6 DEF Event
      <4>8. Follows(own, registry', Tail(Queue))
        BY <1>k, <1>q, <2>1, <4>3, <4>7, FollowsKnown DEF e
      <4>9. Ordered(registry', Tail(Queue))
        BY <1>k, <1>q, <2>1, <4>3, <4>7, OrderedKnown DEF e
      <4>10. Readded(Tail(Queue), 1)
        BY <1>q, <2>1, <4>3, ReaddedTail
      <4> QED
        BY <2>1, <4>1, <4>8, <4>9, <4>10
    <3> QED
      BY <2>3, <3>3, <3>4
  <2>7. mode \in {"registered_operation", "initial_registration"}
    BY <1>t, <2>1 DEF Places, TypeOK, Modes
  <2> QED
    BY <2>5, <2>6, <2>7
<1>8. Still \/ Advertise \/ InitialRegistration \/ Reply \/ \E r \in Resource, v \in Data : Change(r, v)
  BY DEF Next, Thread, Tasks, Still
<1> QED
  BY <1>1, <1>2, <1>3, <1>4, <1>5, <1>6, <1>7, <1>8

LEMMA InvInit ==
    ASSUME Init
    PROVE  Inv
BY ControlInit DEF Inv, Init, Kept, Begun, Following

LEMMA InvStep ==
    ASSUME Inv, [Next]_vars
    PROVE  Inv'
BY ControlStep, KeptStep DEF Inv

\* No change of the node's resources is lost or sent in the wrong order, when requests
\* fail, replies are lost and services are changed: what is still to be sent makes the
\* registry equal to the node, if the registry has not itself lost or refused something.
THEOREM NothingForgottenHolds == Spec => []NothingForgotten
<1>1. Init => Inv
  BY InvInit
<1>2. Inv /\ [Next]_vars => Inv'
  BY InvStep
<1>3. Inv => NothingForgotten
  BY DEF Inv, Kept, Following, NothingForgotten, Queue
<1> QED
  BY <1>1, <1>2, <1>3, PTL DEF Spec

=============================================================================
