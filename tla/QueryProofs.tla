---------------------------- MODULE QueryProofs ----------------------------
(***************************************************************************)
(* The safety of the Query API: of QueryWs, for every set of resources,    *)
(* subscriptions and connections, every matching of subscriptions and size *)
(* of messages; and of Paging, for every set of resources, query, limits   *)
(* and number of changes.                                                  *)
(***************************************************************************)
EXTENDS QueryWs, SequenceTheorems, DataFacts, TLAPS

-----------------------------------------------------------------------------
(* The inductive invariant *)

\* What a client has still to be told
Queue(c) == outbox[c] \o events[c]

\* Before the open handler a connection has nothing.
Unopened ==
    \A c \in Conn : link[c] \in {"idle", "validated"} =>
        /\ grain[c] = "none" /\ c \notin websockets
        /\ \A s \in Subscription : c \notin grains[s]
        /\ outbox[c] = <<>> /\ events[c] = <<>> /\ view[c] = Nothing

\* Messages are only prepared when the last ones have been sent.
SentAll == sender # "sending" => \A c \in Conn : outbox[c] = <<>>

\* An extant subscription's grains are those of its connections.
Members ==
    \A s \in Subscription :
        /\ subscription[s] = "absent" => grains[s] = {}
        /\ \A c \in grains[s] : flow[c] = s /\ (subscription[s] = "extant" => grain[c] = "extant")

Grains ==
    \A c \in Conn : grain[c] = "extant" =>
        subscription[flow[c]] = "extant" /\ c \in grains[flow[c]] /\ c \in websockets

\* Which subscriptions never expire
Health ==
    \A s \in Subscription :
        /\ subscription[s] = "absent" => s \notin forever
        /\ subscription[s] = "extant" =>
            IF s \in Persistent THEN s \in forever
            ELSE s \in forever <=> \E c \in Conn : grain[c] = "extant" /\ flow[c] = s

\* The events of a queue, each following from what was known before it
Chained(known, queue) ==
    \A i \in DOMAIN queue :
        LET before == Apply(known, SubSeq(queue, 1, i - 1))[queue[i].res] IN
        queue[i].pre = before \/ (before = Null /\ queue[i].pre = queue[i].post)

Fed(c) == Apply(view[c], Queue(c)) = Projection(flow[c]) /\ Chained(view[c], Queue(c))

Feeds == \A c \in Conn : Served(c) => Fed(c)

Structure == TypeOK /\ Unopened /\ SentAll /\ Members /\ Grains /\ Health

Inv == Structure /\ Feeds

-----------------------------------------------------------------------------
(* What a client knows *)

\* Apply(known, queue), said of each resource
Knows(data, known, queue) ==
    \A r \in Resource :
        \/ data[r] = known[r] /\ \A i \in DOMAIN queue : queue[i].res # r
        \/ \E i \in DOMAIN queue : /\ queue[i].res = r /\ queue[i].post = data[r]
                                   /\ \A j \in DOMAIN queue : j > i => queue[j].res # r

LEMMA ApplyKnows ==
    ASSUME NEW known \in [Resource -> Data], NEW q \in Seq(Event)
    PROVE  /\ Apply(known, q) \in [Resource -> Data]
           /\ Knows(Apply(known, q), known, q)
           /\ \A data \in [Resource -> Data] : Knows(data, known, q) => data = Apply(known, q)
<1>1. DOMAIN q = 1..Len(q) /\ Len(q) \in Nat /\ \A i \in 1..Len(q) : q[i] \in Event
  BY LenProperties, ElementOfSeq
<1> DEFINE last(r, i) == q[i].res = r /\ \A j \in DOMAIN q : j > i => q[j].res # r
<1>2. ASSUME NEW r \in Resource, \E i \in DOMAIN q : q[i].res = r
      PROVE  LastAbout(r, q) \in DOMAIN q /\ last(r, LastAbout(r, q))
  <2> DEFINE S == {i \in DOMAIN q : q[i].res = r}
  <2>1. S \in SUBSET (0..Len(q)) /\ S # {}
    BY <1>1, <1>2
  <2>2. PICK m \in S : \A i \in S : i <= m
    BY <1>1, <2>1, NatMax
  <2>3. m \in DOMAIN q /\ last(r, m)
    BY <1>1, <2>1, <2>2
  <2> QED
    BY <2>3 DEF LastAbout
<1>3. ASSUME NEW r \in Resource
      PROVE  /\ Apply(known, q)[r] \in Data
             /\ \/ Apply(known, q)[r] = known[r] /\ \A i \in DOMAIN q : q[i].res # r
                \/ \E i \in DOMAIN q : last(r, i) /\ q[i].post = Apply(known, q)[r]
  BY <1>1, <1>2 DEF Apply, Event
<1>4. Knows(Apply(known, q), known, q)
  <2> SUFFICES ASSUME NEW r \in Resource
               PROVE  \/ Apply(known, q)[r] = known[r] /\ \A i \in DOMAIN q : q[i].res # r
                      \/ \E i \in DOMAIN q : last(r, i) /\ q[i].post = Apply(known, q)[r]
    BY DEF Knows
  <2> QED
    BY <1>3
<1>5. Apply(known, q) \in [Resource -> Data]
  <2>1. Apply(known, q) = [r \in Resource |-> Apply(known, q)[r]]
    BY DEF Apply
  <2> QED
    BY <1>3, <2>1
<1>6. ASSUME NEW data \in [Resource -> Data], Knows(data, known, q)
      PROVE  data = Apply(known, q)
  <2>1. ASSUME NEW r \in Resource
        PROVE  data[r] = Apply(known, q)[r]
    <3>1. \/ data[r] = known[r] /\ \A i \in DOMAIN q : q[i].res # r
          \/ \E i \in DOMAIN q : last(r, i) /\ q[i].post = data[r]
      BY <1>6 DEF Knows
    <3>2. \A i, j \in DOMAIN q : last(r, i) /\ last(r, j) => i = j
      BY <1>1
    <3> QED
      BY <1>3, <3>1, <3>2
  <2> QED
    BY <1>5, <2>1
<1> QED
  BY <1>4, <1>5, <1>6

\* Nothing, one more event, and two queues one after the other
LEMMA ApplyFacts ==
    ASSUME NEW known \in [Resource -> Data], NEW q \in Seq(Event)
    PROVE  /\ Apply(known, <<>>) = known
           /\ \A e \in Event : Apply(known, Append(q, e)) = [Apply(known, q) EXCEPT ![e.res] = e.post]
           /\ \A p \in Seq(Event) : Apply(known, p \o q) = Apply(Apply(known, p), q)
<1>1. DOMAIN q = 1..Len(q) /\ Len(q) \in Nat
  BY LenProperties
<1>2. Apply(known, <<>>) = known
  <2>1. Knows(known, known, <<>>) /\ <<>> \in Seq(Event)
    BY EmptySeq DEF Knows
  <2> QED
    BY <2>1, ApplyKnows
<1>3. ASSUME NEW e \in Event
      PROVE  Apply(known, Append(q, e)) = [Apply(known, q) EXCEPT ![e.res] = e.post]
  <2> DEFINE data == Apply(known, q)
             data2 == [data EXCEPT ![e.res] = e.post]
             q2 == Append(q, e)
  <2>1. /\ q2 \in Seq(Event) /\ DOMAIN q2 = 1..(Len(q) + 1)
        /\ \A i \in 1..Len(q) : q2[i] = q[i]
        /\ q2[Len(q) + 1] = e
    BY AppendProperties, LenProperties
  <2>2. data \in [Resource -> Data] /\ Knows(data, known, q)
    BY ApplyKnows
  <2>3. e.res \in Resource /\ e.post \in Data
    BY DEF Event
  <2> HIDE DEF q2, data
  <2>4. ASSUME NEW r \in Resource
        PROVE  \/ data2[r] = known[r] /\ \A i \in DOMAIN q2 : q2[i].res # r
               \/ \E i \in DOMAIN q2 : /\ q2[i].res = r /\ q2[i].post = data2[r]
                                       /\ \A j \in DOMAIN q2 : j > i => q2[j].res # r
    <3>1. CASE r = e.res
      <4>1. Len(q) + 1 \in DOMAIN q2 /\ q2[Len(q) + 1].res = r /\ q2[Len(q) + 1].post = data2[r]
            /\ \A j \in DOMAIN q2 : ~(j > Len(q) + 1)
        BY <1>1, <2>1, <2>2, <2>3, <3>1
      <4> QED
        BY <4>1
    <3>2. CASE r # e.res
      <4>1. data2[r] = data[r]
        BY <2>2, <3>2
      <4>2. \A i \in DOMAIN q2 : (i \in DOMAIN q /\ q2[i] = q[i]) \/ q2[i].res # r
        BY <1>1, <2>1, <3>2
      <4>3. CASE data[r] = known[r] /\ \A i \in DOMAIN q : q[i].res # r
        BY <4>1, <4>2, <4>3
      <4>4. CASE \E i \in DOMAIN q : /\ q[i].res = r /\ q[i].post = data[r]
                                     /\ \A j \in DOMAIN q : j > i => q[j].res # r
        <5>1. PICK i \in DOMAIN q : /\ q[i].res = r /\ q[i].post = data[r]
                                    /\ \A j \in DOMAIN q : j > i => q[j].res # r
          BY <4>4
        <5>2. i \in DOMAIN q2 /\ q2[i] = q[i]
          BY <1>1, <2>1
        <5> QED
          BY <4>1, <4>2, <5>1, <5>2
      <4> QED
        BY <2>2, <4>3, <4>4 DEF Knows
    <3> QED
      BY <3>1, <3>2
  <2>5. Knows(data2, known, q2)
    BY <2>4 DEF Knows
  <2>6. data2 \in [Resource -> Data]
    BY <2>2, <2>3
  <2> QED
    BY <2>1, <2>5, <2>6, ApplyKnows DEF q2, data
<1>4. ASSUME NEW p \in Seq(Event)
      PROVE  Apply(known, p \o q) = Apply(Apply(known, p), q)
  <2> DEFINE mid == Apply(known, p)
             data == Apply(mid, q)
             pq == p \o q
  <2>1. /\ pq \in Seq(Event) /\ DOMAIN pq = 1..(Len(p) + Len(q)) /\ Len(p) \in Nat /\ DOMAIN p = 1..Len(p)
        /\ \A i \in 1..(Len(p) + Len(q)) : pq[i] = IF i <= Len(p) THEN p[i] ELSE q[i - Len(p)]
    BY ConcatProperties, LenProperties
  <2>2. mid \in [Resource -> Data] /\ Knows(mid, known, p)
    BY ApplyKnows
  <2>3. data \in [Resource -> Data] /\ Knows(data, mid, q)
    BY <2>2, ApplyKnows
  <2> HIDE DEF pq, mid, data
  <2>4. \A i \in DOMAIN pq : \/ i \in DOMAIN p /\ pq[i] = p[i]
                             \/ i > Len(p) /\ i - Len(p) \in DOMAIN q /\ pq[i] = q[i - Len(p)]
    BY <1>1, <2>1
  <2>5. (\A i \in DOMAIN p : i \in DOMAIN pq /\ pq[i] = p[i] /\ i <= Len(p))
        /\ \A i \in DOMAIN q : i + Len(p) \in DOMAIN pq /\ pq[i + Len(p)] = q[i]
    <3>1. \A i \in DOMAIN q : i + Len(p) \in 1..(Len(p) + Len(q)) /\ ~(i + Len(p) <= Len(p))
                              /\ (i + Len(p)) - Len(p) = i
      BY <1>1, <2>1
    <3> QED
      BY <1>1, <2>1, <3>1
  <2>6. ASSUME NEW r \in Resource
        PROVE  \/ data[r] = known[r] /\ \A i \in DOMAIN pq : pq[i].res # r
               \/ \E i \in DOMAIN pq : /\ pq[i].res = r /\ pq[i].post = data[r]
                                       /\ \A j \in DOMAIN pq : j > i => pq[j].res # r
    <3>1. CASE data[r] = mid[r] /\ \A i \in DOMAIN q : q[i].res # r
      <4>1. CASE mid[r] = known[r] /\ \A i \in DOMAIN p : p[i].res # r
        BY <2>4, <3>1, <4>1
      <4>2. CASE \E i \in DOMAIN p : /\ p[i].res = r /\ p[i].post = mid[r]
                                     /\ \A j \in DOMAIN p : j > i => p[j].res # r
        <5>1. PICK i \in DOMAIN p : /\ p[i].res = r /\ p[i].post = mid[r]
                                    /\ \A j \in DOMAIN p : j > i => p[j].res # r
          BY <4>2
        <5>2. \A j \in DOMAIN pq : j > i => pq[j].res # r
          BY <2>4, <3>1, <5>1
        <5> QED
          BY <2>5, <3>1, <5>1, <5>2
      <4> QED
        BY <2>2, <4>1, <4>2 DEF Knows
    <3>2. CASE \E i \in DOMAIN q : /\ q[i].res = r /\ q[i].post = data[r]
                                   /\ \A j \in DOMAIN q : j > i => q[j].res # r
      <4>1. PICK i \in DOMAIN q : /\ q[i].res = r /\ q[i].post = data[r]
                                  /\ \A j \in DOMAIN q : j > i => q[j].res # r
        BY <3>2
      <4>2. \A j \in DOMAIN pq : j > i + Len(p) => j - Len(p) > i /\ j > Len(p)
        BY <1>1, <2>1
      <4>3. \A j \in DOMAIN pq : j > i + Len(p) => pq[j].res # r
        BY <2>1, <2>4, <4>1, <4>2
      <4> QED
        BY <2>5, <4>1, <4>3
    <3> QED
      BY <2>3, <3>1, <3>2 DEF Knows
  <2>7. Knows(data, known, pq)
    BY <2>6 DEF Knows
  <2> QED
    BY <2>1, <2>3, <2>7, ApplyKnows DEF pq, data, mid
<1> QED
  BY <1>2, <1>3, <1>4

-----------------------------------------------------------------------------
(* The operators *)

LEMMA SeenFacts ==
    ASSUME NEW s \in Subscription, NEW v \in Data
    PROVE  Seen(s, v) \in Data /\ (Seen(s, v) # Null => Seen(s, v) = v)
BY DEF Seen, Data

\* The projection of the registry onto a subscription
LEMMA ProjectionFacts ==
    ASSUME TypeOK, NEW s \in Subscription
    PROVE  /\ Projection(s) \in [Resource -> Data]
           /\ \A r \in Resource : Projection(s)[r] = Seen(s, content[r])
BY SeenFacts DEF Projection, TypeOK

LEMMA QueuedFacts ==
    ASSUME TypeOK, NEW r \in Resource, NEW pre \in Data, NEW post \in Data
    PROVE  /\ Queued(r, pre, post) \in [Conn -> Seq(Event)]
           /\ \A c \in Conn :
                LET e == [res |-> r, pre |-> Seen(flow[c], pre), post |-> Seen(flow[c], post)] IN
                /\ e \in Event
                /\ Queued(r, pre, post)[c] = IF c \in Receivers(pre, post) THEN Append(events[c], e) ELSE events[c]
<1>1. ASSUME NEW c \in Conn
      PROVE  [res |-> r, pre |-> Seen(flow[c], pre), post |-> Seen(flow[c], post)] \in Event
  BY SeenFacts DEF TypeOK, Event
<1>2. \A c \in Conn : events[c] \in Seq(Event)
  BY DEF TypeOK
<1> QED
  BY <1>1, <1>2, AppendProperties DEF Queued

\* The initial events of a connection: what its subscription sees, each resource once
LEMMA InitialFacts ==
    ASSUME TypeOK, NEW s \in Subscription
    PROVE  LET matched == {r \in Resource : Projection(s)[r] # Null}
               q == SetToSeq({[res |-> r, pre |-> content[r], post |-> content[r]] : r \in matched})
           IN  /\ q \in Seq(Event)
               /\ \A i \in DOMAIN q : q[i].pre = q[i].post /\ q[i].res \in matched /\ q[i].post = content[q[i].res]
               /\ \A r \in matched : \E i \in DOMAIN q : q[i].res = r
               /\ \A i, j \in DOMAIN q : q[i].res = q[j].res => i = j
<1> DEFINE matched == {r \in Resource : Projection(s)[r] # Null}
           E == {[res |-> r, pre |-> content[r], post |-> content[r]] : r \in matched}
<1>1. IsFiniteSet(matched)
  BY ParameterAssumption, FS_Subset
<1>2. IsFiniteSet(E)
  <2> DEFINE f == [r \in matched |-> [res |-> r, pre |-> content[r], post |-> content[r]]]
  <2>1. f \in Surjection(matched, E)
    BY DEF Surjection
  <2> QED
    BY <1>1, <2>1, FS_Surjection
<1>3. E \subseteq Event
  BY DEF TypeOK, Event
<1>4. \A e \in E : e.pre = e.post /\ e.res \in matched /\ e.post = content[e.res]
                   /\ e = [res |-> e.res, pre |-> content[e.res], post |-> content[e.res]]
  OBVIOUS
<1>5. \A r \in matched : \E e \in E : e.res = r
  <2> TAKE r \in matched
  <2>1. [res |-> r, pre |-> content[r], post |-> content[r]] \in E
    OBVIOUS
  <2> QED
    BY <2>1
<1> HIDE DEF E, matched
<1>6. /\ SetToSeq(E) \in Seq(E)
      /\ \A i \in DOMAIN SetToSeq(E) : SetToSeq(E)[i] \in E
      /\ \A x \in E : \E i \in DOMAIN SetToSeq(E) : SetToSeq(E)[i] = x
      /\ \A i, j \in DOMAIN SetToSeq(E) : SetToSeq(E)[i] = SetToSeq(E)[j] => i = j
  BY <1>2, SetToSeqFacts
<1> DEFINE q == SetToSeq(E)
<1> HIDE DEF q
<1>7. q \in Seq(Event)
  BY <1>3, <1>6, SeqMonotonic DEF q
<1>8. \A i \in DOMAIN q : q[i].pre = q[i].post /\ q[i].res \in matched /\ q[i].post = content[q[i].res]
  BY <1>4, <1>6 DEF q
<1>9. \A r \in matched : \E i \in DOMAIN q : q[i].res = r
  BY <1>5, <1>6 DEF q
<1>10. \A i, j \in DOMAIN q : q[i].res = q[j].res => i = j
  BY <1>4, <1>6 DEF q
<1> QED
  BY <1>7, <1>8, <1>9, <1>10 DEF q, E, matched

\* A message and what is postponed are the events that were waiting.
LEMMA MessageFacts ==
    ASSUME TypeOK, NEW c \in Conn
    PROVE  /\ Message(c) \in Seq(Event) /\ Len(Message(c)) <= Limit
           /\ Postponed(c) \in Seq(Event)
           /\ Message(c) \o Postponed(c) = events[c]
<1> DEFINE n == Len(events[c])
           m == IF Limit < n THEN Limit ELSE n
<1>1. events[c] \in Seq(Event) /\ n \in Nat /\ Limit \in Nat /\ Limit > 0
      /\ \A i \in 1..n : events[c][i] \in Event
  BY ParameterAssumption, LenProperties, ElementOfSeq DEF TypeOK
<1>2. m \in 0..n /\ m <= Limit
  BY <1>1
<1>3. /\ SubSeq(events[c], 1, m) \in Seq(Event)
      /\ Len(SubSeq(events[c], 1, m)) = IF 1 <= m THEN m - 1 + 1 ELSE 0
  BY <1>1, <1>2, SubSeqProperties
<1>4. SubSeq(events[c], Limit + 1, n) \in Seq(Event)
  BY <1>1, SubSeqProperties
<1>5. SubSeq(events[c], 1, m) \o SubSeq(events[c], Limit + 1, n) = events[c]
  <2>1. CASE Limit < n
    <3>1. SubSeq(events[c], 1, Limit) \o SubSeq(events[c], Limit + 1, n) = SubSeq(events[c], 1, n)
      <4>1. 1 \in 1..(Len(events[c]) + 1) /\ Limit \in (1 - 1)..Len(events[c]) /\ n \in Limit..Len(events[c])
        BY <1>1, <2>1
      <4> QED
        BY <1>1, <4>1, ConcatAdjacentSubSeq
    <3> QED
      BY <1>1, <2>1, <3>1, SubSeqFull
  <2>2. CASE ~(Limit < n)
    <3>1. SubSeq(events[c], Limit + 1, n) = <<>>
      BY <1>1, <2>2, SubSeqEmpty
    <3>2. SubSeq(events[c], 1, n) = events[c]
      BY <1>1, SubSeqFull
    <3> QED
      BY <1>1, <2>2, <3>1, <3>2, ConcatEmptySeq
  <2> QED
    BY <2>1, <2>2
<1>6. Message(c) = SubSeq(events[c], 1, m) /\ Postponed(c) = SubSeq(events[c], Limit + 1, n)
  BY DEF Message, Postponed
<1>7. Len(SubSeq(events[c], 1, m)) <= Limit
  BY <1>1, <1>2, <1>3
<1> HIDE DEF m, n
<1> QED
  BY <1>3, <1>4, <1>5, <1>6, <1>7

-----------------------------------------------------------------------------
(* Types *)

LEMMA PassTypes ==
    ASSUME TypeOK, Pass
    PROVE  TypeOK'
<1>1. link' \in [Conn -> {"idle", "validated", "open", "disconnected", "closing", "closed"}]
  BY DEF Pass, TypeOK
<1>2. websockets' \subseteq Conn /\ recent' \subseteq Conn /\ armed' \subseteq Conn /\ fresh' \in BOOLEAN
  BY DEF Pass, TypeOK, NextUpdate, Due, Waiting, Deleted
<1>3. grain' \in [Conn -> {"none", "extant", "erased"}]
  BY DEF Pass, TypeOK
<1>4. view' \in [Conn -> [Resource -> Data]]
  BY DEF Pass, TypeOK, Nothing, Data
<1>5. events' \in [Conn -> Seq(Event)]
  <2>1. \A c \in Conn : Postponed(c) \in Seq(Event) /\ events[c] \in Seq(Event) /\ <<>> \in Seq(Event)
    BY MessageFacts, EmptySeq DEF TypeOK
  <2> QED
    BY <2>1 DEF Pass
<1>6. outbox' \in [Conn -> Seq(Event)] /\ \A c \in Conn : Len(outbox'[c]) <= Limit
  <2>1. \A c \in Conn : Message(c) \in Seq(Event) /\ Len(Message(c)) <= Limit
    BY MessageFacts
  <2>2. <<>> \in Seq(Event) /\ Len(<<>>) <= Limit
    BY ParameterAssumption, EmptySeq
  <2> HIDE DEF Message
  <2>3. outbox' = [c \in Conn |-> IF c \in Due THEN Message(c) ELSE <<>>]
    BY DEF Pass
  <2> QED
    BY <2>1, <2>2, <2>3
<1> QED
  BY <1>1, <1>2, <1>3, <1>4, <1>5, <1>6 DEF Pass, TypeOK

LEMMA TypeStep ==
    ASSUME TypeOK, [Next]_vars
    PROVE  TypeOK'
<1> USE DEF registry, thread
<1>e. <<>> \in Seq(Event)
  BY EmptySeq
<1>1. ASSUME NEW r \in Resource, NEW v \in Data, Change(r, v)
      PROVE  TypeOK'
  <2>1. content[r] \in Data
    BY DEF TypeOK
  <2>2. events' \in [Conn -> Seq(Event)]
    BY <1>1, <2>1, QueuedFacts DEF Change
  <2>3. signalled' \in BOOLEAN
    BY <1>1 DEF Change, Notified, TypeOK
  <2> QED
    BY <1>1, <2>2, <2>3 DEF Change, TypeOK
<1>2. ASSUME NEW r \in Resource, Expire(r)
      PROVE  TypeOK'
  <2>1. content[r] \in Data /\ Null \in Data
    BY DEF TypeOK, Data
  <2>2. events' \in [Conn -> Seq(Event)]
    BY <1>2, <2>1, QueuedFacts DEF Expire
  <2>3. signalled' \in BOOLEAN /\ fresh' \in BOOLEAN
    BY <1>2 DEF Expire, Notified, TypeOK
  <2> QED
    BY <1>2, <2>1, <2>2, <2>3 DEF Expire, TypeOK
<1>3. ASSUME NEW s \in Subscription, ExpireSubscription(s)
      PROVE  TypeOK'
  <2>1. signalled' \in BOOLEAN
    BY <1>3 DEF ExpireSubscription, Notified, TypeOK
  <2> QED
    BY <1>3, <2>1 DEF ExpireSubscription, TypeOK
<1>4. ASSUME NEW s \in Subscription, Subscribe(s)
      PROVE  TypeOK'
  BY <1>4 DEF Subscribe, TypeOK
<1>g. ASSUME NEW gone, EraseGrains(gone)
      PROVE  /\ grain' \in [Conn -> {"none", "extant", "erased"}] /\ events' \in [Conn -> Seq(Event)]
             /\ recent' \subseteq Conn
  BY <1>e, <1>g DEF EraseGrains, TypeOK
<1>5. ASSUME NEW s \in Subscription, Unsubscribe(s)
      PROVE  TypeOK'
  BY <1>5, <1>g DEF Unsubscribe, TypeOK
<1>6. ASSUME NEW c \in Conn, NEW s \in Subscription, Validate(c, s)
      PROVE  TypeOK'
  BY <1>6 DEF Validate, TypeOK
<1>7. ASSUME NEW c \in Conn, Open(c)
      PROVE  TypeOK'
  <2> DEFINE q == SetToSeq({[res |-> r, pre |-> content[r], post |-> content[r]] :
                            r \in {r \in Resource : Projection(flow[c])[r] # Null}})
  <2>1. flow[c] \in Subscription
    BY DEF TypeOK
  <2>2. q \in Seq(Event)
    BY <2>1, InitialFacts
  <2>3. events' = [events EXCEPT ![c] = q]
    BY <1>7 DEF Open
  <2> HIDE DEF q
  <2>4. events' \in [Conn -> Seq(Event)]
    BY <2>2, <2>3 DEF TypeOK
  <2>5. signalled' \in BOOLEAN
    BY <1>7 DEF Open, Notified, TypeOK
  <2>6. grains' \in [Subscription -> SUBSET Conn]
    BY <1>7 DEF Open, TypeOK
  <2> QED
    BY <1>7, <2>1, <2>4, <2>5, <2>6 DEF Open, TypeOK
<1>8. ASSUME NEW c \in Conn, OpenInvalid(c)
      PROVE  TypeOK'
  BY <1>8 DEF OpenInvalid, TypeOK
<1>9. ASSUME NEW c \in Conn, Disconnect(c)
      PROVE  TypeOK'
  BY <1>9 DEF Disconnect, TypeOK, Nothing, Data
<1>10. ASSUME NEW c \in Conn, Close(c)
       PROVE  TypeOK'
  <2>1. signalled' \in BOOLEAN /\ fresh' \in BOOLEAN
    BY <1>10 DEF Close, Notified, TypeOK
  <2>2. grains' \in [Subscription -> SUBSET Conn] /\ forever' \subseteq Subscription
    <3>1. CASE grain[c] = "extant" /\ subscription[flow[c]] = "extant"
      <4>1. /\ grains' = [grains EXCEPT ![flow[c]] = @ \ {c}]
            /\ forever' \in {forever, forever \ {flow[c]}}
        BY <1>10, <3>1 DEF Close
      <4> QED
        BY <4>1 DEF TypeOK
    <3>2. CASE ~(grain[c] = "extant" /\ subscription[flow[c]] = "extant")
      BY <1>10, <3>2 DEF Close, TypeOK
    <3> QED
      BY <3>1, <3>2
  <2>3. grain' \in [Conn -> {"none", "extant", "erased"}] /\ events' \in [Conn -> Seq(Event)] /\ recent' \subseteq Conn
    BY <1>10, <1>g DEF Close
  <2> QED
    BY <1>10, <2>1, <2>2, <2>3 DEF Close, TypeOK
<1>11. ASSUME NEW c \in Conn, CloseUnknown(c)
       PROVE  TypeOK'
  BY <1>11 DEF CloseUnknown, TypeOK
<1>12. CASE PassFresh \/ PassTimeout
  BY <1>12, PassTypes DEF PassFresh, PassTimeout, PassThrows, TypeOK
<1>13. CASE Wait \/ Wake
  BY <1>13 DEF Wait, Wake, TypeOK
<1>14. ASSUME NEW c \in Conn, Send(c)
       PROVE  TypeOK'
  <2>1. Apply(view[c], outbox[c]) \in [Resource -> Data]
    BY ApplyKnows DEF TypeOK
  <2>2. view' \in [Conn -> [Resource -> Data]]
    BY <1>14, <2>1 DEF Send, TypeOK
  <2>3. outbox' \in [Conn -> Seq(Event)] /\ \A d \in Conn : Len(outbox'[d]) <= Limit
    <3>1. Len(<<>>) <= Limit
      BY ParameterAssumption, EmptySeq
    <3> QED
      BY <1>14, <1>e, <3>1 DEF Send, TypeOK
  <2> QED
    BY <1>14, <2>2, <2>3 DEF Send, TypeOK
<1>15. CASE Sent
  BY <1>15 DEF Sent, TypeOK
<1>16. ASSUME NEW c \in Conn, Elapse(c)
       PROVE  TypeOK'
  BY <1>16 DEF Elapse, TypeOK
<1>17. CASE UNCHANGED vars
  BY <1>17 DEF vars, TypeOK
<1> QED
  BY <1>1, <1>2, <1>3, <1>4, <1>5, <1>6, <1>7, <1>8, <1>9, <1>10, <1>11, <1>12, <1>13, <1>14, <1>15, <1>16,
     <1>17 DEF Next, Thread

LEMMA TypeInit ==
    ASSUME Init
    PROVE  TypeOK
<1>1. (CHOOSE s \in Subscription : TRUE) \in Subscription
  BY ParameterAssumption
<1>2. <<>> \in Seq(Event) /\ Len(<<>>) <= Limit
  BY ParameterAssumption, EmptySeq
<1> QED
  BY <1>1, <1>2 DEF Init, TypeOK, Nothing, Data

\* Every variable keeps its type: in particular a message holds at most Limit events.
THEOREM TypeCorrect == Spec => []TypeOK
<1>1. Init => TypeOK
  BY TypeInit
<1>2. TypeOK /\ [Next]_vars => TypeOK'
  BY TypeStep
<1> QED
  BY <1>1, <1>2, PTL DEF Spec

-----------------------------------------------------------------------------
(* Subscriptions and their connections *)

LEMMA StructureStep ==
    ASSUME Structure, [Next]_vars
    PROVE  Structure'
<1> USE DEF registry, thread
<1> DEFINE Goal == Unopened' /\ SentAll' /\ Members' /\ Grains' /\ Health'
<1>t. TypeOK /\ TypeOK'
  BY TypeStep DEF Structure
<1>s. Unopened /\ SentAll /\ Members /\ Grains /\ Health
  BY DEF Structure
<1>n. Nothing' = Nothing
  BY DEF Nothing
<1>q. ASSUME NEW r \in Resource, NEW pre \in Data, NEW post \in Data, events' = Queued(r, pre, post),
             UNCHANGED <<subscription, forever, grains, grain, flow, websockets, link, sender, outbox, view>>
      PROVE  Goal
  <2>1. \A c \in Conn : grain[c] # "extant" => events'[c] = events[c]
    BY <1>q DEF Queued, Receivers
  <2> QED
    BY <1>s, <1>n, <1>q, <2>1 DEF Unopened, SentAll, Members, Grains, Health
<1>u. ASSUME UNCHANGED <<subscription, forever, grains, grain, flow, events, websockets, link, outbox, view>>,
             sender' # "sending" => sender # "sending" \/ \A c \in Conn : outbox[c] = <<>>
      PROVE  Goal
  <2>1. Unopened'
    BY <1>s, <1>n, <1>u DEF Unopened
  <2>2. SentAll'
    BY <1>s, <1>u DEF SentAll
  <2>3. Members' /\ Grains' /\ Health'
    BY <1>s, <1>u DEF Members, Grains, Health
  <2> QED
    BY <2>1, <2>2, <2>3
<1>1. ASSUME NEW r \in Resource, NEW v \in Data, Change(r, v)
      PROVE  Goal
  BY <1>t, <1>q, <1>1 DEF Change, TypeOK
<1>2. ASSUME NEW r \in Resource, Expire(r)
      PROVE  Goal
  <2>1. content[r] \in Data /\ Null \in Data
    BY <1>t DEF TypeOK, Data
  <2> QED
    BY <1>q, <1>2, <2>1 DEF Expire
<1>3. ASSUME NEW s \in Subscription, ExpireSubscription(s)
      PROVE  Goal
  <2>1. /\ s \notin forever /\ subscription' = [subscription EXCEPT ![s] = "erased"] /\ subscription[s] = "extant"
        /\ UNCHANGED <<forever, grains, grain, flow, events, websockets, link, sender, outbox, view>>
    BY <1>3 DEF ExpireSubscription
  <2>2. \A c \in Conn : grain[c] = "extant" => flow[c] # s
    BY <1>s, <2>1 DEF Health
  <2> QED
    BY <1>t, <1>s, <1>n, <2>1, <2>2 DEF Unopened, SentAll, Members, Grains, Health, TypeOK
<1>4. ASSUME NEW s \in Subscription, Subscribe(s)
      PROVE  Goal
  <2>1. /\ subscription[s] = "absent" /\ subscription' = [subscription EXCEPT ![s] = "extant"]
        /\ forever' = (IF s \in Persistent THEN forever \cup {s} ELSE forever)
        /\ UNCHANGED <<grains, grain, flow, events, websockets, link, sender, outbox, view>>
    BY <1>4 DEF Subscribe
  <2>2. \A c \in Conn : grain[c] = "extant" => flow[c] # s
    BY <1>s, <2>1 DEF Grains
  <2>3. s \notin forever
    BY <1>s, <2>1 DEF Health
  <2>4. Unopened' /\ SentAll'
    BY <1>s, <1>n, <2>1 DEF Unopened, SentAll
  <2>5. Members' /\ Grains'
    <3>1. Members'
      BY <1>t, <1>s, <2>1 DEF Members, TypeOK
    <3>2. \A c \in Conn : grain[c] = "extant" => subscription'[flow[c]] = "extant"
      BY <1>t, <1>s, <2>1, <2>2 DEF Grains, TypeOK
    <3>3. Grains'
      BY <1>s, <2>1, <3>2 DEF Grains
    <3> QED
      BY <3>1, <3>3
  <2>6. Health'
    BY <1>t, <1>s, <2>1, <2>2, <2>3 DEF Health, TypeOK
  <2> QED
    BY <2>4, <2>5, <2>6
<1>5. ASSUME NEW s \in Subscription, Unsubscribe(s)
      PROVE  Goal
  <2> DEFINE gone == {c \in grains[s] : grain[c] = "extant"}
  <2>1. /\ s \in Persistent /\ subscription[s] = "extant" /\ subscription' = [subscription EXCEPT ![s] = "erased"]
        /\ grain' = [c \in Conn |-> IF c \in gone THEN "erased" ELSE grain[c]]
        /\ events' = [c \in Conn |-> IF c \in gone THEN <<>> ELSE events[c]]
        /\ UNCHANGED <<forever, grains, flow, websockets, link, sender, outbox, view>>
    BY <1>5 DEF Unsubscribe, EraseGrains
  <2>2. \A c \in Conn : c \in gone <=> grain[c] = "extant" /\ flow[c] = s
    BY <1>t, <1>s, <2>1 DEF Members, Grains, TypeOK
  <2> HIDE DEF gone
  <2>3. Unopened' /\ SentAll'
    BY <1>t, <1>s, <1>n, <2>1, <2>2 DEF Unopened, SentAll
  <2>4. Members' /\ Grains'
    BY <1>t, <1>s, <2>1, <2>2 DEF Members, Grains, TypeOK
  <2>5. Health'
    BY <1>t, <1>s, <2>1, <2>2 DEF Health, TypeOK
  <2> QED
    BY <2>3, <2>4, <2>5
<1>6. ASSUME NEW c \in Conn, NEW s \in Subscription, Validate(c, s)
      PROVE  Goal
  <2>1. /\ link[c] = "idle" /\ link' = [link EXCEPT ![c] = "validated"] /\ flow' = [flow EXCEPT ![c] = s]
        /\ UNCHANGED <<subscription, forever, grains, grain, events, websockets, sender, outbox, view>>
    BY <1>6 DEF Validate
  <2>2. grain[c] = "none" /\ \A x \in Subscription : c \notin grains[x]
    BY <1>s, <2>1 DEF Unopened
  <2> QED
    BY <1>t, <1>s, <1>n, <2>1, <2>2 DEF Unopened, SentAll, Members, Grains, Health, TypeOK
<1>7. ASSUME NEW c \in Conn, Open(c)
      PROVE  Goal
  <2> DEFINE s == flow[c]
  <2>1. /\ link[c] = "validated" /\ subscription[s] = "extant" /\ link' = [link EXCEPT ![c] = "open"]
        /\ grain' = [grain EXCEPT ![c] = "extant"] /\ grains' = [grains EXCEPT ![s] = @ \cup {c}]
        /\ forever' = forever \cup {s} /\ websockets' = websockets \cup {c}
        /\ UNCHANGED <<subscription, flow, sender, outbox, view>>
        /\ \A d \in Conn : d # c => events'[d] = events[d]
    BY <1>t, <1>7 DEF Open, TypeOK
  <2>2. grain[c] = "none" /\ s \in Subscription
    BY <1>t, <1>s, <2>1 DEF Unopened, TypeOK
  <2>3. Unopened' /\ SentAll'
    BY <1>t, <1>s, <1>n, <2>1 DEF Unopened, SentAll, TypeOK
  <2>4. Members' /\ Grains'
    BY <1>t, <1>s, <2>1, <2>2 DEF Members, Grains, TypeOK
  <2>5. Health'
    BY <1>t, <1>s, <2>1, <2>2 DEF Health, TypeOK
  <2> QED
    BY <2>3, <2>4, <2>5
<1>8. ASSUME NEW c \in Conn, OpenInvalid(c) \/ Disconnect(c) \/ CloseUnknown(c)
      PROVE  Goal
  <2>1. /\ UNCHANGED <<subscription, forever, grains, grain, flow, events, websockets, sender, outbox>>
        /\ \A d \in Conn : link'[d] \in {"idle", "validated"} => link'[d] = link[d] /\ view'[d] = view[d]
    BY <1>t, <1>8 DEF OpenInvalid, Disconnect, CloseUnknown, TypeOK
  <2> QED
    BY <1>s, <1>n, <2>1 DEF Unopened, SentAll, Members, Grains, Health
<1>9. ASSUME NEW c \in Conn, Close(c)
      PROVE  Goal
  <2> DEFINE s == flow[c]
  <2>1. /\ link[c] \in {"disconnected", "closing"} /\ link' = [link EXCEPT ![c] = "closed"]
        /\ websockets' = websockets \ {c}
        /\ grain' = [d \in Conn |-> IF d \in {c} THEN "erased" ELSE grain[d]]
        /\ events' = [d \in Conn |-> IF d \in {c} THEN <<>> ELSE events[d]]
        /\ UNCHANGED <<subscription, flow, sender, outbox, view>>
    BY <1>9 DEF Close, EraseGrains
  <2>2. s \in Subscription /\ grains[s] \subseteq Conn
    BY <1>t DEF TypeOK
  <2>3. Unopened' /\ SentAll'
    <3>1. \A x \in Subscription : grains'[x] \subseteq grains[x]
      <4>1. CASE grain[c] = "extant" /\ subscription[s] = "extant"
        <5>1. grains' = [grains EXCEPT ![s] = @ \ {c}]
          BY <1>9, <4>1 DEF Close
        <5> QED
          BY <1>t, <5>1 DEF TypeOK
      <4>2. CASE ~(grain[c] = "extant" /\ subscription[s] = "extant")
        BY <1>9, <4>2 DEF Close
      <4> QED
        BY <4>1, <4>2
    <3> QED
      BY <1>t, <1>s, <1>n, <2>1, <3>1 DEF Unopened, SentAll, TypeOK
  <2>4. CASE grain[c] = "extant" /\ subscription[s] = "extant"
    <3>1. /\ grains' = [grains EXCEPT ![s] = @ \ {c}]
          /\ forever' = IF LastConnection(c) /\ s \notin Persistent THEN forever \ {s} ELSE forever
      BY <1>9, <2>4 DEF Close
    <3>2. Members' /\ Grains'
      BY <1>t, <1>s, <2>1, <2>2, <2>4, <3>1 DEF Members, Grains, TypeOK
    <3>3. LastConnection(c) <=> ~(\E d \in Conn : d # c /\ grain[d] = "extant" /\ flow[d] = s)
      <4>1. \A d \in Conn : grain[d] = "extant" /\ flow[d] = s => d \in grains[s]
        BY <1>s DEF Grains
      <4>2. \A d \in grains[s] : d \in Conn /\ grain[d] = "extant" /\ flow[d] = s
        BY <1>s, <2>2, <2>4 DEF Members
      <4> QED
        BY <2>2, <4>1, <4>2 DEF LastConnection
    <3>4. Health'
      <4>1. ASSUME NEW x \in Subscription, x # s
            PROVE  /\ subscription'[x] = "absent" => x \notin forever'
                   /\ subscription'[x] = "extant" =>
                        IF x \in Persistent THEN x \in forever'
                        ELSE x \in forever' <=> \E d \in Conn : grain'[d] = "extant" /\ flow'[d] = x
        <5>1. (\E d \in Conn : grain'[d] = "extant" /\ flow'[d] = x) <=> \E d \in Conn : grain[d] = "extant" /\ flow[d] = x
          BY <2>1, <4>1
        <5>2. x \in forever' <=> x \in forever
          BY <3>1, <4>1
        <5> QED
          BY <1>s, <2>1, <5>1, <5>2 DEF Health
      <4>2. /\ subscription'[s] = "extant"
            /\ IF s \in Persistent THEN s \in forever'
               ELSE s \in forever' <=> \E d \in Conn : grain'[d] = "extant" /\ flow'[d] = s
        <5>1. (\E d \in Conn : grain'[d] = "extant" /\ flow'[d] = s) <=> ~LastConnection(c)
          BY <2>1, <3>3
        <5>2. s \in forever
          BY <1>s, <2>2, <2>4 DEF Health
        <5> QED
          BY <2>1, <2>4, <3>1, <5>1, <5>2
      <4> QED
        BY <4>1, <4>2 DEF Health
    <3> QED
      BY <2>3, <3>2, <3>4
  <2>5. CASE ~(grain[c] = "extant" /\ subscription[s] = "extant")
    <3>1. UNCHANGED <<grains, forever>>
      BY <1>9, <2>5 DEF Close
    <3>2. grain[c] # "extant"
      BY <1>s, <2>5 DEF Grains
    <3> QED
      BY <1>t, <1>s, <2>1, <2>3, <3>1, <3>2 DEF Members, Grains, Health, TypeOK
  <2> QED
    BY <2>4, <2>5
<1>10. ASSUME Pass
       PROVE  Goal
  <2>1. Deleted \subseteq websockets /\ \A c \in Deleted : grain[c] # "extant"
    BY <1>s, <1>t DEF Deleted, Grains, TypeOK
  <2>2. \A c \in Deleted : link[c] = "open"
    BY <1>10 DEF Pass
  <2>3. Due \subseteq websockets
    BY DEF Due, Waiting
  <2> HIDE DEF Deleted, Due
  <2>4. /\ link' = [c \in Conn |-> IF c \in Deleted THEN "closing" ELSE link[c]]
        /\ websockets' = websockets \ Deleted
        /\ grain' = [c \in Conn |-> IF c \in Deleted THEN "erased" ELSE grain[c]]
        /\ view' = [c \in Conn |-> IF c \in Deleted THEN Nothing ELSE view[c]]
        /\ outbox' = [c \in Conn |-> IF c \in Due THEN Message(c) ELSE <<>>]
        /\ events' = [c \in Conn |-> IF c \in Due THEN Postponed(c)
                                   ELSE IF c \in Deleted THEN <<>>
                                   ELSE events[c]]
        /\ sender' = "sending"
        /\ UNCHANGED <<subscription, forever, grains, flow>>
    BY <1>10 DEF Pass
  <2>5. Unopened' /\ SentAll'
    BY <1>s, <1>n, <2>1, <2>2, <2>3, <2>4 DEF Unopened, SentAll
  <2>6. Members' /\ Grains'
    BY <1>t, <1>s, <2>1, <2>4 DEF Members, Grains, TypeOK
  <2>7. \A c \in Conn : grain'[c] = "extant" <=> grain[c] = "extant"
    BY <2>1, <2>4
  <2>8. Health'
    BY <1>s, <2>4, <2>7 DEF Health
  <2> QED
    BY <2>5, <2>6, <2>8
<1>11. ASSUME PassThrows /\ (sender = "ready" \/ sender = "waiting")
       PROVE  Goal
  BY <1>u, <1>11 DEF PassThrows
<1>12. ASSUME PassFresh \/ PassTimeout
       PROVE  Goal
  BY <1>10, <1>11, <1>12 DEF PassFresh, PassTimeout
<1>13. ASSUME Wait \/ Wake \/ Sent
       PROVE  Goal
  BY <1>u, <1>13 DEF Wait, Wake, Sent
<1>14. ASSUME NEW c \in Conn, Send(c)
       PROVE  Goal
  <2>1. /\ sender' = "sending" /\ outbox[c] # <<>>
        /\ UNCHANGED <<subscription, forever, grains, grain, flow, events, websockets, link>>
        /\ \A d \in Conn : d # c => outbox'[d] = outbox[d] /\ view'[d] = view[d]
    BY <1>t, <1>14 DEF Send, TypeOK
  <2>2. link[c] \notin {"idle", "validated"}
    BY <1>s, <2>1 DEF Unopened
  <2> QED
    BY <1>s, <1>n, <2>1, <2>2 DEF Unopened, SentAll, Members, Grains, Health
<1>15. ASSUME NEW c \in Conn, Elapse(c)
       PROVE  Goal
  BY <1>s, <1>n, <1>15 DEF Elapse, Unopened, SentAll, Members, Grains, Health
<1>16. ASSUME UNCHANGED vars
       PROVE  Goal
  BY <1>u, <1>16 DEF vars
<1> HIDE DEF Goal
<1>17. Goal
  BY <1>1, <1>2, <1>3, <1>4, <1>5, <1>6, <1>7, <1>8, <1>9, <1>12, <1>13, <1>14, <1>15, <1>16 DEF Next, Thread
<1> QED
  BY <1>t, <1>17 DEF Structure, Goal

LEMMA StructureInit ==
    ASSUME Init
    PROVE  Structure
BY TypeInit DEF Init, Structure, Unopened, SentAll, Members, Grains, Health

\* A subscription never expires while it has connections, and may when it has none unless
\* it is persistent; and there is no grain without a subscription.
THEOREM HealthHolds == Spec => []HealthFollowsConnections
<1>1. Init => Structure
  BY StructureInit
<1>2. Structure /\ [Next]_vars => Structure'
  BY StructureStep
<1>3. Structure => HealthFollowsConnections
  BY DEF Structure, Grains, Health, HealthFollowsConnections
<1> QED
  BY <1>1, <1>2, <1>3, PTL DEF Spec

-----------------------------------------------------------------------------
(* The feed *)

\* The beginnings of a queue that is put together
LEMMA PrefixFacts ==
    ASSUME NEW p \in Seq(Event), NEW q \in Seq(Event)
    PROVE  /\ \A i \in 0..Len(p) : SubSeq(p, 1, i) \in Seq(Event) /\ SubSeq(p \o q, 1, i) = SubSeq(p, 1, i)
           /\ \A i \in 0..Len(q) : SubSeq(p \o q, 1, Len(p) + i) = p \o SubSeq(q, 1, i)
<1>1. /\ Len(p) \in Nat /\ Len(q) \in Nat /\ p \o q \in Seq(Event) /\ Len(p \o q) = Len(p) + Len(q)
      /\ \A i \in 1..(Len(p) + Len(q)) : (p \o q)[i] = IF i <= Len(p) THEN p[i] ELSE q[i - Len(p)]
      /\ \A i \in 1..(Len(p) + Len(q)) : (p \o q)[i] \in Event
  <2>1. p \o q \in Seq(Event) /\ Len(p \o q) = Len(p) + Len(q)
    BY ConcatProperties
  <2> QED
    BY <2>1, ConcatProperties, LenProperties, ElementOfSeq
<1>2. ASSUME NEW s \in Seq(Event), NEW i \in 0..Len(s)
      PROVE  /\ SubSeq(s, 1, i) \in Seq(Event) /\ Len(SubSeq(s, 1, i)) = i
             /\ \A j \in 1..i : SubSeq(s, 1, i)[j] = s[j]
  <2>1. i \in Int /\ Len(s) \in Nat /\ \A j \in 1..i : s[j] \in Event
    BY LenProperties, ElementOfSeq
  <2>2. /\ SubSeq(s, 1, i) \in Seq(Event) /\ Len(SubSeq(s, 1, i)) = IF 1 <= i THEN i - 1 + 1 ELSE 0
        /\ \A j \in 1..(i - 1 + 1) : SubSeq(s, 1, i)[j] = s[1 + j - 1]
    BY <2>1, SubSeqProperties
  <2> QED
    BY <2>1, <2>2
<1>3. ASSUME NEW i \in 0..Len(p)
      PROVE  SubSeq(p, 1, i) \in Seq(Event) /\ SubSeq(p \o q, 1, i) = SubSeq(p, 1, i)
  <2>1. i \in 0..Len(p \o q)
    BY <1>1
  <2>2. /\ SubSeq(p \o q, 1, i) \in Seq(Event) /\ Len(SubSeq(p \o q, 1, i)) = i
        /\ \A j \in 1..i : SubSeq(p \o q, 1, i)[j] = (p \o q)[j]
    BY <1>1, <1>2, <2>1
  <2>3. /\ SubSeq(p, 1, i) \in Seq(Event) /\ Len(SubSeq(p, 1, i)) = i
        /\ \A j \in 1..i : SubSeq(p, 1, i)[j] = p[j]
    BY <1>2
  <2>4. \A j \in 1..i : (p \o q)[j] = p[j]
    BY <1>1
  <2> QED
    BY <2>2, <2>3, <2>4, SeqEqual
<1>4. ASSUME NEW i \in 0..Len(q)
      PROVE  SubSeq(p \o q, 1, Len(p) + i) = p \o SubSeq(q, 1, i)
  <2>1. Len(p) + i \in 0..Len(p \o q)
    BY <1>1
  <2>2. /\ SubSeq(p \o q, 1, Len(p) + i) \in Seq(Event) /\ Len(SubSeq(p \o q, 1, Len(p) + i)) = Len(p) + i
        /\ \A j \in 1..(Len(p) + i) : SubSeq(p \o q, 1, Len(p) + i)[j] = (p \o q)[j]
    BY <1>1, <1>2, <2>1
  <2>3. /\ SubSeq(q, 1, i) \in Seq(Event) /\ Len(SubSeq(q, 1, i)) = i
        /\ \A j \in 1..i : SubSeq(q, 1, i)[j] = q[j]
    BY <1>2
  <2>4. /\ p \o SubSeq(q, 1, i) \in Seq(Event) /\ Len(p \o SubSeq(q, 1, i)) = Len(p) + i
        /\ \A j \in 1..(Len(p) + i) :
              (p \o SubSeq(q, 1, i))[j] = IF j <= Len(p) THEN p[j] ELSE SubSeq(q, 1, i)[j - Len(p)]
    BY <2>3, ConcatProperties
  <2>5. \A j \in 1..(Len(p) + i) : (p \o SubSeq(q, 1, i))[j] = (p \o q)[j]
    <3> TAKE j \in 1..(Len(p) + i)
    <3>1. j \in 1..(Len(p) + Len(q))
      BY <1>1
    <3>2. ~(j <= Len(p)) => j - Len(p) \in 1..i
      BY <1>1
    <3> QED
      BY <1>1, <2>3, <2>4, <3>1, <3>2
  <2> QED
    BY <2>2, <2>4, <2>5, SeqEqual
<1> QED
  BY <1>3, <1>4

LEMMA ChainedFacts ==
    ASSUME NEW known \in [Resource -> Data], NEW q \in Seq(Event)
    PROVE  /\ \A e \in Event : Chained(known, q) /\ e.pre = Apply(known, q)[e.res] => Chained(known, Append(q, e))
           /\ \A p \in Seq(Event) : Chained(known, p \o q) => Chained(Apply(known, p), q)
<1>1. DOMAIN q = 1..Len(q) /\ Len(q) \in Nat
  BY LenProperties
<1>2. ASSUME NEW e \in Event, Chained(known, q), e.pre = Apply(known, q)[e.res]
      PROVE  Chained(known, Append(q, e))
  <2> DEFINE q2 == Append(q, e)
  <2>1. /\ q2 = q \o <<e>> /\ <<e>> \in Seq(Event) /\ DOMAIN q2 = 1..(Len(q) + 1)
        /\ \A i \in 1..Len(q) : q2[i] = q[i]
        /\ q2[Len(q) + 1] = e
    BY AppendProperties, AppendIsConcat, LenProperties
  <2> HIDE DEF q2
  <2>2. \A i \in 0..Len(q) : SubSeq(q2, 1, i) = SubSeq(q, 1, i)
    BY <2>1, PrefixFacts
  <2> SUFFICES ASSUME NEW i \in DOMAIN q2
               PROVE  LET before == Apply(known, SubSeq(q2, 1, i - 1))[q2[i].res]
                      IN  q2[i].pre = before \/ (before = Null /\ q2[i].pre = q2[i].post)
    BY DEF Chained, q2
  <2>3. i - 1 \in 0..Len(q) /\ SubSeq(q2, 1, i - 1) = SubSeq(q, 1, i - 1)
    BY <1>1, <2>1, <2>2
  <2>4. CASE i \in 1..Len(q)
    BY <1>1, <1>2, <2>1, <2>3, <2>4 DEF Chained
  <2>5. CASE i = Len(q) + 1
    <3>1. SubSeq(q, 1, i - 1) = q
      BY <1>1, <2>5, SubSeqFull
    <3> QED
      BY <1>2, <2>1, <2>3, <2>5, <3>1
  <2> QED
    BY <1>1, <2>1, <2>4, <2>5
<1>3. ASSUME NEW p \in Seq(Event), Chained(known, p \o q)
      PROVE  Chained(Apply(known, p), q)
  <2> SUFFICES ASSUME NEW i \in DOMAIN q
               PROVE  LET before == Apply(Apply(known, p), SubSeq(q, 1, i - 1))[q[i].res]
                      IN  q[i].pre = before \/ (before = Null /\ q[i].pre = q[i].post)
    BY DEF Chained
  <2>1. /\ Len(p) \in Nat /\ DOMAIN (p \o q) = 1..(Len(p) + Len(q))
        /\ \A j \in 1..(Len(p) + Len(q)) : (p \o q)[j] = IF j <= Len(p) THEN p[j] ELSE q[j - Len(p)]
    BY ConcatProperties, LenProperties
  <2>2. Len(p) + i \in DOMAIN (p \o q) /\ (p \o q)[Len(p) + i] = q[i]
    <3>1. Len(p) + i \in 1..(Len(p) + Len(q)) /\ ~(Len(p) + i <= Len(p)) /\ (Len(p) + i) - Len(p) = i
      BY <1>1, <2>1
    <3> QED
      BY <2>1, <3>1
  <2>3. i - 1 \in 0..Len(q) /\ (Len(p) + i) - 1 = Len(p) + (i - 1)
    BY <1>1, <2>1
  <2>4. SubSeq(p \o q, 1, (Len(p) + i) - 1) = p \o SubSeq(q, 1, i - 1)
    BY <2>3, PrefixFacts
  <2>5. SubSeq(q, 1, i - 1) \in Seq(Event)
    BY <2>3, PrefixFacts
  <2>6. Apply(known, p \o SubSeq(q, 1, i - 1)) = Apply(Apply(known, p), SubSeq(q, 1, i - 1))
    <3>1. ASSUME NEW t \in Seq(Event)
          PROVE  Apply(known, p \o t) = Apply(Apply(known, p), t)
      BY <1>3, ApplyFacts
    <3> QED
      BY <2>5, <3>1
  <2>7. LET before == Apply(known, SubSeq(p \o q, 1, (Len(p) + i) - 1))[(p \o q)[Len(p) + i].res]
        IN  \/ (p \o q)[Len(p) + i].pre = before
            \/ before = Null /\ (p \o q)[Len(p) + i].pre = (p \o q)[Len(p) + i].post
    BY <1>3, <2>2 DEF Chained
  <2> QED
    BY <2>2, <2>4, <2>6, <2>7
<1> QED
  BY <1>2, <1>3

\* The initial events tell a client that knows nothing what its subscription sees.
LEMMA InitialFed ==
    ASSUME TypeOK, NEW s \in Subscription, NEW q \in Seq(Event),
           \A i \in DOMAIN q : /\ q[i].pre = q[i].post /\ q[i].post = content[q[i].res]
                               /\ q[i].res \in Resource /\ Projection(s)[q[i].res] # Null,
           \A r \in Resource : Projection(s)[r] # Null => \E i \in DOMAIN q : q[i].res = r,
           \A i, j \in DOMAIN q : q[i].res = q[j].res => i = j
    PROVE  Apply(Nothing, q) = Projection(s) /\ Chained(Nothing, q)
<1>1. DOMAIN q = 1..Len(q) /\ Len(q) \in Nat
  BY LenProperties
<1>2. /\ Projection(s) \in [Resource -> Data] /\ Nothing \in [Resource -> Data]
      /\ \A r \in Resource : Nothing[r] = Null /\ (Projection(s)[r] # Null => Projection(s)[r] = content[r])
  BY ProjectionFacts, SeenFacts DEF TypeOK, Nothing, Data
<1>3. Knows(Projection(s), Nothing, q)
  <2> SUFFICES ASSUME NEW r \in Resource
               PROVE  \/ Projection(s)[r] = Nothing[r] /\ \A i \in DOMAIN q : q[i].res # r
                      \/ \E i \in DOMAIN q : /\ q[i].res = r /\ q[i].post = Projection(s)[r]
                                             /\ \A j \in DOMAIN q : j > i => q[j].res # r
    BY DEF Knows
  <2>1. CASE Projection(s)[r] = Null
    BY <1>2, <2>1
  <2>2. CASE Projection(s)[r] # Null
    <3>1. PICK i \in DOMAIN q : q[i].res = r
      BY <2>2
    <3>2. \A j \in DOMAIN q : j > i => q[j].res # r
      BY <1>1, <3>1
    <3> QED
      BY <1>2, <2>2, <3>1, <3>2
  <2> QED
    BY <2>1, <2>2
<1>4. Apply(Nothing, q) = Projection(s)
  BY <1>2, <1>3, ApplyKnows
<1>5. Chained(Nothing, q)
  <2> SUFFICES ASSUME NEW i \in DOMAIN q
               PROVE  Apply(Nothing, SubSeq(q, 1, i - 1))[q[i].res] = Null
    BY DEF Chained
  <2> DEFINE p == SubSeq(q, 1, i - 1)
  <2>1. i - 1 \in Int /\ \A j \in 1..(i - 1) : j \in DOMAIN q /\ q[j] \in Event /\ j # i
    BY <1>1, ElementOfSeq
  <2>2. /\ p \in Seq(Event) /\ Len(p) = IF 1 <= i - 1 THEN (i - 1) - 1 + 1 ELSE 0
        /\ \A j \in 1..((i - 1) - 1 + 1) : p[j] = q[1 + j - 1]
    BY <2>1, SubSeqProperties
  <2>3. DOMAIN p = 1..(i - 1) /\ \A j \in 1..(i - 1) : p[j] = q[j]
    BY <1>1, <2>1, <2>2, LenProperties
  <2> HIDE DEF p
  <2>4. \A j \in DOMAIN p : p[j].res # q[i].res
    BY <2>1, <2>3
  <2>5. Apply(Nothing, p)[q[i].res] = Nothing[q[i].res]
    <3>1. Knows(Apply(Nothing, p), Nothing, p)
      BY <1>2, <2>2, ApplyKnows
    <3>2. q[i].res \in Resource
      OBVIOUS
    <3> QED
      BY <2>4, <3>1, <3>2 DEF Knows
  <2> QED
    BY <1>2, <2>5 DEF p
<1> QED
  BY <1>4, <1>5

LEMMA FeedsStep ==
    ASSUME Inv, [Next]_vars
    PROVE  Feeds'
<1> USE DEF registry, thread
<1> DEFINE NextFed(c) ==
               LET seen == [x \in Resource |-> Seen(flow'[c], content'[x])]
                   q    == outbox'[c] \o events'[c]
               IN  Served(c)' => Apply(view'[c], q) = seen /\ Chained(view'[c], q)
           Goal == \A c \in Conn : NextFed(c)
<1>t. TypeOK
  BY DEF Inv, Structure
<1>s. Unopened /\ SentAll /\ Members /\ Grains /\ Feeds
  BY DEF Inv, Structure
<1>p. Goal => Feeds'
  BY DEF Feeds, Fed, Queue, Projection, Apply, Chained
<1>e. ASSUME NEW c \in Conn
      PROVE  /\ outbox[c] \in Seq(Event) /\ events[c] \in Seq(Event) /\ Queue(c) \in Seq(Event)
             /\ view[c] \in [Resource -> Data] /\ flow[c] \in Subscription
             /\ Projection(flow[c]) = [x \in Resource |-> Seen(flow[c], content[x])]
  <2>1. outbox[c] \in Seq(Event) /\ events[c] \in Seq(Event) /\ view[c] \in [Resource -> Data]
        /\ flow[c] \in Subscription
    BY <1>t DEF TypeOK
  <2> QED
    BY <2>1, ConcatProperties DEF Queue, Projection
<1>v. ASSUME NEW c \in Conn, Served(c)
      PROVE  Apply(view[c], Queue(c)) = Projection(flow[c]) /\ Chained(view[c], Queue(c))
  BY <1>s, <1>v DEF Feeds, Fed
<1>f. ASSUME NEW c \in Conn, Served(c)' => Served(c) /\ outbox'[c] \o events'[c] = Queue(c),
             view'[c] = view[c], flow'[c] = flow[c], content' = content
      PROVE  NextFed(c)
  BY <1>e, <1>f, <1>v
<1>g. ASSUME NEW c \in Conn, Served(c)' => Served(c) /\ outbox'[c] = outbox[c] /\ events'[c] = events[c],
             view'[c] = view[c], flow'[c] = flow[c], content' = content
      PROVE  NextFed(c)
  BY <1>f, <1>g DEF Queue
<1>q. ASSUME NEW r \in Resource, NEW v \in Data, content' = [content EXCEPT ![r] = v],
             events' = Queued(r, content[r], v),
             UNCHANGED <<subscription, grains, grain, flow, websockets, link, outbox, view>>
      PROVE  Goal
  <2> SUFFICES ASSUME NEW c \in Conn, Served(c)'
               PROVE  NextFed(c)
    OBVIOUS
  <2> DEFINE P  == Projection(flow[c])
             P2 == [x \in Resource |-> Seen(flow'[c], content'[x])]
             e  == [res |-> r, pre |-> Seen(flow[c], content[r]), post |-> Seen(flow[c], v)]
             q2 == outbox'[c] \o events'[c]
  <2>1. Served(c) /\ flow'[c] = flow[c] /\ view'[c] = view[c] /\ outbox'[c] = outbox[c] /\ grain[c] = "extant"
    BY <1>q DEF Served
  <2>2. Apply(view[c], Queue(c)) = P /\ Chained(view[c], Queue(c))
    BY <1>v, <2>1
  <2>3. /\ e \in Event
        /\ events'[c] = IF c \in Receivers(content[r], v) THEN Append(events[c], e) ELSE events[c]
    <3>1. content[r] \in Data
      BY <1>t DEF TypeOK
    <3> QED
      BY <1>t, <1>q, <3>1, QueuedFacts
  <2>4. e.res = r /\ e.pre = P[r] /\ e.post = Seen(flow[c], v)
    BY DEF Projection
  <2>5. P2 = [P EXCEPT ![r] = Seen(flow[c], v)]
    <3>1. content \in [Resource -> Data]
      BY <1>t DEF TypeOK
    <3> QED
      BY <1>e, <1>q, <2>1, <3>1
  <2> HIDE DEF P, P2, e
  <2>6. CASE c \in Receivers(content[r], v)
    <3>1. q2 = Append(Queue(c), e)
      <4>1. outbox'[c] = outbox[c] /\ events'[c] = Append(events[c], e)
        BY <2>1, <2>3, <2>6
      <4>2. /\ Append(events[c], e) = events[c] \o <<e>> /\ <<e>> \in Seq(Event)
            /\ Append(Queue(c), e) = Queue(c) \o <<e>>
        BY <1>e, <2>3, AppendIsConcat, AppendProperties
      <4>3. (outbox[c] \o events[c]) \o <<e>> = outbox[c] \o (events[c] \o <<e>>)
        <5>1. outbox[c] \in Seq(Event) /\ events[c] \in Seq(Event) /\ <<e>> \in Seq(Event)
          BY <1>e, <4>2
        <5>2. ASSUME NEW a \in Seq(Event), NEW b \in Seq(Event), NEW d \in Seq(Event)
              PROVE  (a \o b) \o d = a \o (b \o d)
          BY ConcatAssociative
        <5> QED
          BY <5>1, <5>2, Zenon
      <4> QED
        BY <4>1, <4>2, <4>3 DEF Queue
    <3>2. Apply(view[c], Append(Queue(c), e)) = [Apply(view[c], Queue(c)) EXCEPT ![e.res] = e.post]
      <4>1. e \in Event /\ Queue(c) \in Seq(Event) /\ view[c] \in [Resource -> Data]
        BY <1>e, <2>3
      <4> QED
        BY <4>1, ApplyFacts
    <3>3. Chained(view[c], Append(Queue(c), e))
      BY <1>e, <2>2, <2>3, <2>4, ChainedFacts
    <3> HIDE DEF q2
    <3>4. Apply(view'[c], q2) = P2 /\ Chained(view'[c], q2)
      BY <2>1, <2>2, <2>4, <2>5, <3>1, <3>2, <3>3
    <3> QED
      BY <3>4 DEF q2, P2
  <2>7. CASE c \notin Receivers(content[r], v)
    <3>1. Seen(flow[c], content[r]) = Null /\ Seen(flow[c], v) = Null
      BY <1>s, <2>1, <2>7 DEF Grains, Receivers
    <3>2. P2 = P
      <4>1. P \in [Resource -> Data] /\ P[r] = Null
        BY <1>t, <1>e, <3>1, ProjectionFacts DEF P
      <4> QED
        BY <2>5, <3>1, <4>1
    <3>3. q2 = Queue(c)
      BY <2>1, <2>3, <2>7 DEF Queue
    <3> HIDE DEF q2
    <3>4. Apply(view'[c], q2) = P2 /\ Chained(view'[c], q2)
      BY <2>1, <2>2, <3>2, <3>3
    <3> QED
      BY <3>4 DEF q2, P2
  <2> QED
    BY <2>6, <2>7
<1>1. ASSUME NEW r \in Resource, NEW v \in Data, Change(r, v)
      PROVE  Goal
  <2> HIDE DEF Goal
  <2> QED
    BY <1>q, <1>1 DEF Change
<1>2. ASSUME NEW r \in Resource, Expire(r)
      PROVE  Goal
  <2>1. Null \in Data
    BY DEF Data
  <2> HIDE DEF Goal
  <2> QED
    BY <1>q, <1>2, <2>1 DEF Expire
<1>3. ASSUME NEW s \in Subscription, ExpireSubscription(s) \/ Subscribe(s)
      PROVE  Goal
  <2>1. UNCHANGED <<content, grain, flow, events, websockets, link, outbox, view>>
    BY <1>3 DEF ExpireSubscription, Subscribe
  <2> QED
    BY <1>g, <2>1 DEF Served
<1>4. ASSUME NEW s \in Subscription, Unsubscribe(s)
      PROVE  Goal
  <2>1. UNCHANGED <<content, flow, websockets, link, outbox, view>>
    BY <1>4 DEF Unsubscribe
  <2>2. \A c \in Conn : grain'[c] = "extant" => grain[c] = "extant" /\ events'[c] = events[c]
    BY <1>4 DEF Unsubscribe, EraseGrains
  <2> QED
    BY <1>g, <2>1, <2>2 DEF Served
<1>5. ASSUME NEW c \in Conn, NEW s \in Subscription, Validate(c, s)
      PROVE  Goal
  <2>1. /\ link[c] = "idle" /\ link' = [link EXCEPT ![c] = "validated"] /\ flow' = [flow EXCEPT ![c] = s]
        /\ UNCHANGED <<content, grain, events, websockets, outbox, view>>
    BY <1>5 DEF Validate
  <2>2. \A d \in Conn : d # c => NextFed(d)
    <3>1. \A d \in Conn : d # c => link'[d] = link[d] /\ flow'[d] = flow[d]
      BY <1>t, <2>1 DEF TypeOK
    <3> QED
      BY <1>g, <2>1, <3>1 DEF Served
  <2>3. ~Served(c)'
    BY <1>t, <2>1 DEF Served, TypeOK
  <2> QED
    BY <2>2, <2>3
<1>6. ASSUME NEW c \in Conn, Open(c)
      PROVE  Goal
  <2> DEFINE q == SetToSeq({[res |-> r, pre |-> content[r], post |-> content[r]] :
                            r \in {r \in Resource : Projection(flow[c])[r] # Null}})
  <2>1. /\ link[c] = "validated" /\ UNCHANGED <<content, flow, outbox, view>>
        /\ events'[c] = q
    BY <1>t, <1>6 DEF Open, TypeOK
  <2>2. ASSUME NEW d \in Conn, d # c
        PROVE  NextFed(d)
    <3>1. /\ link'[d] = link[d] /\ grain'[d] = grain[d] /\ events'[d] = events[d]
          /\ (d \in websockets' <=> d \in websockets)
      BY <1>t, <1>6, <2>2 DEF Open, TypeOK
    <3> QED
      BY <1>g, <2>1, <3>1 DEF Served
  <2>3. NextFed(c)
    <3>1. /\ q \in Seq(Event)
          /\ \A i \in DOMAIN q : /\ q[i].pre = q[i].post /\ q[i].post = content[q[i].res]
                                 /\ q[i].res \in Resource /\ Projection(flow[c])[q[i].res] # Null
          /\ \A r \in Resource : Projection(flow[c])[r] # Null => \E i \in DOMAIN q : q[i].res = r
          /\ \A i, j \in DOMAIN q : q[i].res = q[j].res => i = j
      <4>1. flow[c] \in Subscription
        BY <1>e
      <4>2. LET matched == {r \in Resource : Projection(flow[c])[r] # Null}
            IN  /\ q \in Seq(Event)
                /\ \A i \in DOMAIN q : q[i].pre = q[i].post /\ q[i].res \in matched /\ q[i].post = content[q[i].res]
                /\ \A r \in matched : \E i \in DOMAIN q : q[i].res = r
                /\ \A i, j \in DOMAIN q : q[i].res = q[j].res => i = j
        BY <1>t, <4>1, InitialFacts
      <4> HIDE DEF q
      <4> QED
        BY <4>2
    <3>2. view[c] = Nothing /\ outbox[c] = <<>>
      BY <1>s, <2>1 DEF Unopened
    <3> HIDE DEF q
    <3>3. Apply(Nothing, q) = Projection(flow[c]) /\ Chained(Nothing, q)
      BY <1>t, <1>e, <3>1, InitialFed
    <3>4. outbox'[c] \o events'[c] = q
      BY <2>1, <3>1, <3>2, ConcatEmptySeq
    <3> QED
      BY <1>e, <2>1, <3>2, <3>3, <3>4
  <2> QED
    BY <2>2, <2>3
<1>7. ASSUME NEW c \in Conn, OpenInvalid(c)
      PROVE  Goal
  <2>1. UNCHANGED registry /\ UNCHANGED <<outbox, view>> /\ link' = [link EXCEPT ![c] = "open"] /\ link[c] = "validated"
    BY <1>7 DEF OpenInvalid
  <2>2. \A d \in Conn : d # c => link'[d] = link[d]
    BY <1>t, <2>1 DEF TypeOK
  <2>3. c \notin websockets
    BY <1>s, <2>1 DEF Unopened
  <2> QED
    BY <1>g, <2>1, <2>2, <2>3 DEF Served
<1>8. ASSUME NEW c \in Conn, Disconnect(c)
      PROVE  Goal
  <2>1. /\ UNCHANGED registry /\ UNCHANGED outbox
        /\ link' = [link EXCEPT ![c] = "disconnected"] /\ view' = [view EXCEPT ![c] = Nothing]
    BY <1>8 DEF Disconnect
  <2>2. \A d \in Conn : d # c => link'[d] = link[d] /\ view'[d] = view[d]
    BY <1>t, <2>1 DEF TypeOK
  <2>3. \A d \in Conn : d # c => NextFed(d)
    BY <1>g, <2>1, <2>2 DEF Served
  <2>4. ~Served(c)'
    BY <1>t, <2>1 DEF Served, TypeOK
  <2> QED
    BY <2>3, <2>4
<1>9. ASSUME NEW c \in Conn, Close(c)
      PROVE  Goal
  <2>1. /\ UNCHANGED <<content, flow, outbox, view>> /\ link' = [link EXCEPT ![c] = "closed"]
        /\ websockets' = websockets \ {c}
        /\ \A d \in Conn : d # c => grain'[d] = grain[d] /\ events'[d] = events[d]
    BY <1>9 DEF Close, EraseGrains
  <2>2. \A d \in Conn : d # c => link'[d] = link[d]
    BY <1>t, <2>1 DEF TypeOK
  <2> QED
    BY <1>g, <2>1, <2>2 DEF Served
<1>10. ASSUME NEW c \in Conn, CloseUnknown(c)
       PROVE  Goal
  <2>1. UNCHANGED registry /\ UNCHANGED <<outbox, view>> /\ link' = [link EXCEPT ![c] = "closed"] /\ c \notin websockets
    BY <1>10 DEF CloseUnknown
  <2>2. \A d \in Conn : d # c => link'[d] = link[d]
    BY <1>t, <2>1 DEF TypeOK
  <2> QED
    BY <1>g, <2>1, <2>2 DEF Served
<1>11. ASSUME PassFresh \/ PassTimeout
       PROVE  Goal
  <2>1. sender # "sending" /\ (Pass \/ PassThrows)
    BY <1>11 DEF PassFresh, PassTimeout
  <2>2. CASE Pass
    <3> SUFFICES ASSUME NEW c \in Conn, Served(c)'
                 PROVE  NextFed(c)
      OBVIOUS
    <3>1. c \notin Deleted /\ Served(c) /\ UNCHANGED <<content, flow>> /\ view'[c] = view[c]
      <4>1. c \notin Deleted
        BY <2>2 DEF Pass, Served
      <4> HIDE DEF Deleted
      <4> QED
        BY <2>2, <4>1 DEF Pass, Served
    <3>2. outbox'[c] \o events'[c] = Queue(c)
      <4>1. Queue(c) = events[c]
        BY <1>s, <1>e, <2>1, ConcatEmptySeq DEF Queue, SentAll
      <4>2. CASE c \in Due
        <5>1. outbox'[c] = Message(c) /\ events'[c] = Postponed(c)
          BY <2>2, <4>2 DEF Pass
        <5> QED
          BY <1>t, <4>1, <5>1, MessageFacts
      <4>3. CASE c \notin Due
        <5>1. outbox'[c] = <<>> /\ events'[c] = events[c]
          BY <2>2, <3>1, <4>3 DEF Pass
        <5> QED
          BY <1>e, <4>1, <5>1, ConcatEmptySeq
      <4> QED
        BY <4>2, <4>3
    <3> QED
      BY <1>f, <3>1, <3>2
  <2>3. CASE PassThrows
    <3>1. UNCHANGED registry /\ UNCHANGED <<link, outbox, view>>
      BY <2>3 DEF PassThrows
    <3> QED
      BY <1>g, <3>1 DEF Served
  <2> QED
    BY <2>1, <2>2, <2>3
<1>12. ASSUME Wait \/ Wake \/ Sent
       PROVE  Goal
  <2>1. UNCHANGED registry /\ UNCHANGED <<link, outbox, view>>
    BY <1>12 DEF Wait, Wake, Sent
  <2> QED
    BY <1>g, <2>1 DEF Served
<1>13. ASSUME NEW c \in Conn, Send(c)
       PROVE  Goal
  <2>1. /\ UNCHANGED registry /\ UNCHANGED link /\ outbox' = [outbox EXCEPT ![c] = <<>>]
        /\ view' = IF link[c] = "open" THEN [view EXCEPT ![c] = Apply(@, outbox[c])] ELSE view
    BY <1>13 DEF Send
  <2>2. \A d \in Conn : d # c => NextFed(d)
    <3>1. \A d \in Conn : d # c => outbox'[d] = outbox[d] /\ view'[d] = view[d]
      BY <1>t, <2>1 DEF TypeOK
    <3> QED
      BY <1>g, <2>1, <3>1 DEF Served
  <2>3. ASSUME Served(c)'
        PROVE  NextFed(c)
    <3>1. Served(c) /\ link[c] = "open"
      BY <2>1, <2>3 DEF Served
    <3>2. outbox'[c] = <<>> /\ view'[c] = Apply(view[c], outbox[c]) /\ events'[c] = events[c]
      BY <1>t, <2>1, <3>1 DEF TypeOK
    <3>3. outbox'[c] \o events'[c] = events[c]
      BY <1>e, <3>2, ConcatEmptySeq
    <3>4. /\ Apply(view[c], outbox[c] \o events[c]) = Apply(Apply(view[c], outbox[c]), events[c])
          /\ Chained(view[c], outbox[c] \o events[c]) => Chained(Apply(view[c], outbox[c]), events[c])
      <4>1. outbox[c] \in Seq(Event) /\ events[c] \in Seq(Event) /\ view[c] \in [Resource -> Data]
        BY <1>e
      <4>2. ASSUME NEW known \in [Resource -> Data], NEW p \in Seq(Event), NEW q \in Seq(Event)
            PROVE  /\ Apply(known, p \o q) = Apply(Apply(known, p), q)
                   /\ Chained(known, p \o q) => Chained(Apply(known, p), q)
        BY ApplyFacts, ChainedFacts
      <4> QED
        BY <4>1, <4>2
    <3>5. Apply(view[c], outbox[c] \o events[c]) = Projection(flow[c]) /\ Chained(view[c], outbox[c] \o events[c])
      BY <1>v, <3>1 DEF Queue
    <3>6. Projection(flow[c]) = [x \in Resource |-> Seen(flow'[c], content'[x])]
      BY <1>e, <2>1
    <3> QED
      BY <3>2, <3>3, <3>4, <3>5, <3>6
  <2> QED
    BY <2>2, <2>3
<1>14. ASSUME NEW c \in Conn, Elapse(c)
       PROVE  Goal
  <2>1. UNCHANGED <<content, grain, flow, events, websockets, link, outbox, view>>
    BY <1>14 DEF Elapse
  <2> QED
    BY <1>g, <2>1 DEF Served
<1>15. ASSUME UNCHANGED vars
       PROVE  Goal
  <2>1. UNCHANGED <<content, grain, flow, events, websockets, link, outbox, view>>
    BY <1>15 DEF vars
  <2> QED
    BY <1>g, <2>1 DEF Served
<1> HIDE DEF Goal
<1>16. Goal
  BY <1>1, <1>2, <1>3, <1>4, <1>5, <1>6, <1>7, <1>8, <1>9, <1>10, <1>11, <1>12, <1>13, <1>14, <1>15 DEF Next, Thread
<1> QED
  BY <1>p, <1>16

LEMMA InvStep ==
    ASSUME Inv, [Next]_vars
    PROVE  Inv'
BY StructureStep, FeedsStep DEF Inv

LEMMA InvInit ==
    ASSUME Init
    PROVE  Inv
BY StructureInit DEF Init, Inv, Feeds, Served

\* What a client knows, with the message that is being sent and the events that wait for it,
\* is the registry as its subscription sees it, whatever the rate and size of messages.
THEOREM FeedConsistentHolds == Spec => []FeedConsistent
<1>1. Init => Inv
  BY InvInit
<1>2. Inv /\ [Next]_vars => Inv'
  BY InvStep
<1>3. Inv => FeedConsistent
  BY DEF Inv, Feeds, Fed, Queue, FeedConsistent
<1> QED
  BY <1>1, <1>2, <1>3, PTL DEF Spec

\* Each waiting event follows from the one before.
THEOREM EventsChainHolds == Spec => []EventsChain
<1>1. Init => Inv
  BY InvInit
<1>2. Inv /\ [Next]_vars => Inv'
  BY InvStep
<1>3. Inv => EventsChain
  BY DEF Inv, Feeds, Fed, Queue, Chained, EventsChain
<1> QED
  BY <1>1, <1>2, <1>3, PTL DEF Spec

-----------------------------------------------------------------------------
(* Paging: the pages of a query of resources, in a registry of its own *)

CONSTANTS Id, Wanted, Limits, MaxTime

VARIABLES clock, there, created, updated, client

Pages == INSTANCE Paging

PageParameters ==
    /\ IsFiniteSet(Id) /\ Wanted \subseteq Id
    /\ Limits \subseteq Nat
    /\ MaxTime \in Nat \ {0}

\* The times by which a client orders the resources
Times(order) == IF order = "create" THEN created ELSE updated

\* A resource is created before it is updated, and whatever comes next is later than what a
\* client has been told of.
Later ==
    /\ \A i \in Pages!Known : created[i] <= updated[i]
    /\ client.until < Pages!NextTime

PagesInv == Pages!TypeOK /\ Pages!UniqueTimes /\ Later /\ Pages!NothingMissed

\* The module that is instantiated has the cardinality of sets under a name of its own.
LEMMA SameCardinality ==
    \A S : Pages!Cardinality(S) = Cardinality(S)
BY DEF Pages!Cardinality, Cardinality

IsGreatest(t, S, times) ==
    /\ t \in 0..MaxTime
    /\ \E i \in S : times[i] = t
    /\ \A i \in S : times[i] <= t

LEMMA GreatestTime ==
    ASSUME PageParameters, NEW S \in SUBSET Id, S # {}, NEW times \in [Id -> 0..MaxTime]
    PROVE  IsGreatest(CHOOSE t \in {times[i] : i \in S} : \A i \in S : times[i] <= t, S, times)
<1> DEFINE T == {times[i] : i \in S}
<1>1. MaxTime \in Nat /\ T \in SUBSET (0..MaxTime) /\ T # {}
  BY DEF PageParameters
<1>2. PICK m \in T : \A t \in T : t <= m
  <2> HIDE DEF T
  <2> QED
    BY <1>1, NatMax
<1>3. \A i \in S : times[i] <= m
  BY <1>2
<1> DEFINE greatest == CHOOSE t \in T : \A i \in S : times[i] <= t
<1>4. greatest \in T /\ \A i \in S : times[i] <= greatest
  <2> HIDE DEF T
  <2> QED
    BY <1>2, <1>3
<1> HIDE DEF greatest
<1>5. greatest \in 0..MaxTime /\ \E i \in S : times[i] = greatest
  BY <1>1, <1>4
<1> QED
  BY <1>4, <1>5 DEF greatest, IsGreatest

LEMMA MostRecentFacts ==
    ASSUME PageParameters, Pages!TypeOK
    PROVE  /\ Pages!MostRecent \in 0..MaxTime
           /\ \A i \in Pages!Known : updated[i] <= Pages!MostRecent
           /\ Pages!MostRecent = 0 \/ \E i \in Pages!Known : updated[i] = Pages!MostRecent
<1>1. updated \in [Id -> 0..MaxTime] /\ Pages!Known \in SUBSET Id /\ MaxTime \in Nat
  BY DEF Pages!TypeOK, Pages!Known, PageParameters
<1>2. CASE Pages!Known = {}
  BY <1>1, <1>2 DEF Pages!MostRecent
<1>3. CASE Pages!Known # {}
  BY <1>1, <1>3, GreatestTime DEF Pages!MostRecent, IsGreatest
<1> QED
  BY <1>2, <1>3

\* ... and after a step
LEMMA MostRecentNext ==
    ASSUME PageParameters, Pages!TypeOK'
    PROVE  /\ Pages!MostRecent' \in 0..MaxTime
           /\ \A i \in Pages!Known' : updated'[i] <= Pages!MostRecent'
           /\ Pages!MostRecent' = 0 \/ \E i \in Pages!Known' : updated'[i] = Pages!MostRecent'
<1>1. updated' \in [Id -> 0..MaxTime] /\ Pages!Known' \in SUBSET Id /\ MaxTime \in Nat
  BY DEF Pages!TypeOK, Pages!Known, PageParameters
<1>2. CASE Pages!Known' = {}
  BY <1>1, <1>2 DEF Pages!MostRecent
<1>3. CASE Pages!Known' # {}
  BY <1>1, <1>3, GreatestTime DEF Pages!MostRecent, IsGreatest
<1> QED
  BY <1>2, <1>3

LEMMA NextTimeFacts ==
    ASSUME PageParameters, Pages!TypeOK
    PROVE  /\ Pages!NextTime \in Nat /\ Pages!NextTime > 0
           /\ Pages!NextTime > Pages!MostRecent /\ Pages!NextTime >= clock
           /\ Pages!NextTime \in {clock, Pages!MostRecent + 1}
<1>1. clock \in Nat /\ clock > 0 /\ Pages!MostRecent \in Nat
  BY MostRecentFacts DEF Pages!TypeOK, PageParameters
<1> QED
  BY <1>1 DEF Pages!NextTime

LEMMA NextTimeNext ==
    ASSUME PageParameters, Pages!TypeOK'
    PROVE  /\ Pages!NextTime' \in Nat
           /\ Pages!NextTime' > Pages!MostRecent' /\ Pages!NextTime' >= clock'
<1>1. \A t \in Nat, m \in Nat : LET next == IF t > m THEN t ELSE m + 1
                              IN  next \in Nat /\ next > m /\ next >= t
  OBVIOUS
<1>2. clock' \in Nat /\ Pages!MostRecent' \in Nat
  BY MostRecentNext DEF Pages!TypeOK, PageParameters
<1>3. Pages!NextTime' = IF clock' > Pages!MostRecent' THEN clock' ELSE Pages!MostRecent' + 1
  BY DEF Pages!NextTime
<1> QED
  BY <1>1, <1>2, <1>3

LEMMA CursorFacts ==
    ASSUME PageParameters, Pages!TypeOK, NEW order, NEW i \in Id
    PROVE  /\ Times(order) \in [Id -> 0..MaxTime]
           /\ Pages!Cursor(order, i) = Times(order)[i]
           /\ Pages!Cursor(order, i) \in Nat /\ Pages!Cursor(order, i) <= MaxTime
<1>1. created \in [Id -> 0..MaxTime] /\ updated \in [Id -> 0..MaxTime] /\ MaxTime \in Nat
  BY DEF Pages!TypeOK, PageParameters
<1> QED
  BY <1>1 DEF Times, Pages!Cursor

LEMMA GreatestFacts ==
    ASSUME PageParameters, Pages!TypeOK, NEW order, NEW S \in SUBSET Id, S # {}
    PROVE  /\ Pages!Greatest(order, S) \in 0..MaxTime
           /\ \E i \in S : Pages!Cursor(order, i) = Pages!Greatest(order, S)
           /\ \A i \in S : Pages!Cursor(order, i) <= Pages!Greatest(order, S)
<1>1. CASE order = "create"
  <2>1. created \in [Id -> 0..MaxTime]
    BY DEF Pages!TypeOK
  <2>2. Pages!Greatest(order, S) = CHOOSE t \in {created[i] : i \in S} : \A i \in S : created[i] <= t
    BY <1>1 DEF Pages!Greatest, Pages!Cursor
  <2>3. \A i \in S : Pages!Cursor(order, i) = created[i]
    BY <1>1 DEF Pages!Cursor
  <2>4. IsGreatest(Pages!Greatest(order, S), S, created)
    <3>1. IsGreatest(CHOOSE t \in {created[i] : i \in S} : \A i \in S : created[i] <= t, S, created)
      BY <2>1, GreatestTime
    <3> QED
      BY <2>2, <3>1
  <2> QED
    BY <2>3, <2>4 DEF IsGreatest
<1>2. CASE order # "create"
  <2>1. updated \in [Id -> 0..MaxTime]
    BY DEF Pages!TypeOK
  <2>2. Pages!Greatest(order, S) = CHOOSE t \in {updated[i] : i \in S} : \A i \in S : updated[i] <= t
    BY <1>2 DEF Pages!Greatest, Pages!Cursor
  <2>3. \A i \in S : Pages!Cursor(order, i) = updated[i]
    BY <1>2 DEF Pages!Cursor
  <2>4. IsGreatest(Pages!Greatest(order, S), S, updated)
    <3>1. IsGreatest(CHOOSE t \in {updated[i] : i \in S} : \A i \in S : updated[i] <= t, S, updated)
      BY <2>1, GreatestTime
    <3> QED
      BY <2>2, <3>1
  <2> QED
    BY <2>3, <2>4 DEF IsGreatest
<1> QED
  BY <1>1, <1>2

\* The resources of a request
LEMMA MatchingFacts ==
    ASSUME PageParameters, NEW order, NEW since, NEW until
    PROVE  /\ Pages!Matching(order, since, until) \in SUBSET Id
           /\ \A S \in SUBSET Pages!Matching(order, since, until) : IsFiniteSet(S) /\ Cardinality(S) \in Nat
           /\ Pages!Newest(order, Pages!Matching(order, since, until), 0) = {}
           /\ Pages!Oldest(order, Pages!Matching(order, since, until), 0) = {}
<1> DEFINE all == Pages!Matching(order, since, until)
<1>1. all \in SUBSET Id
  BY DEF Pages!Matching, PageParameters
<1>2. \A S \in SUBSET all : IsFiniteSet(S) /\ Cardinality(S) \in Nat
  <2>1. IsFiniteSet(all)
    BY <1>1, FS_Subset DEF PageParameters
  <2> HIDE DEF all
  <2> QED
    BY <2>1, FS_Subset, FS_CardinalityType
<1> HIDE DEF all
<1>3. Pages!Newest(order, all, 0) = {} /\ Pages!Oldest(order, all, 0) = {}
  <2> DEFINE above(i) == {j \in all : Pages!Cursor(order, j) > Pages!Cursor(order, i)}
             below(i) == {j \in all : Pages!Cursor(order, j) < Pages!Cursor(order, i)}
  <2>1. \A i \in all : Cardinality(above(i)) \in Nat /\ Cardinality(below(i)) \in Nat
    BY <1>2
  <2>2. /\ Pages!Newest(order, all, 0) = {i \in all : Cardinality(above(i)) < 0}
        /\ Pages!Oldest(order, all, 0) = {i \in all : Cardinality(below(i)) < 0}
    BY SameCardinality DEF Pages!Newest, Pages!Oldest
  <2>3. \A n \in Nat : ~ n < 0
    OBVIOUS
  <2> HIDE DEF above, below
  <2> QED
    BY <2>1, <2>2, <2>3
<1> QED
  BY <1>1, <1>2, <1>3 DEF all

\* A page has, with a resource, all that come before it in its direction; it has one if there
\* are any.
LEMMA PageFacts ==
    ASSUME PageParameters, Pages!TypeOK, NEW order, NEW since, NEW until, NEW limit \in Nat
    PROVE  LET all == Pages!Matching(order, since, until)
               newest == Pages!Newest(order, all, limit)
               oldest == Pages!Oldest(order, all, limit)
           IN  /\ newest \subseteq all /\ oldest \subseteq all
               /\ \A i \in newest, j \in all : Pages!Cursor(order, j) >= Pages!Cursor(order, i) => j \in newest
               /\ \A i \in oldest, j \in all : Pages!Cursor(order, j) <= Pages!Cursor(order, i) => j \in oldest
               /\ limit # 0 /\ all # {} => oldest # {}
<1> DEFINE all == Pages!Matching(order, since, until)
           newest == Pages!Newest(order, all, limit)
           oldest == Pages!Oldest(order, all, limit)
           c(i) == Pages!Cursor(order, i)
           above(i) == {j \in all : c(j) > c(i)}
           below(i) == {j \in all : c(j) < c(i)}
<1>1. newest = {i \in all : Cardinality(above(i)) < limit} /\ oldest = {i \in all : Cardinality(below(i)) < limit}
  <2> HIDE DEF all
  <2> QED
    BY SameCardinality DEF Pages!Newest, Pages!Oldest
<1>2. all \in SUBSET Id /\ \A S \in SUBSET all : IsFiniteSet(S) /\ Cardinality(S) \in Nat
  BY MatchingFacts
<1>3. \A i \in all : c(i) \in Nat
  BY <1>2, CursorFacts
<1> HIDE DEF all, newest, oldest, c
<1>4. \A i \in all, j \in all : /\ c(j) >= c(i) => above(j) \in SUBSET above(i)
                                /\ c(j) <= c(i) => below(j) \in SUBSET below(i)
  BY <1>3
<1>5. \A i \in all : /\ above(i) \in SUBSET all /\ IsFiniteSet(above(i)) /\ Cardinality(above(i)) \in Nat
                     /\ below(i) \in SUBSET all /\ IsFiniteSet(below(i)) /\ Cardinality(below(i)) \in Nat
  BY <1>2
<1>6. \A i \in all, j \in all : /\ c(j) >= c(i) => Cardinality(above(j)) <= Cardinality(above(i))
                                /\ c(j) <= c(i) => Cardinality(below(j)) <= Cardinality(below(i))
  <2> HIDE DEF above, below
  <2> QED
    BY <1>4, <1>5, FS_Subset
<1>7. \A i \in newest, j \in all : c(j) >= c(i) => j \in newest
  <2> HIDE DEF above, below
  <2> QED
    BY <1>1, <1>5, <1>6
<1>8. \A i \in oldest, j \in all : c(j) <= c(i) => j \in oldest
  <2> HIDE DEF above, below
  <2> QED
    BY <1>1, <1>5, <1>6
<1>9. ASSUME limit # 0, all # {}
      PROVE  oldest # {}
  <2> DEFINE T == {c(i) : i \in all}
  <2>1. PICK t \in T : \A u \in T : t <= u
    <3>1. T \in SUBSET Nat /\ T # {}
      BY <1>3, <1>9
    <3> QED
      BY <3>1, NatMin
  <2>2. PICK i \in all : t = c(i)
    OBVIOUS
  <2>3. below(i) = {}
    BY <1>3, <2>1, <2>2
  <2>4. Cardinality(below(i)) = 0
    BY <2>3, FS_EmptySet
  <2> QED
    BY <1>1, <1>9, <2>4
<1> QED
  BY <1>1, <1>7, <1>8, <1>9 DEF all, newest, oldest, c

\* cursor_based_page without since: no resource is left out of the times it answers for.
LEMMA LastPageFacts ==
    ASSUME PageParameters, Pages!TypeOK, NEW order, NEW since \in 0..MaxTime, NEW until \in 0..MaxTime,
           NEW limit \in Nat
    PROVE  LET all  == Pages!Matching(order, since, until)
               page == Pages!LastPage(order, since, until, limit)
           IN  /\ page = [ids |-> page.ids, since |-> page.since, until |-> until]
               /\ page.ids = Pages!Newest(order, all, limit) /\ page.ids \subseteq all
               /\ page.since \in 0..MaxTime
               /\ page.since = since \/ page.since <= until
               /\ \A i \in all : Pages!Cursor(order, i) > page.since <=> i \in page.ids
<1> DEFINE all  == Pages!Matching(order, since, until)
           page == Pages!LastPage(order, since, until, limit)
           ids  == Pages!Newest(order, all, limit)
           from == IF limit = 0 THEN until
                   ELSE IF ids = all THEN since ELSE Pages!Greatest(order, all \ ids)
           c(i) == Pages!Cursor(order, i)
<1>1. page = [ids |-> ids, since |-> from, until |-> until]
  BY DEF Pages!LastPage
<1>2. MaxTime \in Nat /\ since \in Nat /\ until \in Nat
  BY DEF PageParameters
<1>3. \A i \in all : c(i) \in Nat /\ since < c(i) /\ c(i) <= until
  <2>1. \A i \in all : i \in Id /\ since < c(i) /\ c(i) <= until
    BY MatchingFacts DEF Pages!Matching
  <2> QED
    BY <2>1, CursorFacts
<1>4. ids \subseteq all /\ all \subseteq Id /\ \A i \in ids, j \in all : c(j) >= c(i) => j \in ids
  BY MatchingFacts, PageFacts
<1>5. limit = 0 => ids = {}
  BY MatchingFacts
<1> HIDE DEF all, page, ids, c
<1>6. /\ from \in 0..MaxTime
      /\ from = since \/ from <= until
      /\ \A i \in all : c(i) > from <=> i \in ids
  <2>1. CASE limit = 0
    BY <1>2, <1>3, <1>5, <2>1
  <2>2. CASE limit # 0 /\ ids = all
    BY <1>2, <1>3, <2>2
  <2>3. CASE limit # 0 /\ ids # all
    <3>1. all \ ids \in SUBSET Id /\ all \ ids # {}
      BY <1>4, <2>3
    <3>2. /\ from \in 0..MaxTime
          /\ \E i \in all \ ids : c(i) = from
          /\ \A i \in all \ ids : c(i) <= from
      BY <2>3, <3>1, GreatestFacts DEF c
    <3> HIDE DEF from
    <3>3. from \in Nat
      BY <1>2, <3>2
    <3> QED
      BY <1>3, <1>4, <3>2, <3>3
  <2> QED
    BY <2>1, <2>2, <2>3
<1> HIDE DEF from
<1> QED
  BY <1>1, <1>4, <1>6 DEF all, page, ids, c

\* cursor_based_page with since
LEMMA FirstPageFacts ==
    ASSUME PageParameters, Pages!TypeOK, NEW order, NEW since \in 0..MaxTime, NEW until \in 0..MaxTime,
           NEW limit \in Nat
    PROVE  LET all  == Pages!Matching(order, since, until)
               page == Pages!FirstPage(order, since, until, limit)
           IN  /\ page = [ids |-> page.ids, since |-> since, until |-> page.until]
               /\ page.ids = Pages!Oldest(order, all, limit) /\ page.ids \subseteq all
               /\ page.until \in 0..MaxTime
               /\ page.until = since \/ page.until <= until
               /\ \A i \in all : Pages!Cursor(order, i) <= page.until <=> i \in page.ids
<1> DEFINE all  == Pages!Matching(order, since, until)
           page == Pages!FirstPage(order, since, until, limit)
           ids  == Pages!Oldest(order, all, limit)
           upto == IF limit = 0 THEN since
                   ELSE IF ids = all THEN until ELSE Pages!Greatest(order, ids)
           c(i) == Pages!Cursor(order, i)
<1>1. page = [ids |-> ids, since |-> since, until |-> upto]
  BY DEF Pages!FirstPage
<1>2. MaxTime \in Nat /\ since \in Nat /\ until \in Nat
  BY DEF PageParameters
<1>3. \A i \in all : c(i) \in Nat /\ since < c(i) /\ c(i) <= until
  <2>1. \A i \in all : i \in Id /\ since < c(i) /\ c(i) <= until
    BY MatchingFacts DEF Pages!Matching
  <2> QED
    BY <2>1, CursorFacts
<1>4. /\ ids \subseteq all /\ all \subseteq Id /\ \A i \in ids, j \in all : c(j) <= c(i) => j \in ids
      /\ limit # 0 /\ all # {} => ids # {}
  BY MatchingFacts, PageFacts
<1>5. limit = 0 => ids = {}
  BY MatchingFacts
<1> HIDE DEF all, page, ids, c
<1>6. /\ upto \in 0..MaxTime
      /\ upto = since \/ upto <= until
      /\ \A i \in all : c(i) <= upto <=> i \in ids
  <2>1. CASE limit = 0
    BY <1>2, <1>3, <1>5, <2>1
  <2>2. CASE limit # 0 /\ ids = all
    BY <1>2, <1>3, <2>2
  <2>3. CASE limit # 0 /\ ids # all
    <3>1. ids \in SUBSET Id /\ ids # {}
      BY <1>4, <2>3
    <3>2. /\ upto \in 0..MaxTime
          /\ \E i \in ids : c(i) = upto
          /\ \A i \in ids : c(i) <= upto
      BY <2>3, <3>1, GreatestFacts DEF c
    <3> HIDE DEF upto
    <3>3. upto \in Nat
      BY <1>2, <3>2
    <3> QED
      BY <1>3, <1>4, <3>2, <3>3
  <2> QED
    BY <2>1, <2>2, <2>3
<1> HIDE DEF upto
<1> QED
  BY <1>1, <1>4, <1>6 DEF all, page, ids, c

LEMMA UntilFacts ==
    ASSUME PageParameters, Pages!TypeOK, NEW since \in 0..MaxTime, NEW until \in 0..MaxTime
    PROVE  /\ Pages!Until(since, until) \in 0..MaxTime
           /\ Pages!Until(since, until) = since \/ Pages!Until(since, until) <= Pages!MostRecent
           /\ Pages!Until(since, until) <= until \/ Pages!Until(since, until) = since
<1>1. Pages!MostRecent \in 0..MaxTime /\ MaxTime \in Nat
  BY MostRecentFacts DEF PageParameters
<1> QED
  BY <1>1 DEF Pages!Until

\* What a change to a resource does: its time is one that no resource has and that no client
\* has been told of.
Changed(i) ==
    /\ i \in Id /\ Pages!NextTime <= MaxTime
    /\ there' \in [Id -> {"unknown", "extant", "erased"}]
    /\ there'[i] # "unknown" /\ \A j \in Id \ {i} : there'[j] = there[j]
    /\ updated' = [updated EXCEPT ![i] = Pages!NextTime]
    /\ created' = [created EXCEPT ![i] = Pages!NextTime] \/ (there[i] = "extant" /\ created' = created)
    /\ clock' = clock /\ client' = client

LEMMA ChangedTypes ==
    ASSUME PageParameters, Pages!TypeOK, NEW i, Changed(i)
    PROVE  Pages!TypeOK'
<1>1. Pages!NextTime \in 0..MaxTime
  BY NextTimeFacts DEF Changed, PageParameters
<1> QED
  BY <1>1 DEF Pages!TypeOK, Changed

LEMMA ChangeStep ==
    ASSUME PageParameters, PagesInv, NEW i, Changed(i)
    PROVE  PagesInv'
<1> DEFINE next == Pages!NextTime
<1>1. Pages!TypeOK /\ Pages!TypeOK'
  BY ChangedTypes DEF PagesInv
<1>2. /\ next \in Nat /\ next > 0 /\ next > Pages!MostRecent
      /\ Pages!MostRecent \in Nat /\ client.until \in Nat /\ client.until < next
  BY <1>1, NextTimeFacts, MostRecentFacts DEF PagesInv, Later, Pages!TypeOK, PageParameters
<1>3. \A j \in Id : /\ created[j] \in Nat /\ updated[j] \in Nat
                    /\ j \in Pages!Known => created[j] <= updated[j] /\ updated[j] <= Pages!MostRecent
  BY <1>1, MostRecentFacts DEF PagesInv, Later, Pages!TypeOK
<1>4. \A j \in Pages!Known : created[j] < next /\ updated[j] < next
  BY <1>2, <1>3 DEF Pages!Known
<1>5. /\ i \in Id /\ updated'[i] = next
      /\ created'[i] = next \/ (i \in Pages!Known /\ created'[i] = created[i])
      /\ \A j \in Id \ {i} : /\ updated'[j] = updated[j] /\ created'[j] = created[j]
                             /\ there'[j] = there[j]
      /\ there'[i] # "unknown" /\ client' = client
  BY <1>1 DEF Changed, Pages!TypeOK, Pages!Known
<1>6. \A j \in Id : j \in Pages!Known' <=> j = i \/ j \in Pages!Known
  BY <1>5 DEF Pages!Known
<1>7. Pages!Known \subseteq Id /\ Pages!Known' \subseteq Id
  BY DEF Pages!Known
<1>8. Pages!NextTime' \in Nat /\ Pages!NextTime' > next
  <2>1. Pages!MostRecent' \in Nat /\ next <= Pages!MostRecent'
    BY <1>1, <1>5, <1>6, MostRecentNext DEF PageParameters
  <2> HIDE DEF next
  <2> QED
    BY <1>1, <1>2, <2>1, NextTimeNext
<1> HIDE DEF next
<1>9. Pages!UniqueTimes'
  <2> SUFFICES ASSUME NEW j \in Pages!Known', NEW k \in Pages!Known', j # k
               PROVE  created'[j] # created'[k] /\ updated'[j] # updated'[k]
    BY DEF Pages!UniqueTimes
  <2>1. \A m \in Pages!Known, n \in Pages!Known : m # n => created[m] # created[n] /\ updated[m] # updated[n]
    BY DEF PagesInv, Pages!UniqueTimes
  <2>2. CASE j # i /\ k # i
    BY <1>5, <1>6, <1>7, <2>1, <2>2
  <2>3. CASE j = i
    BY <1>2, <1>3, <1>4, <1>5, <1>6, <1>7, <2>1, <2>3
  <2>4. CASE k = i
    BY <1>2, <1>3, <1>4, <1>5, <1>6, <1>7, <2>1, <2>4
  <2> QED
    BY <2>2, <2>3, <2>4
<1>10. Later'
  <2>1. \A j \in Pages!Known' : created'[j] <= updated'[j]
    BY <1>2, <1>3, <1>4, <1>5, <1>6, <1>7
  <2>2. client'.until < Pages!NextTime'
    BY <1>2, <1>5, <1>8
  <2> QED
    BY <2>1, <2>2 DEF Later
<1>11. Pages!NothingMissed'
  <2> SUFFICES ASSUME client'.order # "none",
                      NEW j \in Pages!Matching(client.order, client.since, client.until)'
               PROVE  client'.told[j] = Pages!Cursor(client.order, j)'
    BY <1>5 DEF Pages!NothingMissed
  <2>1. /\ j \in Wanted /\ j \in Id /\ there'[j] = "extant"
        /\ client.since < Pages!Cursor(client.order, j)' /\ Pages!Cursor(client.order, j)' <= client.until
    BY <1>5 DEF Pages!Matching, PageParameters
  <2>2. Pages!Cursor(client.order, j)' = Pages!Cursor(client.order, j) /\ there[j] = "extant"
    <3>1. CASE j # i
      BY <1>5, <2>1, <3>1 DEF Pages!Cursor
    <3>2. CASE j = i
      <4>1. Pages!Cursor(client.order, j)' # next
        BY <1>2, <2>1
      <4>2. client.order = "create" /\ created'[i] # next
        BY <1>5, <3>2, <4>1 DEF Pages!Cursor
      <4>3. there[i] = "extant" /\ created'[i] = created[i]
        <5>1. created \in [Id -> 0..MaxTime]
          BY <1>1 DEF Pages!TypeOK
        <5> QED
          BY <1>5, <4>2, <5>1 DEF Changed, next
      <4> QED
        BY <1>5, <3>2, <4>2, <4>3 DEF Pages!Cursor
    <3> QED
      BY <3>1, <3>2
  <2>3. j \in Pages!Matching(client.order, client.since, client.until)
    BY <2>1, <2>2 DEF Pages!Matching
  <2> QED
    BY <1>5, <2>2, <2>3 DEF PagesInv, Pages!NothingMissed
<1> QED
  BY <1>1, <1>9, <1>10, <1>11 DEF PagesInv

\* Each change is one of these.
LEMMA Changes ==
    ASSUME PageParameters, Pages!TypeOK, NEW i \in Id,
           Pages!Insert(i) \/ Pages!Modify(i) \/ Pages!Erase(i)
    PROVE  Changed(i)
<1>1. there \in [Id -> {"unknown", "extant", "erased"}]
  BY DEF Pages!TypeOK
<1>2. CASE Pages!Insert(i)
  BY <1>1, <1>2 DEF Pages!Insert, Changed
<1>3. CASE Pages!Modify(i)
  BY <1>1, <1>3 DEF Pages!Modify, Changed
<1>4. CASE Pages!Erase(i)
  BY <1>1, <1>4 DEF Pages!Erase, Changed
<1> QED
  BY <1>2, <1>3, <1>4

\* What is forgotten was older than the clock, so no time is given twice.
LEMMA ForgetStep ==
    ASSUME PageParameters, PagesInv, NEW i \in Id, Pages!Forget(i)
    PROVE  PagesInv'
<1>1. /\ Pages!TypeOK /\ there[i] = "erased" /\ updated[i] < clock
      /\ there' = [there EXCEPT ![i] = "unknown"]
      /\ clock' = clock /\ created' = created /\ updated' = updated /\ client' = client
  BY DEF PagesInv, Pages!Forget
<1>2. there' \in [Id -> {"unknown", "extant", "erased"}] /\ \A j \in Id \ {i} : there'[j] = there[j]
  BY <1>1 DEF Pages!TypeOK
<1>3. Pages!TypeOK'
  BY <1>1, <1>2 DEF Pages!TypeOK
<1>4. there'[i] = "unknown" /\ Pages!Known' = Pages!Known \ {i} /\ Pages!Known \subseteq Id
  BY <1>1, <1>2 DEF Pages!Known, Pages!TypeOK
<1>5. /\ \A j \in Id : updated[j] \in Nat
      /\ clock \in Nat /\ client.until \in Nat /\ Pages!NextTime \in Nat
      /\ Pages!MostRecent \in Nat /\ Pages!MostRecent' \in Nat
      /\ client.until < Pages!NextTime
  BY <1>1, <1>3, MostRecentFacts, MostRecentNext, NextTimeFacts
  DEF PagesInv, Later, Pages!TypeOK, PageParameters
<1>6. client.until < Pages!NextTime'
  <2>1. Pages!NextTime' \in Nat /\ Pages!NextTime' > Pages!MostRecent' /\ Pages!NextTime' >= clock
    BY <1>1, <1>3, NextTimeNext
  <2>2. CASE Pages!NextTime = clock
    BY <1>5, <2>1, <2>2
  <2>3. CASE Pages!NextTime # clock
    <3>1. Pages!NextTime = Pages!MostRecent + 1 /\ Pages!MostRecent >= clock
      BY <1>1, <1>5, <2>3, NextTimeFacts
    <3>2. clock > 0
      BY <1>1 DEF Pages!TypeOK, PageParameters
    <3>3. PICK j \in Pages!Known : updated[j] = Pages!MostRecent
      BY <1>1, <1>5, <3>1, <3>2, MostRecentFacts
    <3>4. j # i /\ j \in Pages!Known'
      BY <1>1, <1>4, <1>5, <3>1, <3>3
    <3>5. updated[j] <= Pages!MostRecent'
      BY <1>1, <1>3, <3>4, MostRecentNext
    <3> QED
      BY <1>5, <2>1, <3>1, <3>3, <3>5
  <2> QED
    BY <2>2, <2>3
<1>7. Later'
  BY <1>1, <1>4, <1>6 DEF PagesInv, Later
<1>8. Pages!UniqueTimes'
  BY <1>1, <1>4 DEF PagesInv, Pages!UniqueTimes
<1>9. Pages!NothingMissed'
  <2> SUFFICES ASSUME client.order # "none",
                      NEW j \in Pages!Matching(client.order, client.since, client.until)'
               PROVE  client.told[j] = Pages!Cursor(client.order, j)'
    BY <1>1 DEF Pages!NothingMissed
  <2>1. Pages!Cursor(client.order, j)' = Pages!Cursor(client.order, j)
    BY <1>1 DEF Pages!Cursor
  <2>2. /\ j \in Wanted /\ j \in Id /\ there'[j] = "extant"
        /\ client.since < Pages!Cursor(client.order, j) /\ Pages!Cursor(client.order, j) <= client.until
    BY <1>1, <2>1 DEF Pages!Matching, PageParameters
  <2>3. there[j] = "extant"
    BY <1>2, <1>4, <2>2
  <2> QED
    BY <2>1, <2>2, <2>3 DEF PagesInv, Pages!NothingMissed, Pages!Matching
<1> QED
  BY <1>3, <1>7, <1>8, <1>9 DEF PagesInv

LEMMA TickStep ==
    ASSUME PageParameters, PagesInv, Pages!Tick
    PROVE  PagesInv'
<1>1. /\ Pages!TypeOK /\ clock < MaxTime /\ clock' = clock + 1
      /\ there' = there /\ created' = created /\ updated' = updated /\ client' = client
  BY DEF PagesInv, Pages!Tick
<1>2. Pages!TypeOK'
  BY <1>1 DEF Pages!TypeOK, PageParameters
<1>3. Pages!Known' = Pages!Known /\ Pages!MostRecent' = Pages!MostRecent
  BY <1>1 DEF Pages!Known, Pages!MostRecent
<1>4. client.until < Pages!NextTime'
  <2>1. /\ clock \in Nat /\ client.until \in Nat /\ Pages!MostRecent \in Nat
        /\ client.until < Pages!NextTime /\ Pages!NextTime \in {clock, Pages!MostRecent + 1}
    BY <1>1, MostRecentFacts, NextTimeFacts DEF PagesInv, Later, Pages!TypeOK, PageParameters
  <2>2. Pages!NextTime' \in Nat /\ Pages!NextTime' > Pages!MostRecent /\ Pages!NextTime' >= clock + 1
    BY <1>1, <1>2, <1>3, NextTimeNext
  <2> QED
    BY <2>1, <2>2
<1>5. Later' /\ Pages!UniqueTimes'
  BY <1>1, <1>3, <1>4 DEF PagesInv, Later, Pages!UniqueTimes
<1>6. Pages!NothingMissed'
  BY <1>1 DEF PagesInv, Pages!NothingMissed, Pages!Matching, Pages!Cursor
<1> QED
  BY <1>2, <1>5, <1>6 DEF PagesInv

\* A request: what it takes of the client is that it has been told of everything between the
\* times it comes to, and of nothing that is still to come.
LEMMA RequestStep ==
    ASSUME PageParameters, PagesInv, UNCHANGED <<clock, there, created, updated>>,
           client' \in [order : {"none", "create", "update"}, since : 0..MaxTime,
                        until : 0..MaxTime, told : [Id -> 0..MaxTime]],
           client'.until <= client.until \/ client'.until <= Pages!MostRecent,
           \A i \in Pages!Matching(client'.order, client'.since, client'.until) :
                client'.told[i] = Pages!Cursor(client'.order, i)
    PROVE  PagesInv'
<1>1. Pages!TypeOK /\ Pages!TypeOK'
  BY DEF PagesInv, Pages!TypeOK
<1>2. Pages!Known' = Pages!Known /\ Pages!MostRecent' = Pages!MostRecent /\ Pages!NextTime' = Pages!NextTime
  BY DEF Pages!Known, Pages!MostRecent, Pages!NextTime
<1>3. client'.until < Pages!NextTime
  <2>1. /\ Pages!NextTime \in Nat /\ Pages!MostRecent \in Nat /\ client.until \in Nat /\ client'.until \in Nat
        /\ Pages!MostRecent < Pages!NextTime /\ client.until < Pages!NextTime
    BY <1>1, MostRecentFacts, NextTimeFacts DEF PagesInv, Later, Pages!TypeOK, PageParameters
  <2> QED
    BY <2>1
<1>4. Later' /\ Pages!UniqueTimes'
  BY <1>2, <1>3 DEF PagesInv, Later, Pages!UniqueTimes
<1>5. Pages!NothingMissed'
  BY DEF Pages!NothingMissed, Pages!Matching, Pages!Cursor
<1> QED
  BY <1>1, <1>4, <1>5 DEF PagesInv

LEMMA GetLastStep ==
    ASSUME PageParameters, PagesInv, NEW limit \in Limits, NEW order \in {"create", "update"},
           Pages!GetLast(order, limit)
    PROVE  PagesInv'
<1> DEFINE until == Pages!Until(0, MaxTime)
           page  == Pages!LastPage(order, 0, until, limit)
           all   == Pages!Matching(order, 0, until)
           c(i)  == Pages!Cursor(order, i)
<1>1. /\ client' = [order |-> order, since |-> page.since, until |-> page.until,
                    told  |-> [i \in Id |-> IF i \in page.ids THEN c(i) ELSE 0]]
      /\ UNCHANGED <<clock, there, created, updated>>
  BY DEF Pages!GetLast
<1>2. /\ Pages!TypeOK /\ limit \in Nat /\ MaxTime \in Nat /\ 0 \in 0..MaxTime /\ MaxTime \in 0..MaxTime
      /\ Pages!MostRecent \in Nat
  BY MostRecentFacts DEF PagesInv, PageParameters
<1>3. until \in 0..MaxTime /\ (until = 0 \/ until <= Pages!MostRecent)
  BY <1>2, UntilFacts
<1>4. /\ page.until = until /\ page.since \in 0..MaxTime
      /\ \A i \in all : c(i) > page.since <=> i \in page.ids
  <2> HIDE DEF until
  <2> QED
    BY <1>2, <1>3, LastPageFacts
<1>5. \A i \in Id : c(i) \in 0..MaxTime
  BY <1>2, CursorFacts
<1> HIDE DEF until, page
<1>6. \A i \in Pages!Matching(order, page.since, until) : i \in Id /\ i \in page.ids
  <2> SUFFICES ASSUME NEW i \in Pages!Matching(order, page.since, until)
               PROVE  i \in Id /\ i \in page.ids
    OBVIOUS
  <2>1. i \in Wanted /\ i \in Id /\ there[i] = "extant" /\ page.since < c(i) /\ c(i) <= until
    BY DEF Pages!Matching, PageParameters
  <2>2. c(i) \in Nat /\ page.since \in Nat
    BY <1>2, <1>4, <1>5, <2>1
  <2>3. i \in all
    BY <2>1, <2>2 DEF Pages!Matching
  <2> QED
    BY <1>4, <2>1, <2>2, <2>3
<1> HIDE DEF all, c
<1>7. /\ client' \in [order : {"none", "create", "update"}, since : 0..MaxTime,
                      until : 0..MaxTime, told : [Id -> 0..MaxTime]]
      /\ client'.order = order /\ client'.since = page.since /\ client'.until = until
      /\ \A i \in Id : i \in page.ids => client'.told[i] = c(i)
  BY <1>1, <1>2, <1>3, <1>4, <1>5
<1>8. client'.until <= client.until \/ client'.until <= Pages!MostRecent
  BY <1>2, <1>3, <1>7
<1> QED
  BY <1>1, <1>6, <1>7, <1>8, RequestStep DEF c

LEMMA GetNextStep ==
    ASSUME PageParameters, PagesInv, NEW limit \in Limits, Pages!GetNext(limit)
    PROVE  PagesInv'
<1> DEFINE order == client.order
           until == Pages!Until(client.until, MaxTime)
           page  == Pages!FirstPage(order, client.until, until, limit)
           all   == Pages!Matching(order, client.until, until)
           c(i)  == Pages!Cursor(order, i)
<1>1. /\ client' = [client EXCEPT !.until = page.until, !.told = Pages!Told(page.ids)]
      /\ UNCHANGED <<clock, there, created, updated>> /\ order # "none"
  BY DEF Pages!GetNext
<1>2. /\ Pages!TypeOK /\ limit \in Nat /\ MaxTime \in Nat /\ MaxTime \in 0..MaxTime
      /\ client.until \in 0..MaxTime /\ client.since \in 0..MaxTime /\ Pages!MostRecent \in Nat
      /\ client \in [order : {"none", "create", "update"}, since : 0..MaxTime,
                     until : 0..MaxTime, told : [Id -> 0..MaxTime]]
  BY MostRecentFacts DEF PagesInv, PageParameters, Pages!TypeOK
<1>3. until \in 0..MaxTime /\ (until = client.until \/ until <= Pages!MostRecent)
  BY <1>2, UntilFacts
<1>4. /\ page.until \in 0..MaxTime
      /\ page.until = client.until \/ page.until <= until
      /\ \A i \in all : c(i) <= page.until <=> i \in page.ids
  <2> HIDE DEF until
  <2> QED
    BY <1>2, <1>3, FirstPageFacts
<1>5. \A i \in Id : c(i) \in 0..MaxTime
  BY <1>2, CursorFacts
<1>6. Pages!Told(page.ids) = [i \in Id |-> IF i \in page.ids THEN c(i) ELSE client.told[i]]
  BY DEF Pages!Told
<1> HIDE DEF until, page
<1>7. \A i \in Pages!Matching(order, client.since, page.until) :
          i \in Id /\ (i \in page.ids \/ i \in Pages!Matching(order, client.since, client.until))
  <2> SUFFICES ASSUME NEW i \in Pages!Matching(order, client.since, page.until),
                      i \notin Pages!Matching(order, client.since, client.until)
               PROVE  i \in Id /\ i \in page.ids
    BY DEF Pages!Matching, PageParameters
  <2>1. i \in Wanted /\ i \in Id /\ there[i] = "extant" /\ client.since < c(i) /\ c(i) <= page.until
    BY DEF Pages!Matching, PageParameters
  <2>2. c(i) \in Nat /\ client.until \in Nat /\ page.until \in Nat /\ until \in Nat
    BY <1>2, <1>3, <1>4, <1>5, <2>1
  <2>3. client.until < c(i)
    BY <2>1, <2>2 DEF Pages!Matching
  <2>4. i \in all
    BY <1>4, <2>1, <2>2, <2>3 DEF Pages!Matching
  <2> QED
    BY <1>4, <2>1, <2>4
<1>8. \A i \in Pages!Matching(order, client.since, client.until) : client.told[i] = c(i)
  BY <1>1 DEF PagesInv, Pages!NothingMissed
<1> HIDE DEF all, c
<1>9. /\ client' \in [order : {"none", "create", "update"}, since : 0..MaxTime,
                      until : 0..MaxTime, told : [Id -> 0..MaxTime]]
      /\ client'.order = order /\ client'.since = client.since /\ client'.until = page.until
      /\ \A i \in Id : client'.told[i] = IF i \in page.ids THEN c(i) ELSE client.told[i]
  <2> DEFINE told == Pages!Told(page.ids)
  <2>1. told \in [Id -> 0..MaxTime] /\ \A i \in Id : told[i] = IF i \in page.ids THEN c(i) ELSE client.told[i]
    BY <1>2, <1>5, <1>6
  <2>2. client' = [client EXCEPT !.until = page.until, !.told = told]
    BY <1>1
  <2> HIDE DEF told
  <2> QED
    BY <1>2, <1>4, <2>1, <2>2
<1>10. client'.until <= client.until \/ client'.until <= Pages!MostRecent
  <2>1. page.until \in Nat /\ until \in Nat /\ client.until \in Nat
    BY <1>2, <1>3, <1>4
  <2> QED
    BY <1>2, <1>3, <1>4, <1>9, <2>1
<1>11. \A i \in Pages!Matching(client'.order, client'.since, client'.until) : client'.told[i] = c(i)
  BY <1>7, <1>8, <1>9
<1> QED
  BY <1>1, <1>9, <1>10, <1>11, RequestStep DEF c

LEMMA GetPrevStep ==
    ASSUME PageParameters, PagesInv, NEW limit \in Limits, Pages!GetPrev(limit)
    PROVE  PagesInv'
<1> DEFINE order == client.order
           until == Pages!Until(0, client.since)
           page  == Pages!LastPage(order, 0, until, limit)
           all   == Pages!Matching(order, 0, until)
           c(i)  == Pages!Cursor(order, i)
<1>1. /\ client' = [client EXCEPT !.since = page.since, !.told = Pages!Told(page.ids)]
      /\ UNCHANGED <<clock, there, created, updated>> /\ order # "none"
  BY DEF Pages!GetPrev
<1>2. /\ Pages!TypeOK /\ limit \in Nat /\ MaxTime \in Nat /\ 0 \in 0..MaxTime
      /\ client.until \in 0..MaxTime /\ client.since \in 0..MaxTime /\ Pages!MostRecent \in Nat
      /\ client \in [order : {"none", "create", "update"}, since : 0..MaxTime,
                     until : 0..MaxTime, told : [Id -> 0..MaxTime]]
  BY MostRecentFacts DEF PagesInv, PageParameters, Pages!TypeOK
<1>3. until \in 0..MaxTime
  BY <1>2, UntilFacts
<1>4. /\ page.since \in 0..MaxTime
      /\ \A i \in all : c(i) > page.since <=> i \in page.ids
  <2> HIDE DEF until
  <2> QED
    BY <1>2, <1>3, LastPageFacts
<1>5. \A i \in Id : c(i) \in 0..MaxTime
  BY <1>2, CursorFacts
<1>6. Pages!Told(page.ids) = [i \in Id |-> IF i \in page.ids THEN c(i) ELSE client.told[i]]
  BY DEF Pages!Told
<1>7. \A i \in Id : there[i] = "extant" => c(i) <= Pages!MostRecent
  <2> SUFFICES ASSUME NEW i \in Id, there[i] = "extant"
               PROVE  c(i) <= Pages!MostRecent
    OBVIOUS
  <2>1. i \in Pages!Known
    BY DEF Pages!Known
  <2>2. created[i] <= updated[i] /\ updated[i] <= Pages!MostRecent
    BY <1>2, <2>1, MostRecentFacts DEF PagesInv, Later
  <2>3. created[i] \in Nat /\ updated[i] \in Nat
    BY <1>2 DEF Pages!TypeOK
  <2> QED
    BY <1>2, <2>2, <2>3 DEF Pages!Cursor
<1>8. until = IF Pages!MostRecent < client.since THEN Pages!MostRecent ELSE client.since
  BY <1>2 DEF Pages!Until
<1> HIDE DEF until, page
<1>9. \A i \in Pages!Matching(order, page.since, client.until) :
          i \in Id /\ (i \in page.ids \/ i \in Pages!Matching(order, client.since, client.until))
  <2> SUFFICES ASSUME NEW i \in Pages!Matching(order, page.since, client.until),
                      i \notin Pages!Matching(order, client.since, client.until)
               PROVE  i \in Id /\ i \in page.ids
    BY DEF Pages!Matching, PageParameters
  <2>1. i \in Wanted /\ i \in Id /\ there[i] = "extant" /\ page.since < c(i) /\ c(i) <= client.until
    BY DEF Pages!Matching, PageParameters
  <2>2. c(i) \in Nat /\ client.since \in Nat /\ page.since \in Nat /\ until \in Nat
    BY <1>2, <1>3, <1>4, <1>5, <2>1
  <2>3. c(i) <= client.since
    BY <2>1, <2>2 DEF Pages!Matching
  <2>4. c(i) <= Pages!MostRecent
    BY <1>7, <2>1
  <2>5. c(i) <= until /\ 0 < c(i)
    BY <1>2, <1>8, <2>1, <2>2, <2>3, <2>4
  <2>6. i \in all
    BY <2>1, <2>5 DEF Pages!Matching
  <2> QED
    BY <1>4, <2>1, <2>2, <2>6
<1>10. \A i \in Pages!Matching(order, client.since, client.until) : client.told[i] = c(i)
  BY <1>1 DEF PagesInv, Pages!NothingMissed
<1> HIDE DEF all, c
<1>11. /\ client' \in [order : {"none", "create", "update"}, since : 0..MaxTime,
                       until : 0..MaxTime, told : [Id -> 0..MaxTime]]
       /\ client'.order = order /\ client'.since = page.since /\ client'.until = client.until
       /\ \A i \in Id : client'.told[i] = IF i \in page.ids THEN c(i) ELSE client.told[i]
  <2> DEFINE told == Pages!Told(page.ids)
  <2>1. told \in [Id -> 0..MaxTime] /\ \A i \in Id : told[i] = IF i \in page.ids THEN c(i) ELSE client.told[i]
    BY <1>2, <1>5, <1>6
  <2>2. client' = [client EXCEPT !.since = page.since, !.told = told]
    BY <1>1
  <2> HIDE DEF told
  <2> QED
    BY <1>2, <1>4, <2>1, <2>2
<1>12. client'.until <= client.until
  BY <1>2, <1>11
<1>13. \A i \in Pages!Matching(client'.order, client'.since, client'.until) : client'.told[i] = c(i)
  BY <1>9, <1>10, <1>11
<1> QED
  BY <1>1, <1>11, <1>12, <1>13, RequestStep DEF c

\* Init and the steps
LEMMA PagesInit ==
    ASSUME PageParameters, Pages!Init
    PROVE  PagesInv
<1>1. /\ clock = 1 /\ there = [i \in Id |-> "unknown"]
      /\ created = [i \in Id |-> 0] /\ updated = [i \in Id |-> 0]
      /\ client = [order |-> "none", since |-> 0, until |-> 0, told |-> [i \in Id |-> 0]]
  BY DEF Pages!Init
<1>2. MaxTime \in Nat /\ MaxTime >= 1
  BY DEF PageParameters
<1>3. Pages!TypeOK
  BY <1>1, <1>2 DEF Pages!TypeOK
<1>4. Pages!Known = {}
  BY <1>1 DEF Pages!Known
<1>5. Pages!UniqueTimes
  BY <1>4 DEF Pages!UniqueTimes
<1>6. Later
  BY <1>1, <1>3, <1>4, NextTimeFacts DEF Later
<1>7. Pages!NothingMissed
  BY <1>1 DEF Pages!NothingMissed
<1> QED
  BY <1>3, <1>5, <1>6, <1>7 DEF PagesInv

LEMMA PagesStep ==
    ASSUME PageParameters, PagesInv, [Pages!Next]_(Pages!pagingVars)
    PROVE  PagesInv'
<1>1. ASSUME NEW i \in Id, Pages!Insert(i) \/ Pages!Modify(i) \/ Pages!Erase(i)
      PROVE  PagesInv'
  BY <1>1, Changes, ChangeStep DEF PagesInv
<1>2. ASSUME NEW i \in Id, Pages!Forget(i)
      PROVE  PagesInv'
  BY <1>2, ForgetStep
<1>3. CASE Pages!Tick
  BY <1>3, TickStep
<1>4. ASSUME NEW limit \in Limits, NEW order \in {"create", "update"}, Pages!GetLast(order, limit)
      PROVE  PagesInv'
  BY <1>4, GetLastStep
<1>5. ASSUME NEW limit \in Limits, Pages!GetNext(limit)
      PROVE  PagesInv'
  BY <1>5, GetNextStep
<1>6. ASSUME NEW limit \in Limits, Pages!GetPrev(limit)
      PROVE  PagesInv'
  BY <1>6, GetPrevStep
<1>7. CASE UNCHANGED Pages!pagingVars
  <2>1. clock' = clock /\ there' = there /\ created' = created /\ updated' = updated /\ client' = client
    BY <1>7 DEF Pages!pagingVars
  <2>2. client' \in [order : {"none", "create", "update"}, since : 0..MaxTime,
                     until : 0..MaxTime, told : [Id -> 0..MaxTime]]
    BY <2>1 DEF PagesInv, Pages!TypeOK
  <2> QED
    BY <2>1 DEF PagesInv, Pages!TypeOK, Pages!UniqueTimes, Later, Pages!NothingMissed, Pages!Known,
                Pages!NextTime, Pages!MostRecent, Pages!Matching, Pages!Cursor
<1> QED
  BY <1>1, <1>2, <1>3, <1>4, <1>5, <1>6, <1>7 DEF Pages!Next

LEMMA PagesInvariant ==
    ASSUME PageParameters
    PROVE  Pages!Spec => []PagesInv
<1>1. Pages!Init => PagesInv
  BY PagesInit
<1>2. PagesInv /\ [Pages!Next]_(Pages!pagingVars) => PagesInv'
  BY PagesStep
<1> QED
  BY <1>1, <1>2, PTL DEF Pages!Spec

\* The times and cursors of the resources, and the client's, stay within their types.
THEOREM PagesTypeCorrect ==
    ASSUME PageParameters
    PROVE  Pages!Spec => []Pages!TypeOK
<1>1. PagesInv => Pages!TypeOK
  BY DEF PagesInv
<1> QED
  BY <1>1, PagesInvariant, PTL

\* strictly_increasing_update gives no two resources one time of creation or of update, for
\* every number of resources, although the clock may stand still for any number of changes and
\* the resource that has the newest time may be erased and forgotten.
THEOREM TimesUnique ==
    ASSUME PageParameters
    PROVE  Pages!Spec => []Pages!UniqueTimes
<1>1. PagesInv => Pages!UniqueTimes
  BY DEF PagesInv
<1> QED
  BY <1>1, PagesInvariant, PTL

\* Whatever limits it asks for and however often it follows either link, a client has been told
\* of every resource that matches its query and was created, or updated, between the times it has
\* come to, while resources are inserted, modified, erased and forgotten between its requests.
THEOREM NothingMissedHolds ==
    ASSUME PageParameters
    PROVE  Pages!Spec => []Pages!NothingMissed
<1>1. PagesInv => Pages!NothingMissed
  BY DEF PagesInv
<1> QED
  BY <1>1, PagesInvariant, PTL

-----------------------------------------------------------------------------
(* Paging: a page asked for again, by the times it answers for *)

\* Asking for no more than what there is changes nothing.
LEMMA UntilAgain ==
    ASSUME PageParameters, Pages!TypeOK, NEW since \in 0..MaxTime, NEW until \in 0..MaxTime,
           NEW upto \in 0..MaxTime, upto <= Pages!Until(since, until), since <= upto
    PROVE  Pages!Until(since, upto) = upto
<1>1. Pages!MostRecent \in Nat
  BY MostRecentFacts DEF PageParameters
<1>2. MaxTime \in Nat /\ since \in Nat /\ until \in Nat /\ upto \in Nat
  BY DEF PageParameters
<1> QED
  BY <1>1, <1>2 DEF Pages!Until

\* When no more resources than the limit match, the page has them all.
LEMMA WholePage ==
    ASSUME PageParameters, Pages!TypeOK, NEW order, NEW since, NEW until, NEW limit \in Nat,
           Cardinality(Pages!Matching(order, since, until)) <= limit
    PROVE  Pages!Oldest(order, Pages!Matching(order, since, until), limit) = Pages!Matching(order, since, until)
<1> DEFINE all == Pages!Matching(order, since, until)
           c(i) == Pages!Cursor(order, i)
           below(i) == {j \in all : c(j) < c(i)}
<1>1. all \in SUBSET Id /\ \A S \in SUBSET all : IsFiniteSet(S) /\ Cardinality(S) \in Nat
  BY MatchingFacts
<1>2. Pages!Oldest(order, all, limit) = {i \in all : Cardinality(below(i)) < limit}
  <2> HIDE DEF all
  <2> QED
    BY SameCardinality DEF Pages!Oldest
<1>3. ASSUME NEW i \in all
      PROVE  Cardinality(below(i)) < limit
  <2>1. c(i) \in Nat
    BY <1>1, <1>3, CursorFacts
  <2>2. below(i) \in SUBSET all /\ i \notin below(i)
    BY <2>1
  <2> HIDE DEF all, below
  <2>3. below(i) # all /\ IsFiniteSet(all) /\ Cardinality(all) \in Nat /\ Cardinality(below(i)) \in Nat
    BY <1>1, <1>3, <2>2
  <2>4. Cardinality(below(i)) < Cardinality(all)
    <3>1. Cardinality(below(i)) <= Cardinality(all)
      BY <2>2, <2>3, FS_Subset
    <3>2. Cardinality(below(i)) # Cardinality(all)
      BY <2>2, <2>3, FS_Subset
    <3> QED
      BY <2>3, <3>1, <3>2
  <2>5. Cardinality(all) <= limit
    BY DEF all
  <2> QED
    BY <2>3, <2>4, <2>5
<1> HIDE DEF all, below
<1>4. Pages!Oldest(order, all, limit) = all
  BY <1>2, <1>3
<1> QED
  BY <1>4 DEF all

\* No page has more resources than the limit.
LEMMA PageSize ==
    ASSUME PageParameters, Pages!TypeOK, Pages!UniqueTimes, NEW order, NEW since, NEW until, NEW limit \in Nat
    PROVE  Cardinality(Pages!Newest(order, Pages!Matching(order, since, until), limit)) <= limit
<1> DEFINE all == Pages!Matching(order, since, until)
           page == Pages!Newest(order, all, limit)
           c(i) == Pages!Cursor(order, i)
           above(i) == {j \in all : c(j) > c(i)}
<1>1. all \in SUBSET Id /\ \A S \in SUBSET all : IsFiniteSet(S) /\ Cardinality(S) \in Nat
  BY MatchingFacts
<1>2. page = {i \in all : Cardinality(above(i)) < limit}
  <2> HIDE DEF all
  <2> QED
    BY SameCardinality DEF Pages!Newest
<1>3. \A i \in all : c(i) \in Nat
  BY <1>1, CursorFacts
<1>4. \A i, j \in all : i # j => c(i) # c(j)
  <2>1. all \subseteq Pages!Known
    BY <1>1 DEF Pages!Matching, Pages!Known
  <2> QED
    BY <2>1 DEF Pages!UniqueTimes, Pages!Cursor
<1> HIDE DEF all, page, c
<1>5. CASE page = {}
  <2>1. Cardinality(page) = 0
    BY <1>5, FS_EmptySet
  <2> QED
    BY <2>1 DEF all, page
<1>6. CASE page # {}
  <2> DEFINE T == {c(i) : i \in page}
  <2>1. page \subseteq all
    BY <1>2
  <2>2. PICK t \in T : \A u \in T : t <= u
    <3>1. T \in SUBSET Nat /\ T # {}
      BY <1>3, <1>6, <2>1
    <3> HIDE DEF T
    <3> QED
      BY <3>1, NatMin
  <2>3. PICK m \in page : t = c(m)
    OBVIOUS
  <2>4. \A i \in page : c(m) <= c(i)
    BY <2>2, <2>3
  <2>5. page \ {m} \in SUBSET above(m) /\ above(m) \in SUBSET all
    BY <1>3, <1>4, <2>1, <2>3, <2>4
  <2>6. Cardinality(above(m)) < limit
    BY <1>2, <2>3
  <2> HIDE DEF above, T
  <2>7. /\ IsFiniteSet(page) /\ IsFiniteSet(above(m)) /\ Cardinality(above(m)) \in Nat
        /\ Cardinality(page \ {m}) \in Nat /\ Cardinality(page) \in Nat
    BY <1>1, <2>1, <2>5
  <2>8. Cardinality(page \ {m}) <= Cardinality(above(m))
    BY <2>5, <2>7, FS_Subset
  <2>9. Cardinality(page \ {m}) = Cardinality(page) - 1
    BY <2>3, <2>7, FS_RemoveElement
  <2> QED
    BY <2>6, <2>7, <2>8, <2>9 DEF page, all
<1> QED
  BY <1>5, <1>6

\* The first page of what has not changed, when its times end where its page did
LEMMA OldestAgain ==
    ASSUME PageParameters, Pages!TypeOK, NEW order, NEW since, NEW until, NEW upto, NEW limit \in Nat,
           Pages!Matching(order, since, upto) =
               Pages!Oldest(order, Pages!Matching(order, since, until), limit)
    PROVE  Pages!Oldest(order, Pages!Matching(order, since, upto), limit) = Pages!Matching(order, since, upto)
<1> DEFINE all == Pages!Matching(order, since, until)
           page == Pages!Matching(order, since, upto)
           below(i) == {j \in all : Pages!Cursor(order, j) < Pages!Cursor(order, i)}
           again(i) == {j \in page : Pages!Cursor(order, j) < Pages!Cursor(order, i)}
<1>1. \A S \in SUBSET all : IsFiniteSet(S) /\ Cardinality(S) \in Nat
  BY MatchingFacts
<1> HIDE DEF all, page
<1>2. /\ page = {i \in all : Cardinality(below(i)) < limit}
      /\ Pages!Oldest(order, page, limit) = {i \in page : Cardinality(again(i)) < limit}
  BY SameCardinality DEF all, page, Pages!Oldest
<1>3. ASSUME NEW i \in page
      PROVE  Cardinality(again(i)) < limit
  <2>1. again(i) \in SUBSET below(i) /\ below(i) \in SUBSET all
    BY <1>2
  <2> HIDE DEF below, again
  <2>2. IsFiniteSet(below(i)) /\ Cardinality(below(i)) \in Nat /\ Cardinality(again(i)) \in Nat
    BY <1>1, <2>1
  <2>3. Cardinality(again(i)) <= Cardinality(below(i)) /\ Cardinality(below(i)) < limit
    BY <1>2, <1>3, <2>1, <2>2, FS_Subset
  <2> QED
    BY <2>2, <2>3
<1> HIDE DEF below, again
<1>4. Pages!Oldest(order, page, limit) = page
  BY <1>2, <1>3
<1> QED
  BY <1>4 DEF page

LEMMA FirstPageAgain ==
    ASSUME PageParameters, Pages!TypeOK, NEW order, NEW since \in 0..MaxTime, NEW until \in 0..MaxTime,
           since <= until, NEW limit \in Nat
    PROVE  LET page == Pages!FirstPage(order, since, Pages!Until(since, until), limit)
           IN  Pages!FirstPage(order, page.since, Pages!Until(page.since, page.until), limit) = page
<1> DEFINE to   == Pages!Until(since, until)
           all  == Pages!Matching(order, since, to)
           ids  == Pages!Oldest(order, all, limit)
           page == Pages!FirstPage(order, since, to, limit)
           upto == IF limit = 0 THEN since ELSE IF ids = all THEN to ELSE Pages!Greatest(order, ids)
           c(i) == Pages!Cursor(order, i)
<1>1. page = [ids |-> ids, since |-> since, until |-> upto]
  BY DEF Pages!FirstPage
<1>2. to \in 0..MaxTime /\ since <= to /\ MaxTime \in Nat /\ since \in Nat
  <2>1. Pages!MostRecent \in 0..MaxTime /\ MaxTime \in Nat
    BY MostRecentFacts DEF PageParameters
  <2>2. since \in Nat /\ until \in Nat
    BY <2>1
  <2> QED
    BY <2>1, <2>2, UntilFacts DEF Pages!Until
<1>3. upto \in 0..MaxTime /\ since <= upto /\ upto <= to
  <2> HIDE DEF to
  <2>1. /\ page.until \in 0..MaxTime /\ (page.until = since \/ page.until <= to)
    BY <1>2, FirstPageFacts
  <2>2. upto \in 0..MaxTime /\ (upto = since \/ upto <= to)
    BY <1>1, <2>1
  <2>3. CASE limit = 0 \/ ids = all
    BY <1>2, <2>3
  <2>4. CASE limit # 0 /\ ids # all
    <3>1. /\ ids \subseteq all /\ all \subseteq Id /\ (all # {} => ids # {})
      BY <2>4, MatchingFacts, PageFacts
    <3>2. PICK i \in ids : c(i) = upto
      BY <2>4, <3>1, GreatestFacts
    <3>3. since < c(i) /\ c(i) <= to
      BY <3>1 DEF Pages!Matching
    <3>4. c(i) \in Nat
      BY <3>1, CursorFacts
    <3> HIDE DEF upto, c, ids, all
    <3> QED
      BY <1>2, <2>2, <3>2, <3>3, <3>4
  <2> QED
    BY <2>3, <2>4
<1>4. Pages!Until(since, upto) = upto
  <2> HIDE DEF upto
  <2> QED
    BY <1>3, UntilAgain
<1>5. Pages!FirstPage(order, since, upto, limit) = page
  <2>1. CASE limit = 0
    <3>1. /\ ids = {} /\ upto = since
          /\ Pages!Oldest(order, Pages!Matching(order, since, upto), limit) = {}
      BY <2>1, MatchingFacts
    <3> QED
      BY <1>1, <2>1, <3>1 DEF Pages!FirstPage
  <2>2. CASE limit # 0 /\ ids = all
    BY <2>2
  <2>3. CASE limit # 0 /\ ids # all
    <3> HIDE DEF to
    <3>1. /\ ids \subseteq all
          /\ \A i \in all : c(i) <= upto <=> i \in ids
      BY <1>1, <1>2, FirstPageFacts
    <3>2. Pages!Matching(order, since, upto) = ids
      <4>1. \A i \in Wanted : c(i) \in Nat
        BY CursorFacts DEF PageParameters
      <4>2. \A i \in Wanted : i \in Pages!Matching(order, since, upto) <=> i \in all /\ c(i) <= upto
        <5> HIDE DEF upto
        <5> QED
          BY <1>2, <1>3, <4>1 DEF Pages!Matching
      <4>3. all \subseteq Wanted /\ Pages!Matching(order, since, upto) \subseteq Wanted
        BY DEF Pages!Matching
      <4> HIDE DEF upto, ids, all, c
      <4> QED
        BY <3>1, <4>2, <4>3
    <3>3. Pages!Oldest(order, Pages!Matching(order, since, upto), limit) = Pages!Matching(order, since, upto)
      <4> HIDE DEF upto
      <4> QED
        BY <3>2, OldestAgain
    <3>4. Pages!FirstPage(order, since, upto, limit) = [ids |-> ids, since |-> since, until |-> upto]
      <4> HIDE DEF upto, ids
      <4> QED
        BY <2>3, <3>2, <3>3 DEF Pages!FirstPage
    <3> QED
      BY <1>1, <3>4
  <2> QED
    BY <2>1, <2>2, <2>3
<1> HIDE DEF upto, ids, to
<1>6. page.since = since /\ page.until = upto
  BY <1>1
<1> HIDE DEF page
<1>7. Pages!FirstPage(order, page.since, Pages!Until(page.since, page.until), limit) = page
  BY <1>4, <1>5, <1>6
<1> QED
  BY <1>7 DEF page, to

LEMMA LastPageAgain ==
    ASSUME PageParameters, Pages!TypeOK, Pages!UniqueTimes, NEW order, NEW until \in 0..MaxTime,
           NEW limit \in Nat
    PROVE  LET page == Pages!LastPage(order, 0, Pages!Until(0, until), limit)
           IN  Pages!FirstPage(order, page.since, Pages!Until(page.since, page.until), limit) = page
<1> DEFINE to   == Pages!Until(0, until)
           all  == Pages!Matching(order, 0, to)
           ids  == Pages!Newest(order, all, limit)
           page == Pages!LastPage(order, 0, to, limit)
           from == IF limit = 0 THEN to ELSE IF ids = all THEN 0 ELSE Pages!Greatest(order, all \ ids)
           c(i) == Pages!Cursor(order, i)
<1>1. page = [ids |-> ids, since |-> from, until |-> to]
  BY DEF Pages!LastPage
<1>2. to \in 0..MaxTime /\ MaxTime \in Nat /\ Pages!MostRecent \in Nat /\ 0 \in 0..MaxTime /\ to <= Pages!MostRecent
  <2>1. Pages!MostRecent \in 0..MaxTime /\ MaxTime \in Nat
    BY MostRecentFacts DEF PageParameters
  <2>2. until \in Nat
    BY <2>1
  <2> QED
    BY <2>1, <2>2, UntilFacts DEF Pages!Until
<1> HIDE DEF to
<1>3. from \in 0..MaxTime /\ from <= to
  <2>1. page.since \in 0..MaxTime /\ (page.since = 0 \/ page.since <= to)
    BY <1>2, LastPageFacts
  <2>2. from \in 0..MaxTime /\ (from = 0 \/ from <= to)
    BY <1>1, <2>1
  <2> HIDE DEF from
  <2> QED
    BY <1>2, <2>2
<1>4. Pages!Until(from, to) = to
  <2> HIDE DEF from
  <2>1. from \in Nat /\ to \in Nat
    BY <1>2, <1>3
  <2> QED
    BY <1>2, <1>3, <2>1 DEF Pages!Until
<1>5. Pages!FirstPage(order, from, to, limit) = page
  <2>1. CASE limit = 0
    <3>1. /\ ids = {} /\ from = to
          /\ Pages!Oldest(order, Pages!Matching(order, from, to), limit) = {}
      BY <2>1, MatchingFacts
    <3> QED
      BY <1>1, <2>1, <3>1 DEF Pages!FirstPage
  <2>2. CASE limit # 0
    <3>1. /\ ids \subseteq all
          /\ \A i \in all : c(i) > from <=> i \in ids
      BY <1>1, <1>2, LastPageFacts
    <3>2. Pages!Matching(order, from, to) = ids
      <4>1. \A i \in Wanted : c(i) \in Nat
        BY CursorFacts DEF PageParameters
      <4>2. \A i \in Wanted : i \in Pages!Matching(order, from, to) <=> i \in all /\ c(i) > from
        <5> HIDE DEF from
        <5> QED
          BY <1>2, <1>3, <4>1 DEF Pages!Matching
      <4>3. all \subseteq Wanted /\ Pages!Matching(order, from, to) \subseteq Wanted
        BY DEF Pages!Matching
      <4> HIDE DEF from, ids, all, c
      <4> QED
        BY <3>1, <4>2, <4>3
    <3>3. Cardinality(ids) <= limit
      BY PageSize
    <3>4. Pages!Oldest(order, Pages!Matching(order, from, to), limit) = Pages!Matching(order, from, to)
      <4> HIDE DEF from, ids
      <4> QED
        BY <3>2, <3>3, WholePage
    <3>5. Pages!FirstPage(order, from, to, limit) = [ids |-> ids, since |-> from, until |-> to]
      <4> HIDE DEF from, ids
      <4> QED
        BY <2>2, <3>2, <3>4 DEF Pages!FirstPage
    <3> QED
      BY <1>1, <3>5
  <2> QED
    BY <2>1, <2>2
<1> HIDE DEF from, ids
<1>6. page.since = from /\ page.until = to
  BY <1>1
<1> HIDE DEF page
<1>7. Pages!FirstPage(order, page.since, Pages!Until(page.since, page.until), limit) = page
  BY <1>4, <1>5, <1>6
<1> QED
  BY <1>7 DEF page, to

\* cursor_based_page: a request for the times that a reply gives has the same reply, whether the
\* page was cut at its end (since was specified) or at its beginning, which is where two resources
\* of one time would make it differ.
THEOREM RepeatableHolds ==
    ASSUME PageParameters
    PROVE  Pages!Spec => []Pages!Repeatable
<1>1. ASSUME PagesInv
      PROVE  Pages!Repeatable
  <2> SUFFICES ASSUME NEW limit \in Limits,
                      NEW page \in {Pages!LastPage(client.order, 0, Pages!Until(0, client.since), limit),
                                    Pages!FirstPage(client.order, client.until, Pages!Until(client.until, MaxTime), limit),
                                    Pages!FirstPage(client.order, 0, Pages!Until(0, client.until), limit)}
               PROVE  Pages!FirstPage(client.order, page.since, Pages!Until(page.since, page.until), limit) = page
    BY DEF Pages!Repeatable
  <2>1. /\ Pages!TypeOK /\ Pages!UniqueTimes /\ limit \in Nat
        /\ client.since \in 0..MaxTime /\ client.until \in 0..MaxTime
        /\ 0 \in 0..MaxTime /\ MaxTime \in 0..MaxTime
        /\ 0 <= client.until /\ client.until <= MaxTime
    BY <1>1 DEF PagesInv, PageParameters, Pages!TypeOK
  <2>2. CASE page = Pages!LastPage(client.order, 0, Pages!Until(0, client.since), limit)
    BY <2>1, <2>2, LastPageAgain
  <2>3. CASE page = Pages!FirstPage(client.order, client.until, Pages!Until(client.until, MaxTime), limit)
    BY <2>1, <2>3, FirstPageAgain
  <2>4. CASE page = Pages!FirstPage(client.order, 0, Pages!Until(0, client.until), limit)
    BY <2>1, <2>4, FirstPageAgain
  <2> QED
    BY <2>2, <2>3, <2>4
<1> QED
  BY <1>1, PagesInvariant, PTL

=============================================================================
