--------------------------- MODULE RegistryProofs ---------------------------
(***************************************************************************)
(* The safety of Registry for every set of resources, of nodes and of      *)
(* handler threads, when out-of-order registration is not allowed and a    *)
(* node has one heartbeat in progress at a time; and that it implements    *)
(* ResourceForest.                                                         *)
(***************************************************************************)
EXTENDS Registry, TLAPS

-----------------------------------------------------------------------------
(* Tree(ex, sb, x) is the least closed set that holds x. *)

\* The resource a walk starts from is visited.
LEMMA TreeRoot ==
    ASSUME NEW ex, NEW sb, NEW x \in ex
    PROVE  x \in Tree(ex, sb, x)
BY DEF Tree

\* With a resource, its sub-resources are visited.
LEMMA TreeClosed ==
    ASSUME NEW ex, NEW sb, NEW x, NEW z \in Tree(ex, sb, x), NEW y \in sb[z] \cap ex
    PROVE  y \in Tree(ex, sb, x)
BY DEF Tree

\* Nothing else is visited.
LEMMA TreeLeast ==
    ASSUME NEW ex, NEW sb, NEW x, NEW S \in SUBSET ex, x \in S,
           \A z \in S : sb[z] \cap ex \subseteq S
    PROVE  Tree(ex, sb, x) \subseteq S
BY DEF Tree

\* A resource without sub-resources is visited alone.
LEMMA TreeLeaf ==
    ASSUME NEW ex, NEW sb, NEW x \in ex, sb[x] = {}
    PROVE  Tree(ex, sb, x) = {x}
<1>1. x \in Tree(ex, sb, x)
  BY TreeRoot
<1>2. ASSUME NEW y \in Tree(ex, sb, x)
      PROVE  y = x
  <2>1. {x} \in SUBSET ex /\ \A z \in {x} : sb[z] \cap ex \subseteq {x}
    OBVIOUS
  <2> QED
    BY <2>1, <1>2 DEF Tree
<1> QED
  BY <1>1, <1>2

\* Only resources with data are visited.
LEMMA TreeExtant ==
    ASSUME NEW ex, NEW sb, NEW x
    PROVE  Tree(ex, sb, x) \subseteq ex
BY DEF Tree

\* Two ways to track sub-resources that agree on the extant ones visit the same.
LEMMA TreeSame ==
    ASSUME NEW ex, NEW sb, NEW sc, NEW x, \A z \in ex : sb[z] \cap ex = sc[z] \cap ex
    PROVE  Tree(ex, sb, x) = Tree(ex, sc, x)
BY DEF Tree

-----------------------------------------------------------------------------
\* Every reachable state is well typed, whatever the settings: a resource is
\* never extant and erased at once, and an extant one has data of its own id.
THEOREM TypeCorrect == Spec => []TypeOK
<1>1. Init => TypeOK
  BY ParameterAssumption DEF Init, TypeOK, Idle, NoBody
<1>2. ASSUME TypeOK, [Next]_vars
      PROVE  TypeOK'
  <2> USE <1>2, NoIdAssumption, BodiesAssumption, ParameterAssumption
  <2>1. CASE Tick
    BY <2>1 DEF Tick, TypeOK, container
  <2>2. ASSUME NEW b \in Bodies, Create(b)
        PROVE  TypeOK'
    <3>1. b \in Body /\ b \in Stored /\ b.id \in Id
      BY DEF Stored, Body
    <3>2. SubResources(b) \subseteq Id
      BY DEF SubResources, TypeOK
    <3>3. health' \in [Id -> Nat]
      <4>1. b.super \in Id => health[b.super] \in Nat
        BY DEF TypeOK
      <4>2. (IF FindsSuper(b) THEN health[b.super] ELSE now) \in Nat
        BY <4>1 DEF FindsSuper, TypeOK
      <4> QED
        BY <2>2, <4>2 DEF Create, TypeOK
    <3>4. sub' \in [Id -> SUBSET Id]
      BY <2>2, <3>1, <3>2 DEF Create, TypeOK
    <3>5. reg' \in [Id -> Stored \cup {NoBody}] /\ (\A x \in extant' : reg'[x] \in Stored /\ reg'[x].id = x)
      BY <2>2, <3>1 DEF Create, TypeOK
    <3>6. alive' \in [Id -> Nat]
      BY <2>2 DEF Create, TypeOK
    <3>7. /\ extant' = extant \cup {b.id}
          /\ erased' = erased \ {b.id}
          /\ UNCHANGED <<now, beat, expiry, wake>>
      BY <2>2 DEF Create
    <3> QED
      BY <3>1, <3>3, <3>4, <3>5, <3>6, <3>7 DEF TypeOK
  <2>3. ASSUME NEW b \in Bodies, Modify(b)
        PROVE  TypeOK'
    <3>1. b \in Stored /\ b.id \in extant /\ reg[b.id] \in Stored
      BY <2>3 DEF Modify, PostStatus, Creating, TypeOK
    <3>2. [b EXCEPT !.api = reg[b.id].api] \in Stored /\ [b EXCEPT !.api = reg[b.id].api].id = b.id
      BY <3>1 DEF Stored, Body
    <3>3. reg' \in [Id -> Stored \cup {NoBody}] /\ (\A x \in extant : reg'[x] \in Stored /\ reg'[x].id = x)
      BY <2>3, <3>1, <3>2 DEF Modify, TypeOK
    <3> QED
      BY <2>3, <3>3 DEF Modify, TypeOK
  <2>4. ASSUME NEW x \in Id, Delete(x)
        PROVE  TypeOK'
    <3>1. Tree(extant, sub, x) \subseteq extant
      BY TreeExtant
    <3>2. sub' \in [Id -> SUBSET Id]
      BY <2>4 DEF Delete, TypeOK
    <3> QED
      BY <2>4, <3>1, <3>2 DEF Delete, TypeOK
  <2>5. ASSUME NEW h \in Handlers, NEW n \in Id, HeartbeatStart(h, n)
        PROVE  TypeOK'
    BY <2>5, TreeExtant DEF HeartbeatStart, TypeOK, container
  <2>6. ASSUME NEW h \in Handlers, NEW x \in Id, HeartbeatSet(h, x)
        PROVE  TypeOK'
    BY <2>6 DEF HeartbeatSet, TypeOK, Idle, Later
  <2>7. CASE ExpiryCheck
    BY <2>7 DEF ExpiryCheck, TypeOK, container
  <2>8. CASE ExpiryErase
    BY <2>8 DEF ExpiryErase, TypeOK
  <2>9. CASE UNCHANGED vars
    BY <2>9 DEF vars, TypeOK
  <2> QED
    BY <2>1, <2>2, <2>3, <2>4, <2>5, <2>6, <2>7, <2>8, <2>9 DEF Next
<1> QED
  BY <1>1, <1>2, PTL DEF Spec

-----------------------------------------------------------------------------
(* The inductive invariant *)

\* the sub_resources of a resource with data are its extant children: none is
\* missing, and none is left behind that was erased or belongs elsewhere
Tracked ==
    \A x \in extant : sub[x] = {y \in extant : IsChild(y, x)}

\* A heartbeat walks a family from the leaves up: what it has still to do is
\* closed upwards, ends at its node, is older than the heartbeat, and the
\* children it has already done carry its time.
Beats ==
    \A h \in Handlers : beat[h] # Idle =>
        LET bt == beat[h] IN
        /\ bt.node \in bt.todo
        /\ bt.todo \subseteq extant
        /\ bt.at <= now
        /\ \A x \in bt.todo : health[x] <= bt.at
        /\ \A x \in bt.todo : reg[x].type = "node" => x = bt.node
        /\ \A x \in extant, y \in bt.todo : IsChild(y, x) => x \in bt.todo
        /\ \A x \in bt.todo, y \in extant \ bt.todo : IsChild(y, x) => health[y] = bt.at

\* No two heartbeats have a resource in common.
Disjoint ==
    \A g, h \in Handlers : g # h => beat[g].todo \cap beat[h].todo = {}

\* A parent and child differ in health only while a heartbeat is between them.
Healths ==
    \A x, y \in extant : IsChild(y, x) =>
        \/ health[y] = health[x]
        \/ \E h \in Handlers : x \in beat[h].todo /\ y \notin beat[h].todo

\* The expiry thread waits for at most one interval and a second from now.
Deadline == wake <= now + Interval + 1

\* No time is ahead of the clock, and a node has the last time it was told.
Clock ==
    /\ \A x \in extant : health[x] <= now
    /\ \A n \in extant : reg[n].type = "node" => alive[n] <= health[n]

SafetyInv ==
    /\ TypeOK
    /\ Tracked
    /\ ReferentialIntegrity
    /\ Beats
    /\ Disjoint
    /\ Healths
    /\ Clock
    /\ Deadline
    /\ WakesInTime

\* The settings of an ordinary registry, and clients that send a node's
\* heartbeats one after the other.
Ordinary == ~AllowInvalid /\ ~Overlap

\* A child is another resource, not a node, under one parent of the right type.
LEMMA ChildFacts ==
    ASSUME TypeOK, NEW x, NEW y \in extant, IsChild(y, x)
    PROVE  /\ y # x
           /\ reg[y].type # "node"
           /\ reg[y].super = x
           /\ x \in extant
           /\ reg[x].type = SuperType(reg[y])
<1>1. /\ reg[y].type # "node"
      /\ reg[y].super = x
      /\ x \in extant
      /\ reg[x].type = SuperType(reg[y])
  BY DEF IsChild, FindsSuper
<1>2. SuperType(reg[y]) # reg[y].type
  BY <1>1 DEF SuperType
<1> QED
  BY <1>1, <1>2

\* While no heartbeat is half way, parents and children have the same health.
LEMMA QuietFamily ==
    ASSUME Healths, NoReaders
    PROVE  FamilyHealth
BY DEF Healths, NoReaders, FamilyHealth, Idle

\* The clock moves on.
LEMMA TickSafe ==
    ASSUME SafetyInv, TypeOK', Tick
    PROVE  SafetyInv'
<1> USE DEF SafetyInv, Tick, container
<1>1. Tracked' /\ ReferentialIntegrity' /\ Disjoint' /\ WakesInTime'
  BY DEF Tracked, ReferentialIntegrity, Disjoint, WakesInTime, IsChild, FindsSuper
<1>2. Beats'
  <2>1. \A h \in Handlers : beat[h].at \in Nat
    BY DEF TypeOK
  <2> QED
    BY <2>1 DEF Beats, IsChild, FindsSuper, TypeOK
<1>3. Healths'
  BY DEF Healths, IsChild, FindsSuper
<1>4. Clock' /\ Deadline'
  BY ParameterAssumption DEF Clock, Deadline, TypeOK
<1> QED
  BY <1>1, <1>2, <1>3, <1>4

\* Updates keep the type, API version and parent of a resource.
LEMMA ModifySafe ==
    ASSUME Ordinary, SafetyInv, TypeOK', NEW b \in Bodies, Modify(b)
    PROVE  SafetyInv'
<1> USE DEF SafetyInv
<1>0. b \in Body /\ b.id \in extant
  BY BodiesAssumption DEF Modify, PostStatus, Creating, Stored
<1>1. /\ reg' = [reg EXCEPT ![b.id] = [b EXCEPT !.api = reg[b.id].api]]
      /\ UNCHANGED <<now, extant, erased, sub, health, beat, expiry, wake, alive>>
  BY DEF Modify
<1>2. /\ b.type = reg[b.id].type
      /\ b.api = reg[b.id].api
      /\ b.super = reg[b.id].super
  BY <1>0 DEF Modify, PostStatus, Ordinary, Valid, ValidType, ValidApiVersion, ValidSuperIdType, Creating
<1>3. \A x \in Id : /\ reg'[x].type = reg[x].type
                    /\ reg'[x].api = reg[x].api
                    /\ reg'[x].super = reg[x].super
  BY <1>0, <1>1, <1>2 DEF TypeOK, Body
<1>4. \A x \in extant : reg[x].super \in extant => reg[x].super \in Id
  BY DEF TypeOK
<1>5. \A x \in Id : FindsSuper(reg[x])' <=> FindsSuper(reg[x])
  BY <1>1, <1>3 DEF FindsSuper, SuperType, TypeOK
<1>6. \A x \in extant, y \in extant : IsChild(y, x)' <=> IsChild(y, x)
  BY <1>1, <1>3, <1>5 DEF IsChild, TypeOK
<1>7. Tracked'
  BY <1>1, <1>6 DEF Tracked
<1>8. ReferentialIntegrity'
  BY <1>1, <1>3, <1>4, <1>5 DEF ReferentialIntegrity, FindsSuper, TypeOK
<1>9. Beats'
  BY <1>1, <1>3, <1>6 DEF Beats, TypeOK
<1>10. Disjoint' /\ WakesInTime' /\ Deadline'
  BY <1>1 DEF Disjoint, WakesInTime, Deadline
<1>11. Healths'
  BY <1>1, <1>6 DEF Healths
<1>12. Clock'
  BY <1>1, <1>3 DEF Clock, TypeOK
<1> QED
  BY <1>7, <1>8, <1>9, <1>10, <1>11, <1>12

\* A registered resource's family changes only in that its parent gains it.
LEMMA CreateSafe ==
    ASSUME Ordinary, SafetyInv, TypeOK', NEW b \in Bodies, Create(b)
    PROVE  SafetyInv'
<1> DEFINE x == b.id
           sb == [y \in Id |-> IF y = x THEN {}
                               ELSE IF y = b.super /\ FindsSuper(b) THEN sub[y] \cup {x}
                               ELSE sub[y]]
           initial == IF FindsSuper(b) THEN health[b.super] ELSE now
<1> USE DEF SafetyInv
<1>1. /\ b \in Body /\ x \in Id /\ x \notin extant
      /\ b.type = "node" \/ (FindsSuper(b) /\ reg[b.super].api = b.api)
  BY BodiesAssumption DEF Create, PostStatus, Creating, Stored, Body, Valid, ValidSuper, Ordinary
<1>2. /\ extant' = extant \cup {x}
      /\ reg' = [reg EXCEPT ![x] = b]
      /\ sub' = sb
      /\ health' = [y \in Id |-> IF y \in Tree(extant \cup {x}, sb, x) THEN initial ELSE health[y]]
      /\ alive' = IF b.type = "node" THEN [alive EXCEPT ![x] = now] ELSE alive
      /\ UNCHANGED <<now, beat, expiry, wake>>
      /\ NoReaders
  BY DEF Create, Ordinary
<1>3. Tree(extant \cup {x}, sb, x) = {x}
  BY <1>1, TreeLeaf
<1>4. \A y \in extant : reg'[y] = reg[y] /\ health'[y] = health[y] /\ alive'[y] = alive[y]
  BY <1>1, <1>2, <1>3 DEF TypeOK
<1>5. reg'[x] = b /\ health'[x] = initial
  BY <1>1, <1>2, <1>3 DEF TypeOK
<1>6. ASSUME NEW y \in extant, reg[y].type # "node"
      PROVE  FindsSuper(reg[y]) /\ FindsSuper(reg[y])' /\ reg[y].super \in extant
  BY <1>1, <1>2, <1>4, <1>6 DEF ReferentialIntegrity, FindsSuper, SuperType
<1>7. \A y \in extant, z \in extant : IsChild(y, z)' <=> IsChild(y, z)
  BY <1>1, <1>4, <1>6 DEF IsChild, FindsSuper
<1>8. \A y \in extant : ~IsChild(y, x)'
  BY <1>1, <1>4, <1>6 DEF IsChild, FindsSuper
<1>9. b.type # "node" => FindsSuper(b)' /\ reg'[b.super].api = b.api /\ b.super \in extant
  BY <1>1, <1>2, <1>4 DEF FindsSuper, SuperType
<1>10. \A z \in extant : IsChild(x, z)' <=> (FindsSuper(b) /\ b.super = z)
  BY <1>1, <1>5, <1>9 DEF IsChild, FindsSuper
<1>11. ~IsChild(x, x)'
  BY <1>1, <1>5, <1>9 DEF IsChild, FindsSuper
<1>12. Tracked'
  <2>1. ASSUME NEW z \in extant
        PROVE  sub'[z] = {y \in extant' : IsChild(y, z)'}
    <3>1. sub[z] = {y \in extant : IsChild(y, z)}
      BY DEF Tracked
    <3>2. sub'[z] = IF z = b.super /\ FindsSuper(b) THEN sub[z] \cup {x} ELSE sub[z]
      BY <1>1, <1>2 DEF TypeOK
    <3> QED
      BY <1>1, <1>2, <1>7, <1>10, <3>1, <3>2
  <2>2. sub'[x] = {y \in extant' : IsChild(y, x)'}
    BY <1>1, <1>2, <1>8, <1>11
  <2> QED
    BY <1>2, <2>1, <2>2 DEF Tracked
<1>13. ReferentialIntegrity'
  BY <1>1, <1>2, <1>4, <1>5, <1>6, <1>9 DEF ReferentialIntegrity
<1>14. Beats' /\ Disjoint'
  BY <1>2 DEF Beats, Disjoint, NoReaders, Idle
<1>15. Healths'
  <2>1. \A y, z \in extant : IsChild(y, z) => health[y] = health[z]
    BY <1>2, QuietFamily DEF FamilyHealth
  <2>2. \A z \in extant : IsChild(x, z)' => health'[x] = health'[z]
    BY <1>4, <1>5, <1>10
  <2>3. ASSUME NEW z \in extant', NEW y \in extant', IsChild(y, z)'
        PROVE  health'[y] = health'[z]
    <3>1. z # x
      BY <1>2, <1>8, <1>11, <2>3
    <3>2. CASE y = x
      BY <1>2, <2>2, <2>3, <3>1, <3>2
    <3>3. CASE y # x
      BY <1>2, <1>4, <1>7, <2>1, <2>3, <3>1, <3>3
    <3> QED
      BY <3>2, <3>3
  <2> QED
    BY <2>3 DEF Healths
<1>16. Clock'
  <2>1. initial <= now
    BY DEF Clock, FindsSuper, TypeOK
  <2>2. b.type = "node" => initial = now /\ alive'[x] = now
    BY <1>1, <1>2 DEF FindsSuper, TypeOK
  <2>3. \A y \in extant : health'[y] <= now' /\ (reg'[y].type = "node" => alive'[y] <= health'[y])
    BY <1>2, <1>4 DEF Clock
  <2>4. health'[x] <= now' /\ (reg'[x].type = "node" => alive'[x] <= health'[x])
    BY <1>2, <1>5, <2>1, <2>2 DEF TypeOK
  <2> QED
    BY <1>2, <2>3, <2>4 DEF Clock
<1>17. WakesInTime' /\ Deadline'
  <2>1. CASE FindsSuper(b)
    BY <1>2, <1>4, <1>5, <2>1 DEF WakesInTime, Deadline, FindsSuper
  <2>2. CASE ~FindsSuper(b)
    BY <1>2, <1>4, <1>5, <2>2, ParameterAssumption DEF WakesInTime, Deadline, TypeOK
  <2> QED
    BY <2>1, <2>2
<1> QED
  BY <1>12, <1>13, <1>14, <1>15, <1>16, <1>17

\* A walk visits no resource other than its start without visiting its parent.
LEMMA TreeParent ==
    ASSUME TypeOK, Tracked, NEW n \in extant, NEW y \in Tree(extant, sub, n), y # n,
           NEW z, IsChild(y, z)
    PROVE  z \in Tree(extant, sub, n)
<1> DEFINE T == Tree(extant, sub, n)
           S == {u \in T : u = n \/ reg[u].super \in T}
<1>1. T \subseteq extant
  BY TreeExtant
<1>2. S \in SUBSET extant
  BY <1>1
<1>3. n \in S
  BY TreeRoot
<1>4. ASSUME NEW u \in S, NEW v \in sub[u] \cap extant
      PROVE  v \in S
  <2>1. v \in T
    BY <1>4, TreeClosed
  <2>2. IsChild(v, u)
    BY <1>1, <1>4 DEF Tracked
  <2> QED
    BY <2>1, <2>2, <1>4 DEF IsChild
<1>5. T \subseteq S
  <2>1. \A u \in S : sub[u] \cap extant \subseteq S
    BY <1>4
  <2> HIDE DEF S
  <2> QED
    BY <1>2, <1>3, <2>1, TreeLeast
<1> QED
  BY <1>5 DEF IsChild

\* A DELETE removes whole families, and the reference its parent has to it.
LEMMA DeleteSafe ==
    ASSUME Ordinary, SafetyInv, TypeOK', NEW x \in Id, Delete(x)
    PROVE  SafetyInv'
<1> DEFINE gone == Tree(extant, sub, x)
<1> USE DEF SafetyInv
<1>1. /\ NoReaders
      /\ x \in extant
      /\ sub' = IF FindsSuper(reg[x]) THEN [sub EXCEPT ![reg[x].super] = @ \ {x}] ELSE sub
      /\ extant' = extant \ gone
      /\ reg' = [y \in Id |-> IF y \in gone THEN NoBody ELSE reg[y]]
      /\ UNCHANGED <<now, health, beat, expiry, wake, alive>>
  BY DEF Delete
<1>2. gone \subseteq extant /\ x \in gone
  BY <1>1, TreeExtant, TreeRoot
<1>3. ASSUME NEW y \in extant, NEW z \in extant, IsChild(y, z), y # x
      PROVE  y \in gone <=> z \in gone
  <2>1. y \in gone => z \in gone
    BY <1>1, <1>3, TreeParent
  <2>2. y \in sub[z] \cap extant
    BY <1>3 DEF Tracked
  <2>3. z \in gone => y \in gone
    BY <2>2, TreeClosed
  <2> QED
    BY <2>1, <2>3
<1> HIDE DEF gone
<1>4. \A y \in extant' : reg'[y] = reg[y] /\ y \in extant /\ y \notin gone /\ y # x
  BY <1>1, <1>2 DEF TypeOK
<1>5. ASSUME NEW y \in extant', reg[y].type # "node"
      PROVE  FindsSuper(reg[y])' /\ reg[y].super \in extant' /\ reg'[reg[y].super].api = reg[y].api
  <2>1. FindsSuper(reg[y]) /\ reg[reg[y].super].api = reg[y].api
    BY <1>4, <1>5 DEF ReferentialIntegrity
  <2>2. reg[y].super \in extant /\ IsChild(y, reg[y].super)
    BY <2>1 DEF FindsSuper, IsChild
  <2>3. reg[y].super \in extant'
    BY <1>1, <1>3, <1>4, <2>2
  <2> QED
    BY <1>4, <2>1, <2>3 DEF FindsSuper, SuperType
<1>6. \A y \in extant', z \in extant' : IsChild(y, z)' <=> IsChild(y, z)
  BY <1>4, <1>5 DEF IsChild, FindsSuper
<1>7. Tracked'
  <2> SUFFICES ASSUME NEW z \in extant'
               PROVE  sub'[z] = {y \in extant' : IsChild(y, z)'}
    BY DEF Tracked
  <2>1. sub[z] = {y \in extant : IsChild(y, z)}
    BY <1>4 DEF Tracked
  <2>2. sub'[z] = sub[z] \ {x}
    <3>1. CASE FindsSuper(reg[x]) /\ reg[x].super = z
      BY <1>1, <1>4, <3>1 DEF TypeOK
    <3>2. CASE ~(FindsSuper(reg[x]) /\ reg[x].super = z)
      <4>1. ~IsChild(x, z)
        BY <3>2 DEF IsChild
      <4>2. sub'[z] = sub[z]
        BY <1>1, <1>4, <3>2 DEF TypeOK
      <4> QED
        BY <2>1, <4>1, <4>2
    <3> QED
      BY <3>1, <3>2
  <2>3. \A y \in sub[z] : y # x => y \in extant'
    BY <1>1, <1>3, <1>4, <2>1
  <2> QED
    BY <1>4, <1>6, <2>1, <2>2, <2>3
<1>8. ReferentialIntegrity'
  BY <1>4, <1>5 DEF ReferentialIntegrity
<1>9. Beats' /\ Disjoint'
  BY <1>1 DEF Beats, Disjoint, NoReaders, Idle
<1>10. Healths'
  BY <1>1, <1>4, <1>6, QuietFamily DEF Healths, FamilyHealth
<1>11. Clock' /\ WakesInTime' /\ Deadline'
  BY <1>1, <1>4 DEF Clock, WakesInTime, Deadline
<1> QED
  BY <1>7, <1>8, <1>9, <1>10, <1>11

\* A walk from a node visits no other node, and no resource another walk is on.
LEMMA WalksApart ==
    ASSUME SafetyInv, NEW n \in extant, reg[n].type = "node"
    PROVE  /\ \A y \in Tree(extant, sub, n) : reg[y].type = "node" => y = n
           /\ \A g \in Handlers : beat[g].node # n => Tree(extant, sub, n) \cap beat[g].todo = {}
<1> DEFINE T == Tree(extant, sub, n)
<1> USE DEF SafetyInv
<1>1. T \subseteq extant /\ n \in T
  BY TreeExtant, TreeRoot
<1>2. ASSUME NEW u \in T, NEW v \in sub[u]
      PROVE  v \in T /\ v \in extant /\ IsChild(v, u) /\ reg[v].type # "node"
  <2>1. v \in extant /\ IsChild(v, u)
    BY <1>1, <1>2 DEF Tracked
  <2>2. v \in T
    BY <1>2, <2>1, TreeClosed
  <2> QED
    BY <2>1, <2>2 DEF IsChild, FindsSuper
<1> HIDE DEF T
<1>3. ASSUME NEW y \in T, reg[y].type = "node"
      PROVE  y = n
  <2> DEFINE S == {u \in T : reg[u].type = "node" => u = n}
  <2>1. S \in SUBSET extant /\ n \in S /\ \A u \in S : sub[u] \cap extant \subseteq S
    BY <1>1, <1>2
  <2> HIDE DEF S
  <2>2. T \subseteq S
    BY <2>1, TreeLeast DEF T
  <2> QED
    BY <1>3, <2>2 DEF S
<1>4. ASSUME NEW g \in Handlers, beat[g].node # n
      PROVE  T \cap beat[g].todo = {}
  <2> DEFINE S == T \ beat[g].todo
  <2>1. beat[g].todo = {} \/ beat[g] # Idle
    BY DEF Idle
  <2>2. n \notin beat[g].todo
    BY <1>4, <2>1 DEF Beats
  <2>3. ASSUME NEW u \in S, NEW v \in sub[u] \cap extant
        PROVE  v \in S
    <3>1. v \in T /\ IsChild(v, u) /\ u \in extant
      BY <1>1, <1>2, <2>3
    <3>2. v \notin beat[g].todo
      BY <2>1, <2>3, <3>1 DEF Beats
    <3> QED
      BY <3>1, <3>2
  <2>4. S \in SUBSET extant /\ n \in S /\ \A u \in S : sub[u] \cap extant \subseteq S
    BY <1>1, <2>2, <2>3
  <2> HIDE DEF S
  <2>5. T \subseteq S
    BY <2>4, TreeLeast DEF T
  <2> QED
    BY <2>5 DEF S
<1> QED
  BY <1>3, <1>4 DEF T

\* A heartbeat that starts has the whole family of its node to do.
LEMMA HeartbeatStartSafe ==
    ASSUME Ordinary, SafetyInv, TypeOK', NEW h \in Handlers, NEW n \in Id, HeartbeatStart(h, n)
    PROVE  SafetyInv'
<1> DEFINE T == Tree(extant, sub, n)
           bt == [node |-> n, todo |-> T, at |-> now]
<1> USE DEF SafetyInv
<1>1. /\ n \in extant
      /\ reg[n].type = "node"
      /\ \A g \in Handlers : beat[g].node # n
      /\ beat[h] = Idle
      /\ beat' = [beat EXCEPT ![h] = bt]
      /\ UNCHANGED <<now, extant, erased, reg, sub, health, expiry, wake, alive>>
  BY DEF HeartbeatStart, Ordinary, container
<1>2. /\ T \subseteq extant
      /\ n \in T
      /\ \A y \in T : reg[y].type = "node" => y = n
      /\ \A g \in Handlers : T \cap beat[g].todo = {}
  BY <1>1, TreeExtant, TreeRoot, WalksApart
<1>3. ASSUME NEW x \in extant, NEW y \in extant, IsChild(y, x)
      PROVE  x \in T <=> y \in T
  <2>1. y # n
    BY <1>1, <1>3, ChildFacts
  <2>2. y \in sub[x] \cap extant
    BY <1>3 DEF Tracked
  <2> QED
    BY <1>1, <1>3, <2>1, <2>2, TreeParent, TreeClosed
<1> HIDE DEF T
<1>4. \A x \in extant, y \in extant : IsChild(y, x)' <=> IsChild(y, x)
  BY <1>1 DEF IsChild, FindsSuper
<1>5. beat'[h] = bt /\ \A g \in Handlers : g # h => beat'[g] = beat[g]
  BY <1>1 DEF TypeOK
<1>6. Tracked' /\ ReferentialIntegrity' /\ Clock' /\ WakesInTime' /\ Deadline'
  BY <1>1, <1>4 DEF Tracked, ReferentialIntegrity, Clock, WakesInTime, Deadline, FindsSuper
<1>7. Beats'
  <2> SUFFICES ASSUME NEW g \in Handlers, beat'[g] # Idle
               PROVE  LET B == beat'[g] IN
                      /\ B.node \in B.todo
                      /\ B.todo \subseteq extant
                      /\ B.at <= now
                      /\ \A x \in B.todo : health[x] <= B.at
                      /\ \A x \in B.todo : reg[x].type = "node" => x = B.node
                      /\ \A x \in extant, y \in B.todo : IsChild(y, x) => x \in B.todo
                      /\ \A x \in B.todo, y \in extant \ B.todo : IsChild(y, x) => health[y] = B.at
    BY <1>1, <1>4 DEF Beats, IsChild, FindsSuper
  <2>1. CASE g # h
    BY <1>5, <2>1 DEF Beats
  <2>2. CASE g = h
    <3>1. \A x \in T : health[x] <= now
      BY <1>2 DEF Clock
    <3> QED
      BY <1>2, <1>3, <1>5, <2>2, <3>1 DEF TypeOK
  <2> QED
    BY <2>1, <2>2
<1>8. Disjoint'
  BY <1>2, <1>5 DEF Disjoint
<1>9. Healths'
  <2>1. ASSUME NEW x \in extant, NEW y \in extant, IsChild(y, x), health[y] # health[x]
        PROVE  \E g \in Handlers : x \in beat'[g].todo /\ y \notin beat'[g].todo
    <3>1. PICK g \in Handlers : x \in beat[g].todo /\ y \notin beat[g].todo
      BY <2>1 DEF Healths
    <3>2. g # h
      BY <1>1, <3>1 DEF Idle
    <3> QED
      BY <1>5, <3>1, <3>2
  <2> QED
    BY <1>1, <1>4, <2>1 DEF Healths
<1> QED
  BY <1>6, <1>7, <1>8, <1>9

\* A heartbeat sets the health of a resource after that of its children.
LEMMA HeartbeatSetSafe ==
    ASSUME Ordinary, SafetyInv, TypeOK', NEW h \in Handlers, NEW x \in Id, HeartbeatSet(h, x)
    PROVE  SafetyInv' /\ (\A y \in extant : health'[y] >= health[y])
<1> DEFINE n    == beat[h].node
           todo == beat[h].todo
           rest == todo \ {x}
           at   == beat[h].at
<1> USE DEF SafetyInv
<1>1. /\ x \in todo
      /\ sub[x] \cap rest = {}
      /\ x = n => rest = {}
      /\ health' = [health EXCEPT ![x] = at]
      /\ beat' = [beat EXCEPT ![h] = IF x = n THEN Idle ELSE [beat[h] EXCEPT !.todo = rest]]
      /\ alive' = IF x = n THEN [alive EXCEPT ![n] = Later(alive[n], at)] ELSE alive
      /\ UNCHANGED <<now, extant, erased, reg, sub, expiry, wake>>
  BY DEF HeartbeatSet
<1>2. beat[h] # Idle /\ at \in Nat
  BY <1>1 DEF Idle, TypeOK
<1>3. /\ n \in todo
      /\ todo \subseteq extant
      /\ at <= now
      /\ \A y \in todo : health[y] <= at
      /\ \A y \in todo : reg[y].type = "node" => y = n
      /\ \A z \in extant, y \in todo : IsChild(y, z) => z \in todo
      /\ \A z \in todo, y \in extant \ todo : IsChild(y, z) => health[y] = at
  BY <1>2 DEF Beats
<1>4. \A y \in extant : health'[y] = IF y = x THEN at ELSE health[y]
  BY <1>1 DEF TypeOK
<1>5. \A g \in Handlers : g # h => beat'[g] = beat[g] /\ x \notin beat[g].todo
  BY <1>1 DEF TypeOK, Disjoint
<1>6. \A z \in extant, y \in extant : IsChild(y, z)' <=> IsChild(y, z)
  BY <1>1 DEF IsChild, FindsSuper
<1>7. beat'[h].todo = rest /\ (x # n => beat'[h].node = n /\ beat'[h].at = at)
  BY <1>1 DEF Idle, TypeOK
<1>8. ASSUME NEW y \in extant, IsChild(y, x)
      PROVE  y # x /\ y \notin todo /\ health[y] = at
  <2>1. y # x
    BY <1>8, ChildFacts
  <2>2. y \in sub[x]
    BY <1>1, <1>3, <1>8 DEF Tracked
  <2>3. y \notin todo
    BY <1>1, <2>1, <2>2
  <2> QED
    BY <1>1, <1>3, <1>8, <2>1, <2>3
<1>9. \A y \in extant : health'[y] >= health[y]
  <2>1. \A y \in extant : health[y] \in Nat
    BY DEF TypeOK
  <2> QED
    BY <1>1, <1>2, <1>3, <1>4, <2>1
<1>10. Tracked' /\ ReferentialIntegrity' /\ Deadline'
  BY <1>1, <1>6 DEF Tracked, ReferentialIntegrity, Deadline, FindsSuper
<1>11. Clock'
  <2>1. \A m \in extant : alive[m] \in Nat /\ health[m] \in Nat
    BY DEF TypeOK
  <2>2. \A m \in extant : reg[m].type = "node" => alive'[m] <= health'[m]
    <3> SUFFICES ASSUME NEW m \in extant, reg[m].type = "node"
                 PROVE  alive'[m] <= health'[m]
      OBVIOUS
    <3>1. alive[m] <= health[m]
      BY DEF Clock
    <3>2. CASE m = n /\ x = n
      <4>1. alive'[m] = Later(alive[m], at) /\ health'[m] = at
        BY <1>1, <1>4, <3>2 DEF TypeOK
      <4> QED
        BY <1>2, <1>3, <2>1, <3>1, <3>2, <4>1 DEF Later
    <3>3. CASE ~(m = n /\ x = n)
      <4>1. alive'[m] = alive[m]
        BY <1>1, <3>3 DEF TypeOK
      <4>2. health'[m] >= health[m] /\ health'[m] \in Nat
        BY <1>1, <1>9 DEF TypeOK
      <4> QED
        BY <2>1, <3>1, <4>1, <4>2
    <3> QED
      BY <3>2, <3>3
  <2> QED
    BY <1>1, <1>3, <1>4, <2>2 DEF Clock
<1>12. WakesInTime'
  <2>1. \A y \in extant : health[y] \in Nat /\ health'[y] \in Nat
    BY <1>1 DEF TypeOK
  <2> QED
    BY <1>1, <1>9, <2>1, ParameterAssumption DEF WakesInTime, TypeOK
<1>13. Disjoint'
  BY <1>5, <1>7 DEF Disjoint
<1>14. Healths'
  <2> SUFFICES ASSUME NEW z \in extant, NEW y \in extant, IsChild(y, z), health'[y] # health'[z]
               PROVE  \E g \in Handlers : z \in beat'[g].todo /\ y \notin beat'[g].todo
    BY <1>1, <1>6 DEF Healths
  <2>1. z # x
    BY <1>1, <1>4, <1>8
  <2>2. CASE y = x
    BY <1>1, <1>3, <1>7, <2>1, <2>2
  <2>3. CASE y # x
    <3>1. PICK g \in Handlers : z \in beat[g].todo /\ y \notin beat[g].todo
      BY <1>4, <2>1, <2>3 DEF Healths
    <3> QED
      BY <1>5, <1>7, <2>1, <3>1
  <2> QED
    BY <2>2, <2>3
<1>15. Beats'
  <2> SUFFICES ASSUME NEW g \in Handlers, beat'[g] # Idle
               PROVE  LET B == beat'[g] IN
                      /\ B.node \in B.todo
                      /\ B.todo \subseteq extant
                      /\ B.at <= now
                      /\ \A z \in B.todo : health'[z] <= B.at
                      /\ \A z \in B.todo : reg[z].type = "node" => z = B.node
                      /\ \A z \in extant, y \in B.todo : IsChild(y, z) => z \in B.todo
                      /\ \A z \in B.todo, y \in extant \ B.todo : IsChild(y, z) => health'[y] = B.at
    BY <1>1, <1>6 DEF Beats, IsChild, FindsSuper
  <2>1. CASE g # h
    <3>1. beat'[g] = beat[g] /\ x \notin beat[g].todo
      BY <1>5, <2>1
    <3>2. /\ beat[g].node \in beat[g].todo
          /\ beat[g].todo \subseteq extant
          /\ beat[g].at <= now
          /\ \A z \in beat[g].todo : health[z] <= beat[g].at
          /\ \A z \in beat[g].todo : reg[z].type = "node" => z = beat[g].node
          /\ \A z \in extant, y \in beat[g].todo : IsChild(y, z) => z \in beat[g].todo
          /\ \A z \in beat[g].todo, y \in extant \ beat[g].todo : IsChild(y, z) => health[y] = beat[g].at
      BY <3>1 DEF Beats
    <3>3. \A z \in beat[g].todo : ~IsChild(x, z)
      <4>1. \A z \in beat[g].todo : z \notin todo
        BY <2>1 DEF Disjoint
      <4> QED
        BY <1>1, <1>3, <3>2, <4>1
    <3> QED
      BY <1>4, <3>1, <3>2, <3>3
  <2>2. CASE g = h
    <3>1. x # n
      BY <1>1, <2>2 DEF TypeOK
    <3>2. beat'[g].todo = rest /\ beat'[g].node = n /\ beat'[g].at = at
      BY <1>7, <2>2, <3>1
    <3>3. \A z \in extant, y \in rest : IsChild(y, z) => z \in rest
      BY <1>1, <1>3, <1>8
    <3>4. \A z \in rest, y \in extant \ rest : IsChild(y, z) => health'[y] = at
      BY <1>3, <1>4
    <3> QED
      BY <1>3, <1>4, <3>1, <3>2, <3>3, <3>4
  <2> QED
    BY <2>1, <2>2
<1> QED
  BY <1>9, <1>10, <1>11, <1>12, <1>13, <1>14, <1>15

\* The expiry thread finds nothing to do and computes its next deadline.
LEMMA ExpiryCheckSafe ==
    ASSUME SafetyInv, TypeOK', ExpiryCheck
    PROVE  SafetyInv'
<1> USE DEF SafetyInv
<1>1. UNCHANGED <<now, extant, erased, reg, sub, health, beat, alive>>
  BY DEF ExpiryCheck, container
<1>2. PICK first \in 0..now :
        /\ IsLeastHealth(first, extant, health)
        /\ (wake' = first + Interval + 1 /\ expiry' = expiry) \/ (wake' = wake /\ expiry' = "upgrading")
  BY DEF ExpiryCheck
<1>3. Tracked' /\ ReferentialIntegrity' /\ Disjoint' /\ Healths' /\ Clock'
  BY <1>1 DEF Tracked, ReferentialIntegrity, Disjoint, Healths, Clock, IsChild, FindsSuper
<1>4. Beats'
  BY <1>1 DEF Beats, IsChild, FindsSuper
<1>5. Deadline' /\ WakesInTime'
  <2>1. \A x \in extant : first <= health[x] /\ health[x] \in Nat
    BY <1>2 DEF IsLeastHealth, TypeOK
  <2> QED
    BY <1>1, <1>2, <2>1, ParameterAssumption DEF Deadline, WakesInTime, TypeOK
<1> QED
  BY <1>3, <1>4, <1>5

\* Expiry takes whole families: a parent and child have the same health then.
LEMMA ExpiryEraseSafe ==
    ASSUME SafetyInv, TypeOK', ExpiryErase
    PROVE  SafetyInv'
<1> DEFINE expired   == {x \in extant : health[x] < now - Interval}
           forgotten == {x \in erased : health[x] < now - 2 * Interval}
<1> USE DEF SafetyInv
<1>1. /\ NoReaders
      /\ extant' = extant \ expired
      /\ reg' = [x \in Id |-> IF x \in expired THEN NoBody ELSE reg[x]]
      /\ sub' = [x \in Id |-> IF x \in forgotten THEN {} ELSE sub[x]]
      /\ health' = [x \in Id |-> IF x \in forgotten THEN 0 ELSE health[x]]
      /\ UNCHANGED <<now, beat, alive>>
  BY DEF ExpiryErase
<1>2. PICK first \in 0..now : IsLeastHealth(first, extant', health) /\ wake' = first + Interval + 1
  BY DEF ExpiryErase
<1>3. \A x, y \in extant : IsChild(y, x) => (x \in expired <=> y \in expired)
  BY <1>1, QuietFamily DEF FamilyHealth
<1>4. \A x \in extant' : x \in extant /\ x \notin expired /\ x \notin forgotten
  BY <1>1 DEF TypeOK
<1> HIDE DEF expired, forgotten
<1>5. \A x \in extant' : reg'[x] = reg[x] /\ sub'[x] = sub[x] /\ health'[x] = health[x]
  BY <1>1, <1>4 DEF TypeOK
<1>6. ASSUME NEW y \in extant', reg[y].type # "node"
      PROVE  FindsSuper(reg[y])' /\ reg[y].super \in extant' /\ reg'[reg[y].super].api = reg[y].api
  <2>1. FindsSuper(reg[y]) /\ reg[reg[y].super].api = reg[y].api
    BY <1>4, <1>6 DEF ReferentialIntegrity
  <2>2. reg[y].super \in extant /\ IsChild(y, reg[y].super)
    BY <2>1 DEF FindsSuper, IsChild
  <2>3. reg[y].super \in extant'
    BY <1>1, <1>3, <1>4, <2>2
  <2> QED
    BY <1>5, <2>1, <2>3 DEF FindsSuper, SuperType
<1>7. \A y \in extant', z \in extant' : IsChild(y, z)' <=> IsChild(y, z)
  BY <1>4, <1>5, <1>6 DEF IsChild, FindsSuper
<1>8. Tracked'
  <2> SUFFICES ASSUME NEW z \in extant'
               PROVE  sub'[z] = {y \in extant' : IsChild(y, z)'}
    BY DEF Tracked
  <2>1. sub'[z] = {y \in extant : IsChild(y, z)}
    BY <1>4, <1>5 DEF Tracked
  <2>2. \A y \in sub'[z] : y \in extant'
    BY <1>1, <1>3, <1>4, <2>1
  <2> QED
    BY <1>4, <1>7, <2>1, <2>2
<1>9. ReferentialIntegrity'
  BY <1>5, <1>6 DEF ReferentialIntegrity
<1>10. Beats' /\ Disjoint'
  BY <1>1 DEF Beats, Disjoint, NoReaders, Idle
<1>11. Healths'
  BY <1>1, <1>4, <1>5, <1>7, QuietFamily DEF Healths, FamilyHealth
<1>12. Clock'
  BY <1>1, <1>4, <1>5 DEF Clock
<1>13. Deadline' /\ WakesInTime'
  <2>1. \A x \in extant' : first <= health'[x]
    BY <1>2, <1>5 DEF IsLeastHealth
  <2>2. \A x \in extant' : health'[x] \in Nat
    BY <1>4, <1>5 DEF TypeOK
  <2>3. first \in Nat /\ first <= now /\ Interval \in Nat /\ now' = now
    BY <1>1, <1>2, ParameterAssumption DEF TypeOK
  <2>4. wake' <= now' + Interval + 1
    BY <1>2, <2>3 DEF TypeOK
  <2>5. \A x \in extant' : wake' <= health'[x] + Interval + 1
    BY <1>2, <2>1, <2>2, <2>3
  <2> QED
    BY <2>4, <2>5 DEF Deadline, WakesInTime
<1> QED
  BY <1>8, <1>9, <1>10, <1>11, <1>12, <1>13

-----------------------------------------------------------------------------
(* The theorems *)

\* The inductive invariant holds initially,
LEMMA InitSafe == Init => SafetyInv
<1> SUFFICES ASSUME Init
             PROVE  SafetyInv
  OBVIOUS
<1>1. TypeOK
  BY ParameterAssumption DEF Init, TypeOK, Idle, NoBody
<1>2. Tracked /\ ReferentialIntegrity /\ Healths /\ Clock /\ WakesInTime
  BY DEF Init, Tracked, ReferentialIntegrity, Healths, Clock, WakesInTime
<1>3. Beats /\ Disjoint
  BY DEF Init, Beats, Disjoint, Idle
<1>4. Deadline
  BY ParameterAssumption DEF Init, Deadline
<1> QED
  BY <1>1, <1>2, <1>3, <1>4 DEF SafetyInv

\* and is preserved by every step.
LEMMA NextSafe ==
    ASSUME Ordinary, SafetyInv, TypeOK', [Next]_vars
    PROVE  SafetyInv'
<1>1. CASE Tick
  BY <1>1, TickSafe
<1>2. ASSUME NEW b \in Bodies, Create(b) PROVE SafetyInv'
  BY <1>2, CreateSafe
<1>3. ASSUME NEW b \in Bodies, Modify(b) PROVE SafetyInv'
  BY <1>3, ModifySafe
<1>4. ASSUME NEW x \in Id, Delete(x) PROVE SafetyInv'
  BY <1>4, DeleteSafe
<1>5. ASSUME NEW h \in Handlers, NEW n \in Id, HeartbeatStart(h, n) PROVE SafetyInv'
  BY <1>5, HeartbeatStartSafe
<1>6. ASSUME NEW h \in Handlers, NEW x \in Id, HeartbeatSet(h, x) PROVE SafetyInv'
  BY <1>6, HeartbeatSetSafe
<1>7. CASE ExpiryCheck
  BY <1>7, ExpiryCheckSafe
<1>8. CASE ExpiryErase
  BY <1>8, ExpiryEraseSafe
<1>9. CASE UNCHANGED vars
  BY <1>9 DEF vars, SafetyInv, TypeOK, Tracked, ReferentialIntegrity, Beats, Disjoint, Healths, Clock,
              Deadline, WakesInTime, IsChild, FindsSuper
<1> QED
  BY <1>1, <1>2, <1>3, <1>4, <1>5, <1>6, <1>7, <1>8, <1>9 DEF Next

\* Every reachable state satisfies the inductive invariant.
THEOREM Safety ==
    ASSUME Ordinary
    PROVE  Spec => []SafetyInv
<1>1. SafetyInv /\ TypeOK' /\ [Next]_vars => SafetyInv'
  BY NextSafe
<1> QED
  BY <1>1, InitSafe, TypeCorrect, PTL DEF Spec

\* The part of the invariant that the prover's temporal steps use.
LEMMA SafetyConsequences ==
    ASSUME SafetyInv
    PROVE  ReferentialIntegrity /\ WakesInTime /\ FamilyHealth /\ TrackedFamily
<1> USE DEF SafetyInv
<1>1. FamilyHealth
  BY DEF Healths, FamilyHealth, NoReaders, Idle
<1>2. TrackedFamily
  <2> DEFINE children == [x \in Id |-> {y \in extant : IsChild(y, x)}]
  <2> SUFFICES ASSUME NEW n \in extant
               PROVE  Tree(extant, sub, n) = Tree(extant, children, n)
    BY DEF TrackedFamily, Family
  <2>1. \A z \in extant : sub[z] \cap extant = children[z] \cap extant
    BY DEF Tracked, TypeOK
  <2> HIDE DEF children
  <2> QED
    BY <2>1, TreeSame
<1> QED
  BY <1>1, <1>2

\* No device or sub-resource is ever without its parent, whatever expires.
THEOREM ReferentialIntegrityHolds ==
    ASSUME Ordinary
    PROVE  Spec => []ReferentialIntegrity
<1>1. SafetyInv => ReferentialIntegrity
  BY SafetyConsequences
<1> QED
  BY <1>1, Safety, PTL

\* A heartbeat or a DELETE of a resource reaches its family and nothing else.
THEOREM TrackedFamilyHolds ==
    ASSUME Ordinary
    PROVE  Spec => []TrackedFamily
<1>1. SafetyInv => TrackedFamily
  BY SafetyConsequences
<1> QED
  BY <1>1, Safety, PTL

\* Between heartbeats a family has one health.
THEOREM FamilyHealthHolds ==
    ASSUME Ordinary
    PROVE  Spec => []FamilyHealth
<1>1. SafetyInv => FamilyHealth
  BY SafetyConsequences
<1> QED
  BY <1>1, Safety, PTL

\* The expiry thread never sleeps past the time at which a resource is due.
THEOREM WakesInTimeHolds ==
    ASSUME Ordinary
    PROVE  Spec => []WakesInTime
<1>1. SafetyInv => WakesInTime
  BY SafetyConsequences
<1> QED
  BY <1>1, Safety, PTL

\* One heartbeat at a time per node, the comment of least_health is right.
LEMMA HealthStep ==
    ASSUME Ordinary, SafetyInv, [Next]_vars
    PROVE  \A x \in extant \cap extant' : health'[x] >= health[x]
<1> USE DEF SafetyInv
<1>0. \A x \in extant : health[x] \in Nat /\ x \in Id
  BY DEF TypeOK
<1>1. CASE health' = health
  BY <1>0, <1>1
<1>2. ASSUME NEW b \in Bodies, Create(b)
      PROVE  \A x \in extant : health'[x] >= health[x]
  <2>1. b.id \in Id /\ b.id \notin extant
    BY <1>2, BodiesAssumption DEF Create, PostStatus, Creating, Stored, Body
  <2> DEFINE ex == extant \cup {b.id}
             sb == [y \in Id |-> IF y = b.id THEN {}
                                 ELSE IF y = b.super /\ FindsSuper(b) THEN sub[y] \cup {b.id}
                                 ELSE sub[y]]
             initial == IF FindsSuper(b) THEN health[b.super] ELSE now
  <2>2. health' = [y \in Id |-> IF y \in Tree(ex, sb, b.id) THEN initial ELSE health[y]]
    BY <1>2 DEF Create, Ordinary
  <2>3. Tree(ex, sb, b.id) = {b.id}
    BY <2>1, TreeLeaf
  <2> HIDE DEF ex, sb, initial
  <2> QED
    BY <1>0, <2>1, <2>2, <2>3
<1>3. ASSUME NEW h \in Handlers, NEW y \in Id, HeartbeatSet(h, y)
      PROVE  \A x \in extant : health'[x] >= health[x]
  <2>1. beat[h] # Idle
    BY <1>3 DEF HeartbeatSet, Idle
  <2>2. health[y] <= beat[h].at /\ health' = [health EXCEPT ![y] = beat[h].at]
    BY <1>3, <2>1 DEF HeartbeatSet, Beats
  <2>3. beat[h].at \in Nat
    BY DEF TypeOK
  <2> QED
    BY <1>0, <2>2, <2>3 DEF TypeOK
<1>4. CASE ExpiryErase
  BY <1>0, <1>4 DEF ExpiryErase, TypeOK
<1> QED
  BY <1>1, <1>2, <1>3, <1>4 DEF Next, vars, Tick, Modify, Delete, HeartbeatStart, ExpiryCheck, container

\* No handler or thread ever sets the health of a registered resource back: the
\* premise of the expiry thread's snapshot in least_health.
THEOREM HealthNeverDecreasesHolds ==
    ASSUME Ordinary
    PROVE  Spec => HealthNeverDecreases
<1>1. SafetyInv /\ [Next]_vars => [\A x \in extant \cap extant' : health'[x] >= health[x]]_vars
  BY HealthStep
<1> QED
  BY <1>1, Safety, PTL DEF Spec, HealthNeverDecreases

\* A node that was acknowledged within the interval keeps its whole family.
LEMMA ExpiryStep ==
    ASSUME SafetyInv, ExpiryErase, NEW n \in extant, reg[n].type = "node", now - alive[n] <= Interval
    PROVE  Family(n) \subseteq extant'
<1> DEFINE children == [x \in Id |-> {y \in extant : IsChild(y, x)}]
           S == {x \in extant : health[x] = health[n]}
<1> USE DEF SafetyInv
<1>1. /\ NoReaders
      /\ extant' = extant \ {x \in extant : health[x] < now - Interval}
  BY DEF ExpiryErase
<1>2. FamilyHealth
  BY <1>1, QuietFamily
<1>3. S \in SUBSET extant /\ n \in S
  OBVIOUS
<1>4. \A z \in S : children[z] \cap extant \subseteq S
  BY <1>1, <1>2 DEF FamilyHealth, TypeOK
<1>5. alive[n] <= health[n] /\ alive[n] \in Nat /\ health[n] \in Nat
  BY DEF Clock, TypeOK
<1>6. S \subseteq extant'
  BY <1>1, <1>5, ParameterAssumption DEF TypeOK
<1> HIDE DEF S, children
<1>7. Tree(extant, children, n) \subseteq S
  BY <1>3, <1>4, TreeLeast
<1> QED
  BY <1>6, <1>7 DEF Family, children

\* The expiry thread never erases a node, or a resource below it, to which a
\* registration or heartbeat was acknowledged within the last interval.
THEOREM NoEarlyExpiryHolds ==
    ASSUME Ordinary
    PROVE  Spec => NoEarlyExpiry
<1>1. SafetyInv =>
        [ExpiryErase => \A n \in extant : reg[n].type = "node" /\ now - alive[n] <= Interval
                          => Family(n) \subseteq extant']_vars
  BY ExpiryStep
<1> QED
  BY <1>1, Safety, PTL DEF Spec, NoEarlyExpiry

-----------------------------------------------------------------------------
(* Registry implements ResourceForest: the forest of the data *)

\* Between resources with data, to be a child is to refer to the parent.
LEMMA ChildRefers ==
    ASSUME SafetyInv, NEW x \in extant, NEW y \in extant
    PROVE  IsChild(y, x) <=> reg[y].super = x
<1> USE DEF SafetyInv
<1>1. x # NoId
  BY NoIdAssumption DEF TypeOK
<1>2. reg[y].type = "node" => reg[y].super = NoId
  BY DEF TypeOK, Stored
<1> QED
  BY <1>1, <1>2 DEF ReferentialIntegrity, IsChild

\* What the registry visits from a resource is what the forest has below it.
LEMMA TreeIsBelow ==
    ASSUME SafetyInv, NEW x \in extant
    PROVE  Tree(extant, sub, x) = Forest!Below(x)
<1>1. \A z \in extant, y \in extant : y \in sub[z] <=> reg[y].super = z
  BY ChildRefers DEF SafetyInv, Tracked
<1>2. ASSUME NEW S \in SUBSET extant
      PROVE  (\A z \in S : sub[z] \cap extant \subseteq S)
               <=> (\A z \in extant : reg[z].super \in S => z \in S)
  BY <1>1
<1> QED
  BY <1>2 DEF Tree, Forest!Below

\* Whatever holds a resource and, with each resource, its parent, holds a node:
\* the types of parents leave no room for a cycle.
LEMMA ClimbsToNode ==
    ASSUME SafetyInv, NEW S \in SUBSET extant, S # {},
           \A y \in S, z \in extant : IsChild(y, z) => z \in S
    PROVE  \E n \in S : reg[n].type = "node"
<1> SUFFICES ASSUME \A y \in S : reg[y].type # "node"
             PROVE  FALSE
  OBVIOUS
<1>1. ASSUME NEW y \in S
      PROVE  reg[y].super \in S /\ reg[reg[y].super].type = SuperType(reg[y])
  BY <1>1 DEF SafetyInv, ReferentialIntegrity, IsChild, FindsSuper
<1>2. \A y \in S : reg[y].type \in Types
  BY DEF SafetyInv, TypeOK, Stored, Body
<1>3. \A y \in S : reg[y].type # "device"
  BY <1>1 DEF SuperType
<1>4. \A y \in S : reg[y].type = "flow"
  BY <1>1, <1>2, <1>3 DEF SuperType, Types
<1> QED
  BY <1>1, <1>4 DEF SuperType

\* A resource is below itself.
LEMMA BelowRoot ==
    ASSUME NEW x \in extant
    PROVE  x \in Forest!Below(x)
BY DEF Forest!Below

\* What is below a resource is below its parent.
LEMMA BelowParent ==
    ASSUME SafetyInv, NEW y \in extant, NEW z \in extant, IsChild(y, z)
    PROVE  Forest!Below(y) \subseteq Forest!Below(z)
<1>1. reg[y].super = z
  BY ChildRefers
<1> QED
  BY <1>1 DEF Forest!Below

\* The resource a heartbeat ends with is a node.
LEMMA BeatIsNodes ==
    ASSUME SafetyInv, NEW h \in Handlers, beat[h] # Idle
    PROVE  beat[h].node \in extant /\ reg[beat[h].node].type = "node"
<1> DEFINE todo == beat[h].todo
<1>1. /\ beat[h].node \in todo
      /\ todo \in SUBSET extant
      /\ \A y \in todo, z \in extant : IsChild(y, z) => z \in todo
      /\ \A z \in todo : reg[z].type = "node" => z = beat[h].node
  BY DEF SafetyInv, Beats
<1>2. \E n \in todo : reg[n].type = "node"
  <2> HIDE DEF todo
  <2> QED
    BY <1>1, ClimbsToNode
<1> QED
  BY <1>1, <1>2

-----------------------------------------------------------------------------
(* The steps *)

\* The registration of a resource below one that is there, or of a node.
LEMMA CreateImplements ==
    ASSUME Ordinary, SafetyInv, NEW b \in Bodies, Create(b)
    PROVE  Forest!Register(b)
<1>1. b \in Stored /\ b.id \in Id /\ b.id \notin extant /\ (b.super = NoId \/ FindsSuper(b))
  BY BodiesAssumption DEF Create, PostStatus, Creating, Stored, Body, Valid, ValidSuper, Ordinary
<1>2. /\ extant' = extant \cup {b.id}
      /\ reg' = [reg EXCEPT ![b.id] = b]
      /\ alive' = IF b.type = "node" THEN [alive EXCEPT ![b.id] = now] ELSE alive
      /\ now' = now
  BY DEF Create
<1> QED
  BY <1>1, <1>2 DEF Forest!Register, Stored, FindsSuper

\* An update leaves a resource where it is.
LEMMA ModifyImplements ==
    ASSUME Ordinary, SafetyInv, NEW b \in Bodies, Modify(b)
    PROVE  Forest!Update(b)
<1>1. /\ b \in Body /\ b.id \in extant
      /\ b.api = reg[b.id].api
      /\ b.super = reg[b.id].super
  BY BodiesAssumption DEF Modify, PostStatus, Creating, Stored, Ordinary, Valid, ValidApiVersion, ValidSuperIdType
<1>2. [b EXCEPT !.api = reg[b.id].api] = b
  BY <1>1 DEF Body
<1> QED
  BY <1>1, <1>2 DEF Modify, Forest!Update

\* A DELETE takes all that is below.
LEMMA DeleteImplements ==
    ASSUME SafetyInv, NEW x \in Id, Delete(x)
    PROVE  Forest!Remove(x)
<1>1. x \in extant
  BY DEF Delete
<1>2. Tree(extant, sub, x) = Forest!Below(x)
  BY <1>1, TreeIsBelow
<1> QED
  BY <1>1, <1>2 DEF Delete, Forest!Remove, Forest!Without

\* The last step of a heartbeat acknowledges it, the others are not seen.
LEMMA HeartbeatImplements ==
    ASSUME SafetyInv, NEW h \in Handlers, NEW x \in Id, HeartbeatSet(h, x)
    PROVE  [Forest!Next]_(Forest!forestVars)
<1>1. /\ x \in beat[h].todo
      /\ alive' = IF x = beat[h].node THEN [alive EXCEPT ![x] = Later(@, beat[h].at)] ELSE alive
      /\ UNCHANGED <<now, extant, reg>>
  BY DEF HeartbeatSet
<1>2. beat[h] # Idle
  BY <1>1 DEF Idle
<1>3. CASE x # beat[h].node
  BY <1>1, <1>3 DEF Forest!forestVars
<1>4. CASE x = beat[h].node
  <2> DEFINE t == Later(alive[x], beat[h].at)
  <2>1. x \in extant /\ reg[x].type = "node" /\ reg[x].super = NoId
    BY <1>2, <1>4, BeatIsNodes DEF SafetyInv, TypeOK, Stored
  <2>2. alive[x] <= now /\ beat[h].at <= now /\ alive[x] \in Nat /\ beat[h].at \in Nat /\ now \in Nat
    <3>1. alive[x] <= health[x] /\ health[x] <= now
      BY <2>1 DEF SafetyInv, Clock
    <3>2. alive[x] \in Nat /\ health[x] \in Nat /\ beat[h].at \in Nat /\ now \in Nat
      BY DEF SafetyInv, TypeOK
    <3>3. beat[h].at <= now
      BY <1>2 DEF SafetyInv, Beats
    <3> QED
      BY <3>1, <3>2, <3>3
  <2>3. t \in alive[x]..now /\ t \in 0..now
    BY <2>2 DEF Later
  <2>4. alive' = [alive EXCEPT ![x] = t]
    BY <1>1, <1>4
  <2> HIDE DEF t
  <2>5. Forest!Acknowledge(x, t)
    BY <1>1, <2>1, <2>3, <2>4 DEF Forest!Acknowledge
  <2> QED
    BY <2>1, <2>3, <2>5 DEF Forest!Next
<1> QED
  BY <1>3, <1>4

\* What the expiry thread erases is what lies below nodes that are silent.
LEMMA ExpiryImplements ==
    ASSUME SafetyInv, ExpiryErase
    PROVE  \E nodes \in SUBSET extant : Forest!Expire(nodes)
<1> DEFINE expired == {x \in extant : health[x] < now - Interval}
           nodes   == {n \in expired : reg[n].type = "node"}
<1>1. /\ NoReaders
      /\ extant' = extant \ expired
      /\ reg' = [x \in Id |-> IF x \in expired THEN NoBody ELSE reg[x]]
      /\ UNCHANGED <<now, alive>>
  BY DEF ExpiryErase
<1>2. \A x, y \in extant : IsChild(y, x) => health[y] = health[x]
  BY <1>1, QuietFamily DEF SafetyInv, FamilyHealth
<1>3. ASSUME NEW n \in nodes
      PROVE  Forest!Silent(n)
  <2>1. n \in extant /\ reg[n].super = NoId /\ alive[n] <= health[n] /\ health[n] < now - Interval
    BY DEF SafetyInv, Clock, TypeOK, Stored
  <2>2. alive[n] \in Nat /\ health[n] \in Nat /\ now \in Nat /\ Interval \in Nat
    BY <2>1, ParameterAssumption DEF SafetyInv, TypeOK
  <2> QED
    BY <2>1, <2>2 DEF Forest!Silent
<1>4. ASSUME NEW n \in nodes
      PROVE  Forest!Below(n) \subseteq expired
  <2>1. n \in expired /\ expired \in SUBSET extant
    OBVIOUS
  <2>2. \A z \in extant : reg[z].super \in expired => z \in expired
    BY <1>2, ChildRefers
  <2> HIDE DEF expired
  <2> QED
    BY <2>1, <2>2 DEF Forest!Below
<1>5. ASSUME NEW x \in expired
      PROVE  \E n \in nodes : x \in Forest!Below(n)
  <2> DEFINE S == {z \in expired : x \in Forest!Below(z)}
  <2>1. S \in SUBSET extant /\ x \in S
    BY BelowRoot
  <2>2. ASSUME NEW y \in S, NEW z \in extant, IsChild(y, z)
        PROVE  z \in S
    <3>1. z \in expired
      BY <1>2, <2>2
    <3>2. x \in Forest!Below(z)
      BY <2>2, BelowParent
    <3> QED
      BY <3>1, <3>2
  <2>3. \E n \in S : reg[n].type = "node"
    <3> HIDE DEF S
    <3> QED
      BY <2>1, <2>2, ClimbsToNode
  <2> QED
    BY <2>3
<1>6. expired = UNION {Forest!Below(n) : n \in nodes}
  <2> HIDE DEF expired, nodes
  <2> QED
    BY <1>4, <1>5
<1>7. nodes \in SUBSET extant
  OBVIOUS
<1> HIDE DEF expired, nodes
<1>8. Forest!Expire(nodes)
  BY <1>1, <1>3, <1>6 DEF Forest!Expire, Forest!Without
<1> QED
  BY <1>7, <1>8

\* Every step of the registry is one of the forest, or is not seen.
LEMMA NextImplements ==
    ASSUME Ordinary, SafetyInv, [Next]_vars
    PROVE  [Forest!Next]_(Forest!forestVars)
<1> USE DEF Forest!Next, Forest!forestVars
<1>1. CASE Tick
  BY <1>1 DEF Tick, container, Forest!Tick
<1>2. ASSUME NEW b \in Bodies, Create(b) PROVE Forest!Next
  BY <1>2, CreateImplements
<1>3. ASSUME NEW b \in Bodies, Modify(b) PROVE Forest!Next
  BY <1>3, ModifyImplements
<1>4. ASSUME NEW x \in Id, Delete(x) PROVE Forest!Next
  <2>1. x \in extant
    BY <1>4 DEF Delete
  <2> QED
    BY <1>4, <2>1, DeleteImplements
<1>5. ASSUME NEW h \in Handlers, NEW n \in Id, HeartbeatStart(h, n) PROVE UNCHANGED Forest!forestVars
  BY <1>5 DEF HeartbeatStart, container
<1>6. ASSUME NEW h \in Handlers, NEW x \in Id, HeartbeatSet(h, x) PROVE [Forest!Next]_(Forest!forestVars)
  BY <1>6, HeartbeatImplements
<1>7. CASE ExpiryCheck
  BY <1>7 DEF ExpiryCheck, container
<1>8. CASE ExpiryErase
  BY <1>8, ExpiryImplements
<1>9. CASE UNCHANGED vars
  BY <1>9 DEF vars
<1> QED
  BY <1>1, <1>2, <1>3, <1>4, <1>5, <1>6, <1>7, <1>8, <1>9 DEF Next

\* The tracked sub-resources, the health of each resource, the locks and the
\* deadline of the expiry thread implement the forest that users see.
THEOREM RegistryImplementsForest ==
    ASSUME Ordinary
    PROVE  Spec => Implements
<1>1. Init => Forest!Init
  BY DEF Init, Forest!Init
<1>2. SafetyInv /\ [Next]_vars => [Forest!Next]_(Forest!forestVars)
  BY NextImplements
<1> QED
  BY <1>1, <1>2, Safety, PTL DEF Spec, Implements, Forest!Spec
=============================================================================
