--------------------------- MODULE ServicesProofs ---------------------------
(***************************************************************************)
(* The safety of the services of a node beside its registration, for every *)
(* number of them and of their failures: the monitors of the device model  *)
(* (StatusMonitor), the System API (SystemBehaviour), OCSP                 *)
(* (OcspBehaviour), the issuers of tokens (TokenIssuers), the client of an *)
(* authorization server (Authorization), DNS-SD (Discovery), and both ends *)
(* of the events WebSocket (EventsClient and EventsServer).  The variables *)
(* of the instances are declared where they are first wanted; those of     *)
(* different ones that have a name in common are not related.              *)
(***************************************************************************)
EXTENDS StatusMonitor, Sequences, SequenceTheorems, FunctionTheorems, FiniteSetTheorems, TLAPS

Facts == INSTANCE DataFacts

-----------------------------------------------------------------------------
(* StatusMonitor: the inductive invariant *)

\* There is a longest delay.
Delays ==
    /\ Monitor # {}
    /\ \E most \in Nat : Delay \in [Monitor -> 0..most]
    /\ ActiveDomain \subseteq Domain
    /\ MaxNow \in Nat \ {0} /\ MaxReports \in Nat /\ MaxRequests \in Nat

Record == [status      : [Domain -> Status],
           overall     : Status,
           pending     : [Domain -> Status],
           received    : [Domain -> 0..MaxNow],
           transitions : [Domain -> 0..MaxReports],
           activation  : 0..MaxNow]

\* A monitor at some time, after some reports of which the latest are given: it is
\* inactive when an active domain is; what is pending for one of these was received since
\* the activation; each transition was reported, for each other report at most; and the
\* latest status is the one reported, or is pending.
Sound(r, latest, time, n) ==
    /\ r \in Record /\ latest \in [Domain -> Status]
    /\ r.overall # 0 => \A d \in ActiveDomain : r.status[d] # 0
    /\ r.activation <= time
    /\ \A d \in Domain :
        /\ r.received[d] <= time
        /\ d \in ActiveDomain /\ r.received[d] > 0 => r.activation <= r.received[d]
        /\ r.transitions[d] + (IF r.received[d] > 0 THEN 1 ELSE 0) <= n
        /\ latest[d] = IF r.received[d] > 0 THEN r.pending[d] ELSE r.status[d]

\* A monitor that is not there is as one just made.
Absent == \A m \in Monitor \ present : mon[m] = FirstMonitor /\ last[m] = FirstStatus

\* The thread does not sleep longer than some delay from now, nor from when
\* something that it looks after was received; and it knows of that.
Watched ==
    /\ thread = "sleeping" => flag /\ \E k \in Monitor : wakeAt <= now + Delay[k]
    /\ thread # "terminated" =>
        \A m \in scanned, d \in Domain : mon[m].received[d] > 0 =>
            /\ flag
            /\ thread = "sleeping" =>
                 wakeAt <= now \/ \E k \in Monitor : wakeAt <= mon[m].received[d] + Delay[k]

Inv ==
    /\ TypeOK /\ Absent /\ Watched
    /\ \A m \in Monitor : Sound(mon[m], last[m], now, reports)

-----------------------------------------------------------------------------
(* StatusMonitor: its operators *)

LEMMA MaxFacts ==
    ASSUME NEW bound \in Nat, NEW S \in SUBSET (0..bound), S # {}
    PROVE  Max(S) \in S /\ \A x \in S : x <= Max(S)
<1>1. PICK m \in S : \A i \in S : i <= m
  BY Facts!NatMax
<1> QED
  BY <1>1 DEF Max

LEMMA MinFacts ==
    ASSUME NEW S \in SUBSET Nat, S # {}
    PROVE  Min(S) \in S /\ \A x \in S : Min(S) <= x
<1>1. PICK m \in S : \A i \in S : m <= i
  BY Facts!NatMin
<1> QED
  BY <1>1 DEF Min

LEMMA OverallFacts ==
    ASSUME NEW status \in [Domain -> Status]
    PROVE  /\ OverallStatus(status) \in Status
           /\ OverallStatus(status) # 0 => \A d \in ActiveDomain : status[d] # 0
<1> DEFINE counted == {d \in Domain : d \notin OptionalDomain \/ status[d] # 0}
           S == {status[d] : d \in counted}
<1>1. S \in SUBSET (0..3)
  BY DEF Status
<1>2. S # {} => Max(S) \in Status
  BY <1>1, MaxFacts DEF Status
<1>3. counted # {} => S # {}
  OBVIOUS
<1> QED
  BY <1>2, <1>3 DEF OverallStatus, Status

LEMMA FirstFacts ==
    ASSUME Delays, NEW time \in Nat, NEW n \in Nat
    PROVE  Sound(FirstMonitor, FirstStatus, time, n)
BY DEF Sound, Record, FirstMonitor, FirstStatus, Status, Delays

\* Some domains of a monitor are given a status that is or was reported, or is not worse
\* than healthy.
Given(r, latest, time, n, n2, given, latest2) ==
    /\ Sound(r, latest, time, n) /\ time \in Nat /\ n \in Nat /\ n2 \in n..MaxReports
    /\ DOMAIN given \subseteq Domain /\ given \in [DOMAIN given -> Status]
    /\ \A d \in DOMAIN given : given[d] <= 1 \/ r.received[d] > 0 \/ n2 = n + 1
    /\ latest2 = [d \in Domain |-> IF d \in DOMAIN given THEN given[d] ELSE latest[d]]

\* set_monitor_status_internal
LEMMA ApplySound ==
    ASSUME Delays, NEW r, NEW latest, NEW time, NEW n, NEW n2, NEW given, NEW latest2,
           Given(r, latest, time, n, n2, given, latest2)
    PROVE  /\ Sound(Apply(r, given), latest2, time, n2)
           /\ \A d \in DOMAIN given : Apply(r, given).status[d] = given[d] /\ Apply(r, given).received[d] = 0
           /\ \A d \in Domain \ DOMAIN given : /\ Apply(r, given).status[d] = r.status[d]
                                               /\ Apply(r, given).received[d] = r.received[d]
           /\ Apply(r, given).activation = r.activation
<1> DEFINE D == DOMAIN given
<1>a. /\ Sound(r, latest, time, n) /\ time \in Nat /\ n \in Nat /\ n2 \in n..MaxReports
      /\ D \in SUBSET Domain /\ given \in [D -> Status]
      /\ \A d \in D : given[d] <= 1 \/ r.received[d] > 0 \/ n2 = n + 1
      /\ latest2 = [d \in Domain |-> IF d \in D THEN given[d] ELSE latest[d]]
  BY DEF Given
<1>b. DOMAIN given = D
  OBVIOUS
<1> HIDE DEF D
<1> DEFINE status == [d \in Domain |-> IF d \in D THEN given[d] ELSE r.status[d]]
           received == [d \in Domain |-> IF d \in D THEN 0 ELSE r.received[d]]
           transitions == [d \in Domain |-> IF status[d] > 1 /\ status[d] > r.status[d]
                                            THEN r.transitions[d] + 1 ELSE r.transitions[d]]
           a == Apply(r, given)
<1>1. r \in Record /\ latest \in [Domain -> Status]
  BY <1>a DEF Sound
<1>2. status \in [Domain -> Status] /\ received \in [Domain -> 0..MaxNow]
  <2>1. r.status \in [Domain -> Status] /\ r.received \in [Domain -> 0..MaxNow] /\ 0 \in 0..MaxNow
    BY <1>1 DEF Record, Delays
  <2> QED
    BY <1>a, <2>1
<1>3. OverallStatus(status) \in Status
      /\ (OverallStatus(status) # 0 => \A d \in ActiveDomain : status[d] # 0)
  <2> HIDE DEF status
  <2> QED
    BY <1>2, OverallFacts
<1>4. a = [r EXCEPT !.status = status, !.overall = OverallStatus(status), !.received = received,
                    !.transitions = transitions]
  BY <1>1, <1>b DEF Apply, Record
<1>5. a = [status |-> status, overall |-> OverallStatus(status), pending |-> r.pending,
           received |-> received, transitions |-> transitions, activation |-> r.activation]
  <2> HIDE DEF status, received, transitions, a
  <2> QED
    BY <1>1, <1>4 DEF Record
<1> HIDE DEF a
<1>6. ASSUME NEW d \in Domain
      PROVE  /\ transitions[d] \in Nat
             /\ transitions[d] + (IF received[d] > 0 THEN 1 ELSE 0) <= n2
  <2>1. /\ r.transitions[d] \in Nat /\ r.transitions[d] + (IF r.received[d] > 0 THEN 1 ELSE 0) <= n
        /\ n \in Nat /\ n2 \in Nat /\ n <= n2
    BY <1>a, <1>1 DEF Sound, Record, Delays
  <2>2. CASE d \in D
    <3>1. received[d] = 0 /\ status[d] = given[d] /\ given[d] \in 0..3
      BY <1>a, <2>2 DEF Status
    <3>2. transitions[d] = r.transitions[d] \/ (given[d] > 1 /\ transitions[d] = r.transitions[d] + 1)
      BY <3>1
    <3> QED
      BY <1>a, <2>1, <2>2, <3>1, <3>2
  <2>3. CASE d \notin D
    <3>1. received[d] = r.received[d] /\ status[d] = r.status[d] /\ r.status[d] \in 0..3
      BY <1>1, <2>3 DEF Status, Record
    <3>2. transitions[d] = r.transitions[d]
      BY <3>1
    <3> QED
      BY <2>1, <3>1, <3>2
  <2> QED
    BY <2>2, <2>3
<1>7. transitions \in [Domain -> 0..MaxReports]
  <2>1. \A d \in Domain : transitions[d] \in 0..MaxReports
    BY <1>a, <1>2, <1>6 DEF Delays
  <2> QED
    BY <2>1
<1>8. a \in Record
  <2> HIDE DEF status, received, transitions
  <2> QED
    BY <1>1, <1>2, <1>3, <1>5, <1>7 DEF Record
<1>9. ASSUME NEW d \in Domain
      PROVE  /\ received[d] <= time
             /\ d \in ActiveDomain /\ received[d] > 0 => r.activation <= received[d]
             /\ latest2[d] = IF received[d] > 0 THEN r.pending[d] ELSE status[d]
  <2>1. /\ r.received[d] <= time
        /\ d \in ActiveDomain /\ r.received[d] > 0 => r.activation <= r.received[d]
        /\ latest[d] = IF r.received[d] > 0 THEN r.pending[d] ELSE r.status[d]
    BY <1>a DEF Sound
  <2> QED
    BY <1>a, <2>1
<1>10. r.activation <= time /\ latest2 \in [Domain -> Status]
  BY <1>a, <1>1 DEF Sound
<1>11. /\ a.status = status /\ a.overall = OverallStatus(status) /\ a.pending = r.pending
       /\ a.received = received /\ a.transitions = transitions /\ a.activation = r.activation
  BY <1>5
<1>12. Sound(a, latest2, time, n2)
  <2> HIDE DEF status, received, transitions
  <2> QED
    BY <1>3, <1>6, <1>8, <1>9, <1>10, <1>11 DEF Sound
<1>13. /\ \A d \in D : status[d] = given[d] /\ received[d] = 0
       /\ \A d \in Domain \ D : status[d] = r.status[d] /\ received[d] = r.received[d]
  BY <1>a
<1> QED
  <2> HIDE DEF status, received, transitions
  <2> QED
    BY <1>11, <1>12, <1>13 DEF a, D

\* Every active domain is given a status that is not worse than healthy.
LEMMA ActiveSound ==
    ASSUME Delays, NEW r, NEW latest, NEW time \in Nat, NEW n \in 0..MaxReports,
           Sound(r, latest, time, n), NEW s \in {0, 1}
    PROVE  /\ Sound(Apply(r, [d \in ActiveDomain |-> s]),
                    [d \in Domain |-> IF d \in ActiveDomain THEN s ELSE latest[d]], time, n)
           /\ \A d \in Domain :
                Apply(r, [e \in ActiveDomain |-> s]).received[d] = IF d \in ActiveDomain THEN 0 ELSE r.received[d]
<1> DEFINE given == [d \in ActiveDomain |-> s]
           latest2 == [d \in Domain |-> IF d \in ActiveDomain THEN s ELSE latest[d]]
<1>1. n \in Nat /\ n \in n..MaxReports
  BY DEF Delays
<1>2. DOMAIN given = ActiveDomain /\ given \in [ActiveDomain -> Status] /\ \A d \in ActiveDomain : given[d] = s
  BY DEF Status
<1>3. ActiveDomain \subseteq Domain
  BY DEF Delays
<1> HIDE DEF given
<1>4. latest2 = [d \in Domain |-> IF d \in DOMAIN given THEN given[d] ELSE latest[d]]
  BY <1>2
<1>5. \A d \in DOMAIN given : given[d] <= 1
  BY <1>2
<1> HIDE DEF latest2
<1>6. Given(r, latest, time, n, n, given, latest2)
  BY <1>1, <1>2, <1>3, <1>4, <1>5 DEF Given
<1>7. /\ Sound(Apply(r, given), latest2, time, n)
      /\ \A d \in DOMAIN given : Apply(r, given).received[d] = 0
      /\ \A d \in Domain \ DOMAIN given : Apply(r, given).received[d] = r.received[d]
  BY <1>6, ApplySound
<1>8. \A d \in Domain : Apply(r, given).received[d] = IF d \in ActiveDomain THEN 0 ELSE r.received[d]
  BY <1>2, <1>3, <1>7
<1> QED
  BY <1>7, <1>8 DEF given, latest2

\* The thread waits if nothing is pending, ...
Waits(properties, monitors) ==
    /\ thread' = "waiting" /\ flag' = FALSE /\ wakeAt' = 0
    /\ \A m \in monitors, d \in Domain : properties[m].received[d] = 0

\* ... and otherwise sleeps until the first of what is pending is due.
Sleeps(properties, monitors) ==
    /\ thread' = "sleeping" /\ flag' = flag
    /\ wakeAt' \in Nat
    /\ \E k \in Monitor : wakeAt' <= now + Delay[k]
    /\ \A m \in monitors, d \in Domain : properties[m].received[d] > 0 =>
          wakeAt' <= now \/ wakeAt' <= properties[m].received[d] + Delay[m]

LEMMA SleepFacts ==
    ASSUME Delays, NEW properties, NEW monitors \in SUBSET Monitor, now \in 1..MaxNow,
           \A m \in monitors : properties[m] \in Record /\ \A d \in Domain : properties[m].received[d] <= now,
           SleepFor(properties, monitors)
    PROVE  Waits(properties, monitors) \/ Sleeps(properties, monitors)
<1> DEFINE pending == {p \in monitors \X Domain : properties[p[1]].received[p[2]] > 0}
           due == Thresholds(properties, monitors)
           until == Max({Min(due), now})
<1>0. now \in Nat
  BY DEF Delays
<1>1. due = {properties[p[1]].received[p[2]] + Delay[p[1]] : p \in pending}
  BY DEF Thresholds
<1>2. ASSUME NEW p \in pending
      PROVE  /\ p[1] \in monitors /\ p[1] \in Monitor /\ p[2] \in Domain
             /\ properties[p[1]].received[p[2]] \in 1..now /\ Delay[p[1]] \in Nat
  BY DEF Delays, Record
<1>3. due \in SUBSET Nat
  BY <1>1, <1>2
<1>4. ASSUME NEW m \in monitors, NEW d \in Domain, properties[m].received[d] > 0
      PROVE  properties[m].received[d] + Delay[m] \in due
  <2>1. <<m, d>> \in pending
    BY <1>4
  <2> QED
    BY <1>1, <2>1
<1>5. \A m \in monitors, d \in Domain : properties[m].received[d] \in Nat
  BY DEF Record, Delays
<1> HIDE DEF pending, due
<1>6. CASE due = {}
  <2>1. thread' = "waiting" /\ flag' = FALSE /\ wakeAt' = 0
    BY <1>6 DEF SleepFor, due
  <2>2. \A m \in monitors, d \in Domain : properties[m].received[d] = 0
    BY <1>4, <1>5, <1>6
  <2> QED
    BY <2>1, <2>2 DEF Waits
<1>7. CASE due # {}
  <2>1. thread' = "sleeping" /\ flag' = flag /\ wakeAt' = until
    BY <1>7 DEF SleepFor, due
  <2>2. Min(due) \in due /\ \A x \in due : Min(due) <= x
    BY <1>3, <1>7, MinFacts
  <2>a. Min(due) \in Nat /\ now \in Nat
    BY <1>0, <1>3, <2>2
  <2>3. until \in {Min(due), now}
    <3>1. Min(due) \in Nat /\ now \in Nat
      BY <2>a
    <3>2. {Min(due), now} \in SUBSET (0..(Min(due) + now)) /\ Min(due) + now \in Nat
      BY <3>1
    <3> HIDE DEF due
    <3> QED
      BY <3>2, MaxFacts
  <2>4. PICK p \in pending : Min(due) = properties[p[1]].received[p[2]] + Delay[p[1]]
    BY <1>1, <2>2
  <2>5. Min(due) <= now + Delay[p[1]] /\ p[1] \in Monitor /\ Delay[p[1]] \in Nat
    BY <1>2, <2>4
  <2> HIDE DEF until
  <2>6. until \in Nat /\ until <= now + Delay[p[1]]
    BY <2>a, <2>3, <2>5
  <2>7. \A m \in monitors, d \in Domain : properties[m].received[d] > 0 =>
            until <= now \/ until <= properties[m].received[d] + Delay[m]
    <3>1. ASSUME NEW m \in monitors, NEW d \in Domain, properties[m].received[d] > 0
          PROVE  until <= now \/ until <= properties[m].received[d] + Delay[m]
      <4>1. Min(due) <= properties[m].received[d] + Delay[m]
        BY <1>4, <2>2, <3>1
      <4>2. now <= now
        BY <2>a
      <4> QED
        BY <2>3, <4>1, <4>2
    <3> QED
      BY <3>1
  <2> QED
    BY <2>1, <2>5, <2>6, <2>7 DEF Sleeps
<1> QED
  BY <1>6, <1>7

\* It wakes no later than the longest delay from now.
LEMMA LongestFacts ==
    ASSUME Delays
    PROVE  /\ Max({Delay[m] : m \in Monitor}) \in Nat
           /\ \A k \in Monitor : Delay[k] \in Nat /\ Delay[k] <= Max({Delay[m] : m \in Monitor})
<1> DEFINE S == {Delay[m] : m \in Monitor}
<1>1. PICK most \in Nat : Delay \in [Monitor -> 0..most]
  BY DEF Delays
<1>2. S \in SUBSET (0..most) /\ S # {}
  BY <1>1 DEF Delays
<1>3. \A k \in Monitor : Delay[k] \in S
  OBVIOUS
<1> HIDE DEF S
<1>4. Max(S) \in S /\ \A x \in S : x <= Max(S)
  BY <1>2, MaxFacts
<1>5. Max(S) \in Nat /\ \A k \in Monitor : Delay[k] \in Nat /\ Delay[k] <= Max(S)
  <2>1. Max(S) \in Nat
    <3>1. \A x \in S : x \in Nat
      BY <1>2
    <3> QED
      BY <1>4, <3>1
  <2>2. \A k \in Monitor : Delay[k] \in Nat
    BY <1>1
  <2>3. \A k \in Monitor : Delay[k] <= Max(S)
    BY <1>3, <1>4
  <2> QED
    BY <2>1, <2>2, <2>3
<1> QED
  BY <1>5 DEF S

LEMMA WakesInTime ==
    ASSUME Delays, now \in 1..MaxNow, NEW time \in Nat,
           time = 0 \/ \E k \in Monitor : time <= now + Delay[k]
    PROVE  time \in 0..(MaxNow + Max({Delay[m] : m \in Monitor}))
<1> DEFINE most == Max({Delay[m] : m \in Monitor})
<1>1. MaxNow \in Nat /\ now \in Nat /\ now <= MaxNow
  BY DEF Delays
<1>2. most \in Nat /\ \A k \in Monitor : Delay[k] \in Nat /\ Delay[k] <= most
  BY LongestFacts
<1> HIDE DEF most
<1>3. ASSUME time = 0 PROVE time \in 0..(MaxNow + most)
  BY <1>1, <1>2, <1>3
<1>4. ASSUME NEW k \in Monitor, time <= now + Delay[k] PROVE time \in 0..(MaxNow + most)
  BY <1>1, <1>2, <1>4
<1>5. time \in 0..(MaxNow + most)
  BY <1>3, <1>4
<1> QED
  BY <1>5 DEF most

-----------------------------------------------------------------------------
(* StatusMonitor: what a call does to a monitor *)

\* The properties of the monitors after a step, the thread aside
Kept ==
    /\ \A m \in Monitor : Sound(mon'[m], last'[m], now, reports')
    /\ mon' \in [Monitor -> Record] /\ last' \in [Monitor -> [Domain -> Status]]
    /\ reports' \in 0..MaxReports /\ requests' \in 0..MaxRequests
    /\ UNCHANGED <<now, thread, wakeAt, scanned>>
    /\ \A m \in Monitor \ present : mon'[m] = mon[m] /\ last'[m] = last[m]
    /\ flag' \in {flag, TRUE}
    /\ \A m \in Monitor, d \in Domain :
        \/ mon'[m].received[d] \in {0, mon[m].received[d]}
        \/ mon'[m].received[d] = now /\ flag' = TRUE

\* One monitor changes.
LEMMA OneKept ==
    ASSUME Delays, Inv, NEW m \in present, NEW r, NEW latest,
           mon' = [mon EXCEPT ![m] = r], last' = [last EXCEPT ![m] = latest],
           Sound(r, latest, now, reports'),
           reports' \in reports..MaxReports, requests' \in 0..MaxRequests,
           UNCHANGED <<now, thread, wakeAt, scanned>>, flag' \in {flag, TRUE},
           \A d \in Domain : \/ r.received[d] \in {0, mon[m].received[d]}
                             \/ r.received[d] = now /\ flag' = TRUE
    PROVE  Kept
<1>1. mon \in [Monitor -> Record] /\ last \in [Monitor -> [Domain -> Status]] /\ present \subseteq Monitor
      /\ reports \in Nat /\ reports' \in Nat /\ reports' <= MaxReports /\ reports <= reports'
  BY DEF Inv, TypeOK, Record, Delays
<1>2. r \in Record /\ latest \in [Domain -> Status]
  BY DEF Sound
<1>3. mon' \in [Monitor -> Record] /\ last' \in [Monitor -> [Domain -> Status]]
  BY <1>1, <1>2
<1>4. mon'[m] = r /\ last'[m] = latest /\ \A k \in Monitor \ {m} : mon'[k] = mon[k] /\ last'[k] = last[k]
  BY <1>1
<1>5. ASSUME NEW k \in Monitor \ {m}
      PROVE  Sound(mon'[k], last'[k], now, reports')
  <2>1. Sound(mon[k], last[k], now, reports)
    BY DEF Inv
  <2>2. \A d \in Domain : mon[k].transitions[d] + (IF mon[k].received[d] > 0 THEN 1 ELSE 0) <= reports'
    <3>1. \A d \in Domain : mon[k].transitions[d] \in Nat
      BY <1>1 DEF Record, Delays
    <3> QED
      BY <1>1, <2>1, <3>1 DEF Sound
  <2>3. Sound(mon[k], last[k], now, reports')
    BY <2>1, <2>2 DEF Sound
  <2> QED
    BY <1>4, <2>3
<1>6. \A k \in Monitor, d \in Domain :
        \/ mon'[k].received[d] \in {0, mon[k].received[d]}
        \/ mon'[k].received[d] = now /\ flag' = TRUE
  BY <1>1, <1>4
<1>7. \A k \in Monitor : Sound(mon'[k], last'[k], now, reports')
  BY <1>4, <1>5
<1>8. \A k \in Monitor \ present : mon'[k] = mon[k] /\ last'[k] = last[k]
  BY <1>4
<1>9. reports' \in 0..MaxReports
  BY <1>1
<1> QED
  BY <1>3, <1>6, <1>7, <1>8, <1>9 DEF Kept

\* set_monitor_status
LEMMA ReportKept ==
    ASSUME Delays, Inv, NEW m \in Monitor, NEW d \in Domain, NEW s \in Status,
           SameStatus(m, d, s) \/ StatusNow(m, d, s) \/ StatusLater(m, d, s)
    PROVE  Kept /\ UNCHANGED present
<1> DEFINE r == mon[m]
           latest == [last[m] EXCEPT ![d] = s]
<1>1. /\ m \in present /\ reports < MaxReports /\ reports' = reports + 1 /\ requests' = requests
      /\ UNCHANGED <<now, present, thread, wakeAt, scanned>>
      /\ last' = [last EXCEPT ![m] = latest]
  BY DEF SameStatus, StatusNow, StatusLater, MayReport, Reported
<1>2. /\ reports \in Nat /\ reports' \in Nat /\ reports' \in reports..MaxReports /\ requests' \in 0..MaxRequests
      /\ now \in Nat /\ now >= 1 /\ now <= MaxNow
  BY <1>1 DEF Inv, TypeOK, Delays
<1>3. Sound(r, last[m], now, reports) /\ r \in Record /\ last[m] \in [Domain -> Status]
  BY DEF Inv, Sound
<1>4. mon \in [Monitor -> Record] /\ last \in [Monitor -> [Domain -> Status]]
  BY DEF Inv, TypeOK, Record
<1>5. \A e \in Domain : r.received[e] \in Nat /\ r.received[e] <= MaxNow /\ r.transitions[e] \in Nat
  BY <1>3 DEF Record, Delays
<1>6. CASE SameStatus(m, d, s)
  <2> DEFINE received == [r.received EXCEPT ![d] = 0]
             r2 == [r EXCEPT !.received = received]
  <2>1. mon' = [mon EXCEPT ![m] = r2] /\ flag' = flag /\ s = r.status[d]
    BY <1>6 DEF SameStatus
  <2>a. /\ received \in [Domain -> 0..MaxNow]
        /\ \A e \in Domain : received[e] = IF e = d THEN 0 ELSE r.received[e]
    <3>1. r.received \in [Domain -> 0..MaxNow]
      BY <1>3 DEF Record
    <3> QED
      BY <3>1 DEF Delays
  <2> HIDE DEF received, r
  <2>b. r2 = [status |-> r.status, overall |-> r.overall, pending |-> r.pending,
              received |-> received, transitions |-> r.transitions, activation |-> r.activation]
    BY <1>3 DEF Record
  <2> HIDE DEF r2
  <2>2. /\ r2 \in Record
        /\ r2.status = r.status /\ r2.overall = r.overall /\ r2.pending = r.pending
        /\ r2.transitions = r.transitions /\ r2.activation = r.activation
        /\ \A e \in Domain : r2.received[e] = IF e = d THEN 0 ELSE r.received[e]
    BY <1>3, <2>a, <2>b DEF Record
  <2>3. latest \in [Domain -> Status] /\ \A e \in Domain : latest[e] = IF e = d THEN s ELSE last[m][e]
    BY <1>3
  <2> HIDE DEF r2, latest, r
  <2>4. ASSUME NEW e \in Domain
        PROVE  /\ r2.received[e] <= now
               /\ e \in ActiveDomain /\ r2.received[e] > 0 => r2.activation <= r2.received[e]
               /\ r2.transitions[e] + (IF r2.received[e] > 0 THEN 1 ELSE 0) <= reports'
               /\ latest[e] = IF r2.received[e] > 0 THEN r2.pending[e] ELSE r2.status[e]
    <3>1. CASE e = d
      BY <1>1, <1>2, <1>3, <1>5, <2>1, <2>2, <2>3, <3>1 DEF Sound
    <3>2. CASE e # d
      BY <1>1, <1>2, <1>3, <1>5, <2>2, <2>3, <3>2 DEF Sound
    <3> QED
      BY <3>1, <3>2
  <2>5. Sound(r2, latest, now, reports')
    BY <1>3, <2>2, <2>3, <2>4 DEF Sound
  <2>6. \A e \in Domain : r2.received[e] \in {0, mon[m].received[e]}
    BY <2>2 DEF r
  <2> QED
    BY <1>1, <1>2, <2>1, <2>5, <2>6, OneKept
<1>7. CASE StatusNow(m, d, s)
  <2> DEFINE r2 == Apply(r, One(d, s))
             given == One(d, s)
  <2>1. mon' = [mon EXCEPT ![m] = r2] /\ flag' = flag
    BY <1>4, <1>7 DEF StatusNow
  <2>2. DOMAIN given = {d} /\ given \in [{d} -> Status] /\ given[d] = s
    BY DEF One
  <2>3. r2 = Apply(r, given)
    OBVIOUS
  <2> HIDE DEF r2, r, given
  <2>4. latest = [e \in Domain |-> IF e \in DOMAIN given THEN given[e] ELSE last[m][e]]
    BY <1>3, <2>2
  <2> HIDE DEF latest
  <2>5. Given(r, last[m], now, reports, reports', given, latest)
    <3>1. \A e \in DOMAIN given : given[e] <= 1 \/ r.received[e] > 0 \/ reports' = reports + 1
      BY <1>1
    <3>2. DOMAIN given \subseteq Domain /\ given \in [DOMAIN given -> Status]
      BY <2>2
    <3> QED
      BY <1>2, <1>3, <2>4, <3>1, <3>2 DEF Given
  <2>6. /\ Sound(r2, latest, now, reports')
        /\ \A e \in DOMAIN given : r2.received[e] = 0
        /\ \A e \in Domain \ DOMAIN given : r2.received[e] = r.received[e]
    BY <2>3, <2>5, ApplySound
  <2>7. \A e \in Domain : r2.received[e] \in {0, mon[m].received[e]}
    BY <2>6 DEF r
  <2> QED
    BY <1>1, <1>2, <2>1, <2>6, <2>7, OneKept
<1>8. CASE StatusLater(m, d, s)
  <2> DEFINE received == [r.received EXCEPT ![d] = IF @ = 0 THEN now ELSE @]
             pending == [r.pending EXCEPT ![d] = s]
             b == [r EXCEPT !.received = received]
             r2 == [r EXCEPT !.received = received, !.pending = pending]
  <2>1. mon' = [mon EXCEPT ![m] = r2] /\ flag' = TRUE
    BY <1>8 DEF StatusLater
  <2>a. /\ received \in [Domain -> 0..MaxNow] /\ pending \in [Domain -> Status]
        /\ \A e \in Domain : /\ received[e] = IF e = d /\ r.received[d] = 0 THEN now ELSE r.received[e]
                             /\ pending[e] = IF e = d THEN s ELSE r.pending[e]
    <3>1. r.received \in [Domain -> 0..MaxNow] /\ r.pending \in [Domain -> Status] /\ now \in 0..MaxNow
      BY <1>2, <1>3 DEF Record, Delays
    <3> QED
      BY <3>1
  <2> HIDE DEF received, pending, r
  <2>b. r2 = [status |-> r.status, overall |-> r.overall, pending |-> pending,
              received |-> received, transitions |-> r.transitions, activation |-> r.activation]
    <3>1. b = [status |-> r.status, overall |-> r.overall, pending |-> r.pending,
               received |-> received, transitions |-> r.transitions, activation |-> r.activation]
      BY <1>3 DEF Record
    <3>2. r2 = [b EXCEPT !.pending = pending]
      OBVIOUS
    <3> HIDE DEF b, r2
    <3> QED
      BY <3>1, <3>2
  <2> HIDE DEF r2
  <2>2. /\ r2 \in Record
        /\ r2.status = r.status /\ r2.overall = r.overall
        /\ r2.transitions = r.transitions /\ r2.activation = r.activation
        /\ \A e \in Domain : /\ r2.received[e] = IF e = d /\ r.received[d] = 0 THEN now ELSE r.received[e]
                             /\ r2.pending[e] = IF e = d THEN s ELSE r.pending[e]
    BY <1>3, <2>a, <2>b DEF Record
  <2>3. latest \in [Domain -> Status] /\ \A e \in Domain : latest[e] = IF e = d THEN s ELSE last[m][e]
    BY <1>3
  <2> HIDE DEF r2, latest, r
  <2>4. ASSUME NEW e \in Domain
        PROVE  /\ r2.received[e] <= now
               /\ e \in ActiveDomain /\ r2.received[e] > 0 => r2.activation <= r2.received[e]
               /\ r2.transitions[e] + (IF r2.received[e] > 0 THEN 1 ELSE 0) <= reports'
               /\ latest[e] = IF r2.received[e] > 0 THEN r2.pending[e] ELSE r2.status[e]
    <3>1. CASE e = d
      BY <1>1, <1>2, <1>3, <1>5, <2>1, <2>2, <2>3, <3>1 DEF Sound
    <3>2. CASE e # d
      BY <1>1, <1>2, <1>3, <1>5, <2>2, <2>3, <3>2 DEF Sound
    <3> QED
      BY <3>1, <3>2
  <2>5. Sound(r2, latest, now, reports')
    BY <1>3, <2>2, <2>3, <2>4 DEF Sound
  <2>6. \A e \in Domain : \/ r2.received[e] \in {0, mon[m].received[e]}
                          \/ r2.received[e] = now /\ flag' = TRUE
    BY <2>1, <2>2 DEF r
  <2>7. flag' \in {flag, TRUE}
    BY <2>1
  <2> QED
    BY <1>1, <1>2, <2>1, <2>5, <2>6, <2>7, OneKept
<1> QED
  BY <1>1, <1>6, <1>7, <1>8

\* activate_monitor, deactivate_monitor, reset_monitor, and the removal of a monitor
LEMMA RequestKept ==
    ASSUME Delays, Inv, NEW m \in Monitor, NEW autoReset \in BOOLEAN,
           Activate(m, autoReset) \/ Deactivate(m) \/ ResetMonitor(m) \/ Remove(m)
    PROVE  Kept
<1> DEFINE r == mon[m]
<1>1. /\ m \in present /\ requests' = requests + 1 /\ requests < MaxRequests /\ reports' = reports
      /\ UNCHANGED <<now, flag, thread, wakeAt, scanned>>
  BY DEF Activate, Deactivate, ResetMonitor, Remove, Request
<1>2. /\ reports \in Nat /\ reports' \in reports..MaxReports /\ requests' \in 0..MaxRequests
      /\ now \in Nat /\ now >= 1 /\ now <= MaxNow /\ now \in 0..MaxNow
  BY <1>1 DEF Inv, TypeOK, Delays
<1>3. Sound(r, last[m], now, reports) /\ r \in Record /\ last[m] \in [Domain -> Status]
  BY DEF Inv, Sound
<1>4. mon \in [Monitor -> Record] /\ last \in [Monitor -> [Domain -> Status]]
  BY DEF Inv, TypeOK, Record
<1>5. ActiveDomain \subseteq Domain /\ MaxReports \in Nat /\ MaxNow \in Nat
  BY DEF Delays
<1>6. ASSUME NEW s \in {0, 1}, NEW activation \in {0, now}, NEW zero \in BOOLEAN,
             mon' = [mon EXCEPT ![m] =
                       [Apply(r, [d \in ActiveDomain |-> s]) EXCEPT
                          !.activation = activation,
                          !.transitions = IF zero THEN [d \in Domain |-> 0] ELSE @]],
             last' = [last EXCEPT ![m] = [d \in Domain |-> IF d \in ActiveDomain THEN s ELSE last[m][d]]]
      PROVE  Kept
  <2> DEFINE given == [d \in ActiveDomain |-> s]
             a == Apply(r, given)
             latest == [d \in Domain |-> IF d \in ActiveDomain THEN s ELSE last[m][d]]
             transitions == IF zero THEN [d \in Domain |-> 0] ELSE a.transitions
             r2 == [a EXCEPT !.activation = activation, !.transitions = transitions]
  <2>3. mon' = [mon EXCEPT ![m] = r2] /\ last' = [last EXCEPT ![m] = latest]
    BY <1>6
  <2> HIDE DEF given, latest, r
  <2>4. /\ Sound(a, latest, now, reports)
        /\ \A d \in Domain : a.received[d] = IF d \in ActiveDomain THEN 0 ELSE r.received[d]
    <3>1. reports \in 0..MaxReports /\ now \in Nat
      BY <1>1, <1>2
    <3>2. /\ Sound(Apply(r, [d \in ActiveDomain |-> s]),
                   [d \in Domain |-> IF d \in ActiveDomain THEN s ELSE last[m][d]], now, reports)
          /\ \A d \in Domain :
               Apply(r, [e \in ActiveDomain |-> s]).received[d] = IF d \in ActiveDomain THEN 0 ELSE r.received[d]
      BY <1>3, <3>1, ActiveSound
    <3> QED
      BY <3>2 DEF given, latest
  <2> HIDE DEF a
  <2>5. a \in Record
    BY <2>4 DEF Sound
  <2>6. transitions \in [Domain -> 0..MaxReports] /\ \A d \in Domain : transitions[d] \in {0, a.transitions[d]}
    <3>1. a.transitions \in [Domain -> 0..MaxReports]
      BY <2>5 DEF Record
    <3>2. CASE zero
      <4>1. transitions = [d \in Domain |-> 0]
        BY <3>2
      <4>2. 0 \in 0..MaxReports
        BY <1>5
      <4> HIDE DEF transitions
      <4> QED
        BY <4>1, <4>2
    <3>3. CASE ~zero
      <4>1. transitions = a.transitions
        BY <3>3
      <4> QED
        BY <3>1, <4>1
    <3> QED
      BY <3>2, <3>3
  <2> HIDE DEF transitions
  <2>7. r2 = [status |-> a.status, overall |-> a.overall, pending |-> a.pending,
              received |-> a.received, transitions |-> transitions, activation |-> activation]
    <3> DEFINE b == [a EXCEPT !.activation = activation]
    <3>1. b = [status |-> a.status, overall |-> a.overall, pending |-> a.pending,
               received |-> a.received, transitions |-> a.transitions, activation |-> activation]
      BY <2>5 DEF Record
    <3>2. r2 = [b EXCEPT !.transitions = transitions]
      OBVIOUS
    <3> HIDE DEF b, r2
    <3> QED
      BY <3>1, <3>2
  <2> HIDE DEF r2
  <2>8. /\ r2 \in Record
        /\ r2.status = a.status /\ r2.overall = a.overall /\ r2.pending = a.pending
        /\ r2.received = a.received /\ r2.transitions = transitions /\ r2.activation = activation
    BY <1>2, <2>5, <2>6, <2>7 DEF Record, Delays
  <2>9. ASSUME NEW d \in Domain
        PROVE  /\ r2.received[d] <= now
               /\ d \in ActiveDomain /\ r2.received[d] > 0 => r2.activation <= r2.received[d]
               /\ r2.transitions[d] + (IF r2.received[d] > 0 THEN 1 ELSE 0) <= reports
               /\ latest[d] = IF r2.received[d] > 0 THEN r2.pending[d] ELSE r2.status[d]
    <3>1. /\ a.received[d] <= now
          /\ a.transitions[d] + (IF a.received[d] > 0 THEN 1 ELSE 0) <= reports
          /\ latest[d] = IF a.received[d] > 0 THEN a.pending[d] ELSE a.status[d]
      BY <2>4 DEF Sound
    <3>2. a.received[d] \in Nat /\ a.transitions[d] \in Nat
      BY <1>5, <2>5 DEF Record
    <3>3. d \in ActiveDomain => a.received[d] = 0
      BY <2>4
    <3>4. transitions[d] = 0 \/ transitions[d] = a.transitions[d]
      BY <2>6
    <3>5. transitions[d] + (IF a.received[d] > 0 THEN 1 ELSE 0) <= reports
      BY <1>2, <3>1, <3>2, <3>4
    <3> QED
      BY <2>8, <3>1, <3>2, <3>3, <3>5
  <2>10. r2.activation <= now
    BY <1>2, <2>8
  <2>11. Sound(r2, latest, now, reports')
    BY <1>1, <2>4, <2>8, <2>9, <2>10 DEF Sound
  <2>12. \A d \in Domain : r2.received[d] \in {0, mon[m].received[d]}
    BY <2>4, <2>8 DEF r
  <2> QED
    BY <1>1, <1>2, <2>3, <2>11, <2>12, OneKept
<1>7. CASE Activate(m, autoReset)
  BY <1>3, <1>4, <1>6, <1>7 DEF Activate
<1>8. CASE Deactivate(m)
  <2> DEFINE a == Apply(r, [d \in ActiveDomain |-> 0])
  <2>1. a \in Record
    <3>1. reports \in 0..MaxReports /\ now \in Nat /\ 0 \in {0, 1}
      BY <1>1, <1>2
    <3> HIDE DEF r
    <3>2. Sound(Apply(r, [d \in ActiveDomain |-> 0]),
                [d \in Domain |-> IF d \in ActiveDomain THEN 0 ELSE last[m][d]], now, reports)
      BY <1>3, <3>1, ActiveSound
    <3> QED
      BY <3>2 DEF Sound
  <2>2. mon' = [mon EXCEPT ![m] = [a EXCEPT !.activation = 0]]
        /\ last' = [last EXCEPT ![m] = [d \in Domain |-> IF d \in ActiveDomain THEN 0 ELSE last[m][d]]]
    BY <1>4, <1>8 DEF Deactivate
  <2> HIDE DEF a
  <2>3. [a EXCEPT !.activation = 0]
            = [a EXCEPT !.activation = 0, !.transitions = IF FALSE THEN [d \in Domain |-> 0] ELSE @]
    BY <2>1 DEF Record
  <2> QED
    BY <1>6, <2>2, <2>3 DEF a
<1>9. CASE ResetMonitor(m)
  <2> DEFINE zero == [d \in Domain |-> 0]
             r2 == [r EXCEPT !.transitions = zero]
  <2>1. mon' = [mon EXCEPT ![m] = r2] /\ last' = last
    BY <1>9 DEF ResetMonitor
  <2>2. last' = [last EXCEPT ![m] = last[m]]
    BY <1>4, <2>1
  <2>3. zero \in [Domain -> 0..MaxReports] /\ \A d \in Domain : zero[d] = 0
    BY <1>5
  <2> HIDE DEF zero, r
  <2>4. r2 = [status |-> r.status, overall |-> r.overall, pending |-> r.pending,
              received |-> r.received, transitions |-> zero, activation |-> r.activation]
    BY <1>3 DEF Record
  <2> HIDE DEF r2
  <2>5. /\ r2 \in Record
        /\ r2.status = r.status /\ r2.overall = r.overall /\ r2.pending = r.pending
        /\ r2.received = r.received /\ r2.transitions = zero /\ r2.activation = r.activation
    BY <1>3, <2>3, <2>4 DEF Record
  <2>6. \A d \in Domain : r2.transitions[d] + (IF r2.received[d] > 0 THEN 1 ELSE 0) <= reports
    <3>1. ASSUME NEW d \in Domain
          PROVE  r2.transitions[d] + (IF r2.received[d] > 0 THEN 1 ELSE 0) <= reports
      <4>1. r.transitions[d] + (IF r.received[d] > 0 THEN 1 ELSE 0) <= reports /\ r.transitions[d] \in Nat
        BY <1>3, <1>5 DEF Sound, Record
      <4>2. r2.transitions[d] = 0 /\ r2.received[d] = r.received[d]
        BY <2>3, <2>5
      <4> QED
        BY <1>2, <4>1, <4>2
    <3> QED
      BY <3>1
  <2>7. Sound(r2, last[m], now, reports')
    BY <1>1, <1>3, <2>5, <2>6 DEF Sound
  <2>8. \A d \in Domain : r2.received[d] \in {0, mon[m].received[d]}
    BY <2>5 DEF r
  <2> QED
    BY <1>1, <1>2, <2>1, <2>2, <2>7, <2>8, OneKept
<1>10. CASE Remove(m)
  <2>1. mon' = [mon EXCEPT ![m] = FirstMonitor] /\ last' = [last EXCEPT ![m] = FirstStatus]
    BY <1>10 DEF Remove
  <2>2. Sound(FirstMonitor, FirstStatus, now, reports')
    BY <1>1, <1>2, FirstFacts
  <2>3. \A d \in Domain : FirstMonitor.received[d] \in {0, mon[m].received[d]}
    BY DEF FirstMonitor
  <2> QED
    BY <1>1, <1>2, <2>1, <2>2, <2>3, OneKept
<1> QED
  BY <1>7, <1>8, <1>9, <1>10

-----------------------------------------------------------------------------
(* StatusMonitor: every step preserves the invariant *)

LEMMA TypeFacts ==
    ASSUME Delays, Inv
    PROVE  /\ now \in Nat /\ now >= 1 /\ now <= MaxNow /\ wakeAt \in Nat
           /\ reports \in Nat /\ reports <= MaxReports /\ requests \in 0..MaxRequests
           /\ present \subseteq Monitor /\ scanned \subseteq Monitor
           /\ flag \in BOOLEAN /\ thread \in {"waiting", "sleeping", "terminated"}
           /\ mon \in [Monitor -> Record] /\ last \in [Monitor -> [Domain -> Status]]
           /\ \A m \in Monitor : \A d \in Domain :
                mon[m].received[d] \in Nat /\ mon[m].received[d] <= now
<1>1. /\ now \in 1..MaxNow /\ reports \in 0..MaxReports /\ requests \in 0..MaxRequests
      /\ wakeAt \in 0..(MaxNow + Max({Delay[m] : m \in Monitor}))
      /\ present \subseteq Monitor /\ scanned \subseteq Monitor
      /\ flag \in BOOLEAN /\ thread \in {"waiting", "sleeping", "terminated"}
      /\ mon \in [Monitor -> Record] /\ last \in [Monitor -> [Domain -> Status]]
  BY DEF Inv, TypeOK, Record
<1>2. now \in Nat /\ now >= 1 /\ now <= MaxNow /\ reports \in Nat /\ reports <= MaxReports
  BY <1>1 DEF Delays
<1>3. wakeAt \in Nat
  BY <1>1, LongestFacts DEF Delays
<1>4. ASSUME NEW m \in Monitor, NEW d \in Domain
      PROVE  mon[m].received[d] \in Nat /\ mon[m].received[d] <= now
  <2>1. mon[m].received \in [Domain -> 0..MaxNow]
    BY <1>1 DEF Record
  <2>2. mon[m].received[d] <= now
    BY DEF Inv, Sound
  <2> QED
    BY <2>1, <2>2
<1> QED
  BY <1>1, <1>2, <1>3, <1>4

LEMMA InvInit == ASSUME Delays, Init PROVE Inv
<1>1. now = 1 /\ wakeAt = 0 /\ reports = 0 /\ requests = 0 /\ thread = "waiting" /\ flag = FALSE
      /\ scanned = {} /\ present = Monitor
  BY DEF Init
<1>2. Sound(FirstMonitor, FirstStatus, now, reports)
  BY <1>1, FirstFacts
<1>3. FirstMonitor \in Record /\ FirstStatus \in [Domain -> Status]
  BY <1>2 DEF Sound
<1>4. mon \in [Monitor -> Record] /\ last \in [Monitor -> [Domain -> Status]]
  BY <1>3 DEF Init
<1>5. \A m \in Monitor : Sound(mon[m], last[m], now, reports)
  BY <1>2 DEF Init
<1>6. now \in 1..MaxNow /\ reports \in 0..MaxReports /\ requests \in 0..MaxRequests
  BY <1>1 DEF Delays
<1>7. wakeAt \in 0..(MaxNow + Max({Delay[m] : m \in Monitor}))
  <2>1. MaxNow \in Nat
    BY DEF Delays
  <2> QED
    BY <1>1, <2>1, LongestFacts
<1>8. TypeOK
  BY <1>1, <1>4, <1>6, <1>7 DEF TypeOK, Record
<1>9. Absent /\ Watched
  BY <1>1 DEF Absent, Watched
<1> QED
  BY <1>5, <1>8, <1>9 DEF Inv

\* A call leaves the thread alone: what it makes pending was received now, and it tells the
\* thread.
LEMMA KeptInv ==
    ASSUME Delays, Inv, Kept,
           \/ present' = present
           \/ \E m \in Monitor : /\ present' = present \ {m}
                                 /\ mon'[m] = FirstMonitor /\ last'[m] = FirstStatus
    PROVE  Inv'
<1>1. /\ now \in Nat /\ flag \in BOOLEAN /\ present \subseteq Monitor /\ scanned \subseteq Monitor
      /\ \A m \in Monitor : \A d \in Domain : mon[m].received[d] \in Nat
  BY TypeFacts
<1>2. /\ mon' \in [Monitor -> Record] /\ last' \in [Monitor -> [Domain -> Status]]
      /\ reports' \in 0..MaxReports /\ requests' \in 0..MaxRequests
      /\ UNCHANGED <<now, thread, wakeAt, scanned>> /\ flag' \in {flag, TRUE}
  BY DEF Kept
<1>3. TypeOK'
  <2>1. /\ now' \in 1..MaxNow /\ wakeAt' \in 0..(MaxNow + Max({Delay[m] : m \in Monitor}))
        /\ scanned' \subseteq Monitor /\ thread' \in {"waiting", "sleeping", "terminated"}
    BY <1>2 DEF Inv, TypeOK
  <2>2. present' \subseteq Monitor /\ flag' \in BOOLEAN
    BY <1>1, <1>2
  <2> QED
    BY <1>2, <2>1, <2>2 DEF TypeOK, Record
<1>4. Absent'
  <2>1. \A m \in Monitor \ present :
            mon[m] = FirstMonitor /\ last[m] = FirstStatus /\ mon'[m] = mon[m] /\ last'[m] = last[m]
    BY DEF Inv, Absent, Kept
  <2>2. \A m \in Monitor \ present' : mon'[m] = FirstMonitor /\ last'[m] = FirstStatus
    BY <2>1
  <2> QED
    BY <2>2 DEF Absent
<1>5. Watched'
  <2>1. thread' = "sleeping" => flag' /\ \E k \in Monitor : wakeAt' <= now' + Delay[k]
    <3>1. thread = "sleeping" => flag /\ \E k \in Monitor : wakeAt <= now + Delay[k]
      BY DEF Inv, Watched
    <3>2. now' = now /\ thread' = thread /\ wakeAt' = wakeAt /\ (flag = TRUE => flag' = TRUE)
      BY <1>2
    <3> QED
      BY <1>1, <3>1, <3>2
  <2>2. ASSUME thread' # "terminated", NEW m \in scanned', NEW d \in Domain, mon'[m].received[d] > 0
        PROVE  /\ flag'
               /\ thread' = "sleeping" =>
                    wakeAt' <= now' \/ \E k \in Monitor : wakeAt' <= mon'[m].received[d] + Delay[k]
    <3>1. m \in Monitor /\ m \in scanned /\ thread # "terminated"
      BY <1>1, <1>2, <2>2
    <3>2. CASE mon'[m].received[d] = now /\ flag' = TRUE
      BY <1>2, <2>1, <3>2
    <3>3. CASE mon'[m].received[d] = mon[m].received[d]
      <4>1. /\ flag
            /\ thread = "sleeping" =>
                 wakeAt <= now \/ \E k \in Monitor : wakeAt <= mon[m].received[d] + Delay[k]
        BY <2>2, <3>1, <3>3 DEF Inv, Watched
      <4> QED
        BY <1>2, <3>3, <4>1
    <3>4. CASE mon'[m].received[d] = 0
      BY <2>2, <3>4
    <3> QED
      BY <3>1, <3>2, <3>3, <3>4 DEF Kept
  <2> QED
    BY <2>1, <2>2 DEF Watched
<1>6. \A m \in Monitor : Sound(mon'[m], last'[m], now', reports')
  BY <1>2 DEF Kept
<1> QED
  BY <1>3, <1>4, <1>5, <1>6 DEF Inv

\* The thread looks at the monitors, which may have changed, and goes to sleep or waits.
LEMMA PassInv ==
    ASSUME Delays, Inv, flag = TRUE, scanned' \subseteq present, SleepFor(mon', scanned'),
           mon' \in [Monitor -> Record],
           \A m \in Monitor : Sound(mon'[m], last[m], now, reports),
           \A m \in Monitor \ present : mon'[m] = mon[m],
           UNCHANGED <<now, present, last, reports, requests>>
    PROVE  Inv'
<1> DEFINE properties == mon'
           monitors == scanned'
<1>1. /\ now \in Nat /\ present \subseteq Monitor /\ now \in 1..MaxNow /\ now <= MaxNow
  BY TypeFacts DEF Inv, TypeOK
<1>2. monitors \in SUBSET Monitor
  BY <1>1
<1>3. \A m \in monitors : properties[m] \in Record /\ \A d \in Domain : properties[m].received[d] <= now
  BY <1>2 DEF Sound
<1>4. SleepFor(properties, monitors)
  OBVIOUS
<1> HIDE DEF properties, monitors
<1>5. Waits(properties, monitors) \/ Sleeps(properties, monitors)
  BY <1>1, <1>2, <1>3, <1>4, SleepFacts
<1>6. wakeAt' \in 0..(MaxNow + Max({Delay[m] : m \in Monitor}))
  <2> DEFINE time == wakeAt'
  <2>1. time \in Nat /\ (time = 0 \/ \E k \in Monitor : time <= now + Delay[k])
    <3>1. CASE Waits(properties, monitors)
      BY <3>1 DEF Waits
    <3>2. CASE Sleeps(properties, monitors)
      BY <3>2 DEF Sleeps
    <3> QED
      BY <1>5, <3>1, <3>2
  <2> HIDE DEF time
  <2>2. time \in 0..(MaxNow + Max({Delay[m] : m \in Monitor}))
    BY <1>1, <2>1, WakesInTime
  <2> QED
    BY <2>2 DEF time
<1>7. TypeOK'
  <2>1. /\ now' \in 1..MaxNow /\ present' \subseteq Monitor /\ last' \in [Monitor -> [Domain -> Status]]
        /\ reports' \in 0..MaxReports /\ requests' \in 0..MaxRequests
    BY DEF Inv, TypeOK
  <2>2. scanned' \subseteq Monitor /\ flag' \in BOOLEAN /\ thread' \in {"waiting", "sleeping", "terminated"}
    BY <1>2, <1>5 DEF monitors, Waits, Sleeps
  <2> QED
    BY <1>6, <2>1, <2>2 DEF TypeOK, Record
<1>8. Absent'
  BY DEF Inv, Absent
<1>9. Watched'
  <2>1. CASE Waits(properties, monitors)
    BY <2>1 DEF Waits, Watched, properties, monitors
  <2>2. CASE Sleeps(properties, monitors)
    <3>1. flag' /\ \E k \in Monitor : wakeAt' <= now' + Delay[k]
      BY <2>2 DEF Sleeps
    <3>2. \A m \in scanned', d \in Domain : mon'[m].received[d] > 0 =>
              wakeAt' <= now' \/ \E k \in Monitor : wakeAt' <= mon'[m].received[d] + Delay[k]
      BY <1>2, <2>2 DEF properties, monitors, Sleeps
    <3> QED
      BY <2>2, <3>1, <3>2 DEF Watched, Sleeps
  <2> QED
    BY <1>5, <2>1, <2>2
<1>10. \A m \in Monitor : Sound(mon'[m], last'[m], now', reports')
  OBVIOUS
<1> QED
  BY <1>7, <1>8, <1>9, <1>10 DEF Inv

\* What is due is reported: it is the latest status given.
LEMMA DueSound ==
    ASSUME Delays, Inv, NEW m \in Monitor
    PROVE  /\ Sound(Apply(mon[m], DueStatuses(m)), last[m], now, reports)
           /\ \A d \in Domain : \/ Apply(mon[m], DueStatuses(m)).status[d] = mon[m].status[d]
                                \/ mon[m].received[d] > 0 /\ now >= mon[m].received[d] + Delay[m]
<1> DEFINE r == mon[m]
           due == {d \in Domain : r.received[d] > 0 /\ now >= r.received[d] + Delay[m]}
           given == DueStatuses(m)
<1>1. Sound(r, last[m], now, reports) /\ r \in Record /\ last[m] \in [Domain -> Status]
  BY DEF Inv, Sound
<1>2. reports \in Nat /\ now \in Nat /\ reports \in reports..MaxReports
  BY TypeFacts DEF Delays
<1>3. r.pending \in [Domain -> Status]
  BY <1>1 DEF Record
<1>4. given = [d \in due |-> r.pending[d]]
  BY DEF DueStatuses
<1>5. due \subseteq Domain /\ \A d \in due : r.received[d] > 0 /\ now >= r.received[d] + Delay[m]
  OBVIOUS
<1> HIDE DEF r, due, given
<1>6. DOMAIN given = due /\ given \in [due -> Status] /\ \A d \in due : given[d] = r.pending[d]
  BY <1>3, <1>4, <1>5
<1>7. \A d \in due : last[m][d] = r.pending[d]
  BY <1>1, <1>5 DEF Sound
<1>8. last[m] = [d \in Domain |-> IF d \in DOMAIN given THEN given[d] ELSE last[m][d]]
  BY <1>1, <1>6, <1>7
<1>9. Given(r, last[m], now, reports, reports, given, last[m])
  BY <1>1, <1>2, <1>5, <1>6, <1>8 DEF Given
<1>10. /\ Sound(Apply(r, given), last[m], now, reports)
       /\ \A d \in Domain \ DOMAIN given : Apply(r, given).status[d] = r.status[d]
  BY <1>9, ApplySound
<1>11. \A d \in Domain : \/ Apply(r, given).status[d] = r.status[d]
                         \/ r.received[d] > 0 /\ now >= r.received[d] + Delay[m]
  BY <1>5, <1>6, <1>10
<1> QED
  BY <1>10, <1>11 DEF r, given

LEMMA WaitOverInv ==
    ASSUME Delays, Inv, WaitOver
    PROVE  Inv'
<1>1. scanned' \subseteq present /\ flag = TRUE /\ UNCHANGED <<now, present, last, reports, requests, scanned>>
  BY DEF WaitOver, Inv, Watched, TypeOK
<1>2. mon' = [m \in Monitor |-> IF m \in scanned THEN Apply(mon[m], DueStatuses(m)) ELSE mon[m]]
  BY DEF WaitOver
<1>3. \A m \in Monitor : Sound(mon'[m], last[m], now, reports)
  <2>1. ASSUME NEW m \in Monitor
        PROVE  Sound(mon'[m], last[m], now, reports)
    <3>1. CASE m \in scanned
      BY <1>2, <3>1, DueSound
    <3>2. CASE m \notin scanned
      BY <1>2, <3>2 DEF Inv
    <3> QED
      BY <3>1, <3>2
  <2> QED
    BY <2>1
<1>4. mon' \in [Monitor -> Record]
  BY <1>2, <1>3 DEF Sound
<1>5. \A m \in Monitor \ present : mon'[m] = mon[m]
  BY <1>1, <1>2
<1>6. SleepFor(mon', scanned')
  BY <1>1 DEF WaitOver
<1> QED
  BY <1>1, <1>3, <1>4, <1>5, <1>6, PassInv

LEMMA WakeInv ==
    ASSUME Delays, Inv, Wake
    PROVE  Inv'
<1>1. flag = TRUE /\ UNCHANGED <<now, present, mon, last, reports, requests>> /\ scanned' = present
  BY DEF Wake, Inv, TypeOK
<1>2. SleepFor(mon', scanned')
  BY <1>1 DEF Wake
<1>3. mon' \in [Monitor -> Record] /\ \A m \in Monitor : Sound(mon'[m], last[m], now, reports)
  BY <1>1, TypeFacts DEF Inv
<1>4. scanned' \subseteq present /\ \A m \in Monitor \ present : mon'[m] = mon[m]
  BY <1>1
<1> QED
  BY <1>1, <1>2, <1>3, <1>4, PassInv

LEMMA TickInv ==
    ASSUME Delays, Inv, Tick
    PROVE  Inv'
<1>1. /\ now < MaxNow /\ now' = now + 1
      /\ UNCHANGED <<present, mon, flag, thread, wakeAt, scanned, last, reports, requests>>
  BY DEF Tick
<1>2. now \in Nat /\ now >= 1 /\ wakeAt \in Nat /\ MaxNow \in Nat
  BY TypeFacts DEF Delays
<1>3. now' \in 1..MaxNow
  BY <1>1, <1>2
<1>4. TypeOK'
  BY <1>1, <1>3 DEF Inv, TypeOK
<1>5. Absent'
  BY <1>1 DEF Inv, Absent
<1>6. Watched'
  <2>1. \A k \in Monitor : Delay[k] \in Nat
    BY LongestFacts
  <2>2. thread = "sleeping" => flag /\ \E k \in Monitor : wakeAt <= now' + Delay[k]
    BY <1>1, <1>2, <2>1 DEF Inv, Watched
  <2>3. wakeAt <= now => wakeAt <= now'
    BY <1>1, <1>2
  <2>4. thread # "terminated" =>
          \A m \in scanned, d \in Domain : mon[m].received[d] > 0 =>
              /\ flag
              /\ thread = "sleeping" =>
                   wakeAt <= now' \/ \E k \in Monitor : wakeAt <= mon[m].received[d] + Delay[k]
    BY <2>3 DEF Inv, Watched
  <2> QED
    BY <1>1, <2>2, <2>4 DEF Watched
<1>7. ASSUME NEW m \in Monitor
      PROVE  Sound(mon'[m], last'[m], now', reports')
  <2>1. Sound(mon[m], last[m], now, reports) /\ mon[m] \in Record
    BY DEF Inv, Sound
  <2>2. mon[m].activation \in Nat /\ \A d \in Domain : mon[m].received[d] \in Nat
    BY <1>2, <2>1 DEF Record
  <2>3. mon[m].activation <= now' /\ \A d \in Domain : mon[m].received[d] <= now'
    <3>1. mon[m].activation <= now /\ \A d \in Domain : mon[m].received[d] <= now
      BY <2>1 DEF Sound
    <3> QED
      BY <1>1, <1>2, <2>2, <3>1
  <2>4. Sound(mon[m], last[m], now', reports)
    BY <2>1, <2>3 DEF Sound
  <2> QED
    BY <1>1, <2>4
<1> QED
  BY <1>4, <1>5, <1>6, <1>7 DEF Inv

LEMMA InvStep ==
    ASSUME Delays, Inv, [Next]_statusMonitorVars
    PROVE  Inv'
<1>1. ASSUME NEW m \in Monitor, NEW d \in Domain, NEW s \in Status,
             SameStatus(m, d, s) \/ StatusNow(m, d, s) \/ StatusLater(m, d, s)
      PROVE  Inv'
  BY <1>1, ReportKept, KeptInv
<1>2. ASSUME NEW m \in Monitor, NEW autoReset \in BOOLEAN,
             Activate(m, autoReset) \/ Deactivate(m) \/ ResetMonitor(m) \/ Remove(m)
      PROVE  Inv'
  <2>1. Kept
    BY <1>2, RequestKept
  <2>2. CASE Activate(m, autoReset) \/ Deactivate(m) \/ ResetMonitor(m)
    <3>1. present' = present
      BY <2>2 DEF Activate, Deactivate, ResetMonitor
    <3> QED
      BY <2>1, <3>1, KeptInv
  <2>3. CASE Remove(m)
    <3>1. present' = present \ {m} /\ mon'[m] = FirstMonitor /\ last'[m] = FirstStatus
      BY <2>3, TypeFacts DEF Remove
    <3> QED
      BY <2>1, <3>1, KeptInv
  <2> QED
    BY <1>2, <2>2, <2>3
<1>3. ASSUME NEW m \in Monitor, Add(m)
      PROVE  Inv'
  <2>1. /\ requests < MaxRequests /\ requests' = requests + 1 /\ present' = present \cup {m}
        /\ UNCHANGED <<now, mon, flag, thread, wakeAt, scanned, last, reports>>
    BY <1>3 DEF Add
  <2>2. requests' \in 0..MaxRequests
    BY <2>1, TypeFacts DEF Delays
  <2>3. TypeOK'
    BY <2>1, <2>2 DEF Inv, TypeOK
  <2>4. Absent'
    BY <2>1 DEF Inv, Absent
  <2>5. Watched'
    BY <2>1 DEF Inv, Watched
  <2>6. \A k \in Monitor : Sound(mon'[k], last'[k], now', reports')
    BY <2>1 DEF Inv
  <2> QED
    BY <2>3, <2>4, <2>5, <2>6 DEF Inv
<1>4. CASE MonitorGone
  <2>1. thread' = "terminated" /\ UNCHANGED <<now, present, mon, flag, wakeAt, scanned, last, reports, requests>>
    BY <1>4 DEF MonitorGone, Terminate
  <2>2. TypeOK'
    BY <2>1 DEF Inv, TypeOK
  <2>3. Absent' /\ Watched'
    BY <2>1 DEF Inv, Absent, Watched
  <2>4. \A k \in Monitor : Sound(mon'[k], last'[k], now', reports')
    BY <2>1 DEF Inv
  <2> QED
    BY <2>2, <2>3, <2>4 DEF Inv
<1>5. CASE UNCHANGED statusMonitorVars
  <2>1. UNCHANGED <<now, present, mon, flag, thread, wakeAt, scanned, last, reports, requests>>
    BY <1>5 DEF statusMonitorVars
  <2>2. TypeOK'
    BY <2>1 DEF Inv, TypeOK
  <2>3. Absent' /\ Watched'
    BY <2>1 DEF Inv, Absent, Watched
  <2>4. \A k \in Monitor : Sound(mon'[k], last'[k], now', reports')
    BY <2>1 DEF Inv
  <2> QED
    BY <2>2, <2>3, <2>4 DEF Inv
<1> QED
  BY <1>1, <1>2, <1>3, <1>4, <1>5, WakeInv, WaitOverInv, TickInv DEF Next

-----------------------------------------------------------------------------
(* StatusMonitor: the properties *)

LEMMA InvLosesNothing == ASSUME Delays, Inv PROVE NothingLost
<1> SUFFICES ASSUME NEW m \in present, NEW d \in Domain
             PROVE  /\ last[m][d] = IF mon[m].received[d] > 0 THEN mon[m].pending[d] ELSE mon[m].status[d]
                    /\ mon[m].received[d] > 0 /\ thread # "terminated" /\ m \in scanned =>
                         /\ flag
                         /\ thread = "sleeping" =>
                              wakeAt <= Max({now} \cup {mon[m].received[d] + Delay[k] : k \in Monitor})
  BY DEF NothingLost
<1>1. m \in Monitor
  BY TypeFacts
<1>2. last[m][d] = IF mon[m].received[d] > 0 THEN mon[m].pending[d] ELSE mon[m].status[d]
  BY <1>1 DEF Inv, Sound
<1>3. ASSUME mon[m].received[d] > 0, thread # "terminated", m \in scanned
      PROVE  /\ flag
             /\ thread = "sleeping" =>
                  wakeAt <= Max({now} \cup {mon[m].received[d] + Delay[k] : k \in Monitor})
  <2> DEFINE received == mon[m].received[d]
             S == {now} \cup {received + Delay[k] : k \in Monitor}
  <2>1. /\ flag
        /\ thread = "sleeping" => wakeAt <= now \/ \E k \in Monitor : wakeAt <= received + Delay[k]
    BY <1>3 DEF Inv, Watched
  <2>2. now \in Nat /\ received \in Nat /\ wakeAt \in Nat
    BY <1>1, TypeFacts
  <2> HIDE DEF received
  <2>3. PICK most \in Nat : \A k \in Monitor : Delay[k] \in 0..most
    BY DEF Delays
  <2> DEFINE bound == now + received + most
  <2>4. bound \in Nat /\ \A k \in Monitor : received + Delay[k] \in 0..bound
    BY <2>2, <2>3
  <2>5. now \in 0..bound
    BY <2>2, <2>3
  <2> HIDE DEF bound
  <2>6. S \in SUBSET (0..bound) /\ S # {} /\ now \in S /\ \A k \in Monitor : received + Delay[k] \in S
    BY <2>4, <2>5
  <2> HIDE DEF S
  <2>7. Max(S) \in S /\ \A x \in S : x <= Max(S)
    BY <2>4, <2>6, MaxFacts
  <2>8. Max(S) \in Nat
    <3>1. \A x \in S : x \in Nat
      BY <2>4, <2>6
    <3> QED
      BY <2>7, <3>1
  <2>9. ASSUME thread = "sleeping"
        PROVE  wakeAt <= Max(S)
    <3>1. CASE wakeAt <= now
      <4>1. now <= Max(S)
        BY <2>6, <2>7
      <4> QED
        BY <2>2, <2>8, <3>1, <4>1
    <3>2. ASSUME NEW k \in Monitor, wakeAt <= received + Delay[k]
          PROVE  wakeAt <= Max(S)
      <4>1. received + Delay[k] \in Nat /\ received + Delay[k] <= Max(S)
        BY <2>4, <2>6, <2>7
      <4> QED
        BY <2>2, <2>8, <3>2, <4>1
    <3> QED
      BY <2>1, <2>9, <3>1, <3>2
  <2> QED
    BY <2>1, <2>9 DEF S, received
<1> QED
  BY <1>2, <1>3

\* In the statement of HealthyWhileActivating, the next status of an active domain is that
\* it had, is not unhealthy, or comes when the delay is over.
LEMMA StepDelays ==
    ASSUME Delays, Inv, [Next]_statusMonitorVars
    PROVE  HealthyWhileActivating
<1> SUFFICES ASSUME NEW d \in ActiveDomain, NEW m \in Monitor
             PROVE  \/ mon'[m].status[d] \in {mon[m].status[d], 0, 1}
                    \/ mon'[m].status[d] <= mon[m].status[d]
                    \/ now >= mon[m].activation + Delay[m]
  <2>1. /\ now \in Nat
        /\ \A k \in Monitor : mon[k].activation \in Nat /\ Delay[k] \in Nat
                              /\ \A e \in ActiveDomain : mon[k].status[e] \in Nat
    <3>1. \A k \in Monitor : mon[k] \in Record
      BY TypeFacts
    <3>2. \A k \in Monitor : mon[k].activation \in Nat /\ \A e \in Domain : mon[k].status[e] \in Nat
      BY <3>1 DEF Record, Status, Delays
    <3> QED
      BY <3>2, TypeFacts, LongestFacts DEF Delays
  <2>2. \A k \in Monitor : \A e \in ActiveDomain : mon'[k].status[e] \in Nat
    <3>1. \A k \in Monitor : mon'[k] \in Record
      <4>1. Inv'
        BY InvStep
      <4> QED
        BY <4>1 DEF Inv, Sound
    <3> QED
      BY <3>1 DEF Record, Status, Delays
  <2>3. \A e \in ActiveDomain, k \in Monitor :
            \/ mon'[k].status[e] \in {mon[k].status[e], 0, 1}
            \/ mon'[k].status[e] <= mon[k].status[e]
            \/ now >= mon[k].activation + Delay[k]
    OBVIOUS
  <2> QED
    BY <2>1, <2>2, <2>3 DEF HealthyWhileActivating, Worsens
<1>1. d \in Domain /\ mon \in [Monitor -> Record]
  BY TypeFacts DEF Delays
<1>2. Sound(mon[m], last[m], now, reports)
  BY DEF Inv
<1>3. now \in Nat /\ mon[m].activation \in Nat /\ Delay[m] \in Nat /\ mon[m].received[d] \in Nat
  <2>1. mon[m] \in Record
    BY <1>1
  <2>2. mon[m].activation \in Nat
    BY <2>1 DEF Record, Delays
  <2> QED
    BY <1>1, <2>2, TypeFacts, LongestFacts
<1>4. ASSUME NEW k \in Monitor, NEW e \in Domain, NEW s \in Status, SameStatus(k, e, s) \/ StatusLater(k, e, s)
      PROVE  mon'[m].status[d] = mon[m].status[d]
  BY <1>1, <1>4 DEF SameStatus, StatusLater, Record
<1>5. ASSUME NEW k \in Monitor, NEW e \in Domain, NEW s \in Status, StatusNow(k, e, s)
      PROVE  \/ mon'[m].status[d] \in {mon[m].status[d], 0, 1}
             \/ mon'[m].status[d] <= mon[m].status[d]
             \/ now >= mon[m].activation + Delay[m]
  <2>1. mon' = [mon EXCEPT ![k] = Apply(mon[k], One(e, s))] /\ Immediate(k, e, s)
        /\ (e \in ActiveDomain => mon[k].overall # 0)
    BY <1>1, <1>5 DEF StatusNow, MayReport
  <2>2. CASE k # m
    BY <1>1, <2>1, <2>2
  <2>3. CASE k = m
    <3>1. mon'[m].status = [f \in Domain |-> IF f \in {e} THEN s ELSE mon[m].status[f]]
      BY <1>1, <2>1, <2>3 DEF Apply, One, Record
    <3>2. CASE e # d
      BY <1>1, <3>1, <3>2
    <3>3. CASE e = d
      <4>1. mon'[m].status[d] = s
        BY <1>1, <3>1, <3>3
      <4>2. mon[m].status[d] # 0
        BY <1>2, <2>1, <2>3, <3>3 DEF Sound
      <4>3. s = 0 \/ now > mon[m].activation + Delay[m]
        BY <2>1, <2>3, <3>3, <4>2 DEF Immediate
      <4> QED
        BY <1>3, <4>1, <4>3
    <3> QED
      BY <3>2, <3>3
  <2> QED
    BY <2>2, <2>3
<1>6. ASSUME NEW k \in Monitor, NEW autoReset \in BOOLEAN,
             Activate(k, autoReset) \/ Deactivate(k) \/ ResetMonitor(k) \/ Remove(k) \/ Add(k)
      PROVE  mon'[m].status[d] \in {mon[m].status[d], 0, 1}
  <2>1. CASE k # m
    BY <1>1, <1>6, <2>1 DEF Activate, Deactivate, ResetMonitor, Remove, Add
  <2>2. CASE k = m /\ (Activate(k, autoReset) \/ Deactivate(k))
    <3>1. PICK s \in {0, 1} : mon'[m].status = Apply(mon[m], [e \in ActiveDomain |-> s]).status
      <4>1. \A s \in {0, 1} : Apply(mon[m], [e \in ActiveDomain |-> s]) \in Record
        <5>1. reports \in 0..MaxReports /\ now \in Nat
          BY <1>3 DEF Inv, TypeOK
        <5> SUFFICES ASSUME NEW s \in {0, 1}
                     PROVE  Apply(mon[m], [e \in ActiveDomain |-> s]) \in Record
          OBVIOUS
        <5> DEFINE r == mon[m]
                   latest == last[m]
        <5>2. Sound(r, latest, now, reports)
          BY <1>2
        <5> HIDE DEF r, latest
        <5>3. Sound(Apply(r, [e \in ActiveDomain |-> s]),
                    [e \in Domain |-> IF e \in ActiveDomain THEN s ELSE latest[e]], now, reports)
          BY <5>1, <5>2, ActiveSound
        <5> QED
          BY <5>3 DEF Sound, r
      <4>2. CASE Activate(k, autoReset)
        <5> DEFINE a == Apply(mon[m], [e \in ActiveDomain |-> 1])
                   b == [a EXCEPT !.activation = now,
                                  !.transitions = IF autoReset THEN [e \in Domain |-> 0] ELSE @]
        <5>1. mon'[m] = b
          BY <1>1, <2>2, <4>2 DEF Activate
        <5>2. a \in Record
          BY <4>1
        <5> HIDE DEF a
        <5>3. b.status = a.status
          BY <5>2 DEF Record
        <5> QED
          BY <5>1, <5>3 DEF a
      <4>3. CASE Deactivate(k)
        <5> DEFINE a == Apply(mon[m], [e \in ActiveDomain |-> 0])
                   b == [a EXCEPT !.activation = 0]
        <5>1. mon'[m] = b
          BY <1>1, <2>2, <4>3 DEF Deactivate
        <5>2. a \in Record
          BY <4>1
        <5> HIDE DEF a
        <5>3. b.status = a.status
          BY <5>2 DEF Record
        <5> QED
          BY <5>1, <5>3 DEF a
      <4> QED
        BY <2>2, <4>2, <4>3
    <3>2. Apply(mon[m], [e \in ActiveDomain |-> s]).status[d] = s
      BY <1>1 DEF Apply, Record
    <3> QED
      BY <3>1, <3>2
  <2>3. CASE k = m /\ ResetMonitor(k)
    BY <1>1, <2>3 DEF ResetMonitor, Record
  <2>4. CASE k = m /\ Remove(k)
    BY <1>1, <2>4 DEF Remove, FirstMonitor, FirstStatus
  <2>5. CASE Add(k)
    BY <2>5 DEF Add
  <2> QED
    BY <1>6, <2>1, <2>2, <2>3, <2>4, <2>5
<1>7. ASSUME WaitOver
      PROVE  mon'[m].status[d] = mon[m].status[d] \/ now >= mon[m].activation + Delay[m]
  <2>1. mon'[m] = IF m \in scanned THEN Apply(mon[m], DueStatuses(m)) ELSE mon[m]
    BY <1>7 DEF WaitOver
  <2>2. CASE mon[m].received[d] > 0 /\ now >= mon[m].received[d] + Delay[m]
    <3>1. mon[m].activation <= mon[m].received[d]
      BY <1>1, <1>2, <2>2 DEF Sound
    <3> QED
      BY <1>3, <2>2, <3>1
  <2>3. CASE Apply(mon[m], DueStatuses(m)).status[d] = mon[m].status[d]
    BY <2>1, <2>3
  <2> QED
    BY <1>1, <2>2, <2>3, DueSound
<1>8. ASSUME Wake \/ MonitorGone \/ Tick \/ UNCHANGED statusMonitorVars
      PROVE  mon'[m].status[d] = mon[m].status[d]
  BY <1>8 DEF Wake, MonitorGone, Terminate, Tick, statusMonitorVars
<1> QED
  BY <1>4, <1>5, <1>6, <1>7, <1>8 DEF Next

LEMMA Invariance == ASSUME Delays PROVE Spec => []Inv
<1>1. Init => Inv
  BY InvInit
<1>2. Inv /\ [Next]_statusMonitorVars => Inv'
  BY InvStep
<1> QED
  BY <1>1, <1>2, PTL DEF Spec

\* The variables have their types: no monitor counts more transitions than statuses were
\* reported, and the thread wakes within the longest delay.
THEOREM TypeCorrect == ASSUME Delays PROVE Spec => []TypeOK
<1>1. Inv => TypeOK
  BY DEF Inv
<1> QED
  BY <1>1, Invariance, PTL

\* The latest status given to a domain is reported or will be in time, whatever calls and
\* removals come between the passes of the thread.
THEOREM NothingLostHolds == ASSUME Delays PROVE Spec => []NothingLost
<1>1. Inv => NothingLost
  BY InvLosesNothing
<1> QED
  BY <1>1, Invariance, PTL

\* No active domain turns unhealthy within statusReportingDelay of an activation: neither by
\* a report, nor by one that was pending from before it.
THEOREM DelaysHold == ASSUME Delays PROVE Spec => DelaysAfterActivation
<1>1. Inv /\ [Next]_statusMonitorVars => [HealthyWhileActivating]_statusMonitorVars
  BY StepDelays
<1> QED
  BY <1>1, Invariance, PTL DEF Spec, DelaysAfterActivation

-----------------------------------------------------------------------------
(* SystemBehaviour and OcspBehaviour: lists of services *)

CONSTANTS Service, Data, Valid, None, MaxServices

VARIABLES mode, at, services, client, known, failed, fetch, told, answer, blamed

System == INSTANCE SystemBehaviour

\* What "none" is called is no service.
SystemParameters ==
    /\ None \notin Service
    /\ Valid \subseteq Data /\ MaxServices \in Nat

\* A list of different services, up to a number of them
List(s, S, max) ==
    /\ \E n \in 1..max : s \in [1..n -> S]
    /\ \A i, j \in DOMAIN s : i # j => s[i] # s[j]

\* What is left of it when its first service is given up
Rest(s) ==
    /\ s # <<>> /\ Head(s) = s[1] /\ 1 \in DOMAIN s
    /\ \A i \in DOMAIN Tail(s) : i + 1 \in DOMAIN s /\ i + 1 # 1 /\ Tail(s)[i] = s[i + 1]
    /\ \A i \in DOMAIN Tail(s) : Tail(s)[i] # Head(s)
    /\ \A i \in DOMAIN s : i # 1 => i - 1 \in DOMAIN Tail(s) /\ Tail(s)[i - 1] = s[i]

LEMMA ListFacts ==
    ASSUME NEW S, NEW max \in Nat, NEW s, List(s, S, max)
    PROVE  /\ \A i \in DOMAIN s : s[i] \in S
           /\ Rest(s) /\ Head(s) \in S
           /\ List(Tail(s), S, max) \/ Tail(s) = <<>>
<1> PICK n \in 1..max : s \in [1..n -> S]
  BY DEF List
<1> DEFINE t == Tail(s)
<1>1. s \in Seq(S) /\ Len(s) = n /\ DOMAIN s = 1..n /\ n \in Nat /\ n > 0
  OBVIOUS
<1>2. s # <<>> /\ Head(s) = s[1] /\ Head(s) \in S /\ \A i \in DOMAIN s : s[i] \in S
  BY <1>1
<1>3. t \in Seq(S) /\ Len(t) = n - 1 /\ \A i \in 1..(n - 1) : t[i] = s[i + 1]
  BY <1>1, <1>2
<1>4. DOMAIN t = 1..(n - 1)
  BY <1>3
<1>5. \A i, j \in DOMAIN s : i # j => s[i] # s[j]
  BY DEF List
<1> HIDE DEF t
<1>6. \A i \in DOMAIN t : i + 1 \in DOMAIN s /\ i + 1 # 1 /\ t[i] = s[i + 1]
  BY <1>1, <1>3, <1>4
<1>7. \A i \in DOMAIN t : t[i] # Head(s)
  BY <1>1, <1>2, <1>5, <1>6
<1>8. \A i, j \in DOMAIN t : i # j => t[i] # t[j]
  BY <1>1, <1>4, <1>5, <1>6
<1>9. \A i \in DOMAIN s : i # 1 => i - 1 \in DOMAIN t /\ t[i - 1] = s[i]
  BY <1>1, <1>3, <1>4
<1>10. CASE n = 1
  <2>1. t = <<>>
    BY <1>3, <1>10
  <2> QED
    BY <1>1, <1>2, <1>6, <1>7, <1>9, <2>1 DEF Rest, t
<1>11. CASE n # 1
  <2>1. n - 1 \in 1..max /\ t \in [1..(n - 1) -> S]
    <3>1. t \in [1..Len(t) -> S]
      BY <1>3
    <3> QED
      BY <1>1, <1>3, <1>11, <3>1
  <2>2. List(t, S, max)
    BY <1>8, <2>1 DEF List
  <2> QED
    BY <1>1, <1>2, <1>6, <1>7, <1>9, <2>2 DEF Rest, t
<1> QED
  BY <1>10, <1>11

LEMMA SystemLists ==
    ASSUME SystemParameters, NEW s \in System!Lists
    PROVE  /\ \A i \in DOMAIN s : s[i] \in Service
           /\ Rest(s) /\ Head(s) \in Service
           /\ Tail(s) \in System!Lists \cup {<<>>}
<1>1. \A l : List(l, Service, MaxServices) <=> l \in System!Lists
  BY DEF List, System!Lists, System!Distinct
<1>2. MaxServices \in Nat
  BY DEF SystemParameters
<1> QED
  BY <1>1, <1>2, ListFacts

\* The services of the list that are still to be tried have not failed, and are not the
\* one that is known.
Ahead(list) == \A i \in DOMAIN list : list[i] \notin blamed /\ list[i] # known.uri

\* What is true of the list, the tasks and what they have found out, by where the thread is
SystemPlaces ==
    /\ at = "out" =>
        /\ fetch = "none" /\ told = System!Nothing
        /\ mode = "behaviour" => services # <<>>
        /\ mode \in {"background", "behaviour"} => blamed = {}
    /\ at = "waits" =>
        /\ mode = "behaviour"
        /\ services # <<>> /\ client = Head(services)
        /\ failed <=> fetch = "none"
        /\ Head(services) \in blamed => failed
        /\ Ahead(Tail(services))
    /\ at = "joins" =>
        /\ mode = "behaviour" /\ fetch = "none" /\ ~failed
        /\ Ahead(services)

\* What is known of the service in use is what the user was told.
SystemTold ==
    /\ fetch # "none" => at = "waits"
    /\ fetch # "none" /\ known.uri = client => known = told
    /\ fetch = "waits" => known.uri = client /\ told = answer

SystemInv == System!TypeOK /\ SystemPlaces /\ SystemTold

LEMMA SystemInit ==
    ASSUME SystemParameters, System!Init
    PROVE  SystemInv
BY DEF SystemParameters, System!Init, SystemInv, SystemPlaces, SystemTold, System!TypeOK, System!Nothing, System!Known

LEMMA SystemStep ==
    ASSUME SystemParameters, SystemInv, [System!Next]_System!systemVars
    PROVE  SystemInv'
<1> USE DEF SystemParameters
<1>1. System!TypeOK /\ SystemPlaces /\ SystemTold
  BY DEF SystemInv
<1>2. System!Nothing \in System!Known
  BY DEF System!Nothing, System!Known
<1>3. \A s \in System!Lists :
        /\ s # <<>> /\ Head(s) = s[1] /\ Head(s) \in Service /\ 1 \in DOMAIN s
        /\ \A i \in DOMAIN s : s[i] \in Service
        /\ Tail(s) \in System!Lists \cup {<<>>}
        /\ \A i \in DOMAIN Tail(s) : i + 1 \in DOMAIN s /\ i + 1 # 1 /\ Tail(s)[i] = s[i + 1]
        /\ \A i \in DOMAIN Tail(s) : Tail(s)[i] # Head(s)
  BY SystemLists DEF Rest
<1>4. \A s, uri : uri = s => System!FirstStep(uri, s) = "waits"
  BY DEF System!FirstStep
<1>5. \A s, uri : uri # s => System!FirstStep(uri, s) = "requests"
  BY DEF System!FirstStep
<1> HIDE DEF System!Lists
<1>6. CASE System!Discover
  BY <1>1, <1>3, <1>6 DEF System!Discover, SystemInv, System!TypeOK, SystemPlaces, SystemTold, Ahead
<1>7. CASE System!BackgroundDiscovery
  BY <1>1, <1>3, <1>7 DEF System!BackgroundDiscovery, SystemInv, System!TypeOK, SystemPlaces, SystemTold, Ahead
<1>8. CASE System!Start
  <2>1. services \in System!Lists /\ blamed = {} /\ Head(services) \in Service
    BY <1>1, <1>3, <1>8 DEF System!Start, System!TypeOK, SystemPlaces
  <2>2. fetch' = "requests" /\ client' = Head(services) /\ known' = System!Nothing
    BY <1>5, <1>8, <2>1 DEF System!Start
  <2>3. System!TypeOK'
    BY <1>1, <1>2, <1>8, <2>1, <2>2 DEF System!Start, System!TypeOK
  <2>4. Ahead(Tail(services))'
    BY <1>3, <1>8, <2>1, <2>2 DEF System!Start, Ahead, System!Nothing
  <2>5. SystemPlaces'
    BY <1>3, <1>8, <2>1, <2>2, <2>4 DEF System!Start, SystemPlaces
  <2>6. SystemTold'
    BY <1>8, <2>1, <2>2 DEF System!Start, SystemTold, System!Nothing
  <2> QED
    BY <2>3, <2>5, <2>6 DEF SystemInv
<1>9. CASE System!GiveUp
  <2>1. services \in System!Lists /\ fetch = "none"
    BY <1>1, <1>3, <1>9 DEF System!GiveUp, System!TypeOK, SystemPlaces
  <2> QED
    BY <1>1, <1>3, <1>9, <2>1 DEF System!GiveUp, SystemInv, System!TypeOK, SystemPlaces, SystemTold, Ahead
<1>10. CASE System!SelectNext
  <2>1. services \in System!Lists /\ Ahead(services)
    BY <1>1, <1>10 DEF System!SelectNext, System!TypeOK, SystemPlaces
  <2>2. Head(services) # known.uri /\ Head(services) \notin blamed /\ Head(services) \in Service
    BY <1>3, <2>1 DEF Ahead
  <2>3. fetch' = "requests" /\ client' = Head(services)
    BY <1>5, <1>10, <2>2 DEF System!SelectNext
  <2>4. Ahead(Tail(services))
    BY <1>3, <2>1 DEF Ahead
  <2>5. System!TypeOK'
    BY <1>1, <1>10, <2>1, <2>2, <2>3 DEF System!SelectNext, System!TypeOK
  <2>6. SystemPlaces'
    <3>1. /\ at' = "waits" /\ mode' = mode /\ services' = services /\ failed' = failed
          /\ blamed' = blamed /\ known' = known /\ mode = "behaviour" /\ ~failed /\ services # <<>>
      BY <1>1, <1>10 DEF System!SelectNext, SystemPlaces
    <3>2. Ahead(Tail(services))'
      BY <2>4, <3>1 DEF Ahead
    <3> QED
      BY <2>2, <2>3, <3>1, <3>2 DEF SystemPlaces
  <2>7. SystemTold'
    BY <1>1, <1>10, <2>2, <2>3 DEF System!SelectNext, SystemTold
  <2> QED
    BY <2>5, <2>6, <2>7 DEF SystemInv
<1>11. CASE System!Leave
  BY <1>1, <1>2, <1>11 DEF System!Leave, SystemInv, System!TypeOK, SystemPlaces, SystemTold
<1>12. CASE System!IntervalOver
  BY <1>1, <1>12 DEF System!IntervalOver, SystemInv, System!TypeOK, SystemPlaces, SystemTold, Ahead
<1>13. ASSUME NEW d \in Data, System!Received(d)
       PROVE  SystemInv'
  <2>1. at = "waits" /\ services \in System!Lists /\ client = Head(services) /\ client \in Service
    BY <1>1, <1>3, <1>13 DEF System!Received, System!TypeOK, SystemPlaces, SystemTold
  <2>2. [uri |-> client, data |-> d] \in System!Known
    BY <2>1 DEF System!Known
  <2>3. known'.uri = client /\ known' = told' /\ told' = answer' /\ answer' = [uri |-> client, data |-> d]
    <3>1. CASE System!Changed(d)
      BY <1>13, <3>1 DEF System!Received
    <3>2. CASE ~System!Changed(d)
      <4>1. known.uri = client /\ known.data = d /\ known \in System!Known
        BY <1>1, <3>2 DEF System!Changed, System!TypeOK
      <4>2. known = [uri |-> client, data |-> d]
        BY <4>1 DEF System!Known
      <4> QED
        BY <1>1, <1>13, <3>2, <4>1, <4>2 DEF System!Received, SystemTold
    <3> QED
      BY <3>1, <3>2
  <2>4. fetch' = "waits"
    BY <1>4, <1>13, <2>3 DEF System!Received
  <2>5. \A i \in DOMAIN Tail(services) : Tail(services)[i] # client
    BY <1>3, <2>1
  <2>6. System!TypeOK'
    BY <1>1, <1>13, <2>2, <2>3, <2>4 DEF System!Received, System!TypeOK
  <2>7. SystemPlaces'
    BY <1>1, <1>13, <2>1, <2>3, <2>4, <2>5 DEF System!Received, SystemPlaces, SystemTold, Ahead
  <2>8. SystemTold'
    BY <1>1, <1>13, <2>1, <2>3, <2>4 DEF System!Received, SystemTold
  <2> QED
    BY <2>6, <2>7, <2>8 DEF SystemInv
<1>14. CASE System!Fails
  <2>1. at = "waits" /\ services \in System!Lists /\ client = Head(services) /\ client \in Service
    BY <1>1, <1>3, <1>14 DEF System!Fails, System!TypeOK, SystemPlaces, SystemTold
  <2>2. known' \in System!Known /\ (known' = known \/ known'.uri = client)
    BY <1>1, <1>14, <2>1 DEF System!Fails, System!TypeOK, System!Known
  <2>3. \A i \in DOMAIN Tail(services) : Tail(services)[i] # client
    BY <1>3, <2>1
  <2>4. System!TypeOK'
    BY <1>1, <1>14, <2>1, <2>2 DEF System!Fails, System!TypeOK
  <2>5. Ahead(Tail(services))'
    BY <1>1, <1>14, <2>1, <2>2, <2>3 DEF System!Fails, SystemPlaces, Ahead
  <2>6. SystemPlaces'
    BY <1>1, <1>14, <2>1, <2>5 DEF System!Fails, SystemPlaces, Ahead
  <2>7. SystemTold'
    BY <1>14 DEF System!Fails, SystemTold
  <2> QED
    BY <2>4, <2>6, <2>7 DEF SystemInv
<1>15. CASE UNCHANGED System!systemVars
  BY <1>1, <1>15 DEF System!systemVars, SystemInv, System!TypeOK, SystemPlaces, SystemTold, Ahead
<1> QED
  BY <1>6, <1>7, <1>8, <1>9, <1>10, <1>11, <1>12, <1>13, <1>14, <1>15 DEF System!Next

LEMMA SystemAlways ==
    ASSUME SystemParameters
    PROVE  System!Spec => []SystemInv
<1>1. System!Init => SystemInv
  BY SystemInit
<1>2. SystemInv /\ [System!Next]_System!systemVars => SystemInv'
  BY SystemStep
<1> QED
  BY <1>1, <1>2, PTL DEF System!Spec

\* The thread and the tasks of the System API keep their variables to their types.
THEOREM SystemTypeCorrect ==
    ASSUME SystemParameters
    PROVE  System!Spec => []System!TypeOK
<1>1. SystemInv => System!TypeOK
  BY DEF SystemInv
<1> QED
  BY <1>1, SystemAlways, PTL

\* The System API in use is the first of the list, and those that are left have not failed.
THEOREM SystemSelectedFirst ==
    ASSUME SystemParameters
    PROVE  System!Spec => []System!SelectedFirst
<1>1. SystemInv => System!SelectedFirst
  <2> SUFFICES ASSUME SystemInv, at = "waits"
               PROVE  /\ services # <<>> /\ client = Head(services)
                      /\ \A i \in DOMAIN services : services[i] \in blamed => failed /\ i = 1
    BY DEF System!SelectedFirst
  <2>1. services \in System!Lists /\ client = Head(services)
    BY DEF SystemInv, System!TypeOK, SystemPlaces
  <2>2. services # <<>> /\ Head(services) = services[1]
    BY <2>1, SystemLists DEF Rest
  <2>3. ASSUME NEW i \in DOMAIN services, services[i] \in blamed
        PROVE  failed /\ i = 1
    <3>1. CASE i = 1
      BY <2>2, <2>3, <3>1 DEF SystemInv, SystemPlaces
    <3>2. CASE i # 1
      <4>1. i - 1 \in DOMAIN Tail(services) /\ Tail(services)[i - 1] = services[i]
        BY <2>1, <3>2, SystemLists DEF Rest
      <4> QED
        BY <2>3, <4>1 DEF SystemInv, SystemPlaces, Ahead
    <3> QED
      BY <3>1, <3>2
  <2> QED
    BY <2>1, <2>2, <2>3
<1> QED
  BY <1>1, SystemAlways, PTL

\* The user knows the last answer of the System API in use, and that there is none when
\* there is none in use, whichever services fail, and with whatever answers.
THEOREM SystemToldIsCurrent ==
    ASSUME SystemParameters
    PROVE  System!Spec => []System!ToldIsCurrent
<1>1. SystemInv => System!ToldIsCurrent
  BY DEF SystemInv, SystemPlaces, SystemTold, System!ToldIsCurrent
<1> QED
  BY <1>1, SystemAlways, PTL

-----------------------------------------------------------------------------
(* OcspBehaviour *)

CONSTANTS MaxRenewals

VARIABLES base, files, certs, cached

Ocsp == INSTANCE OcspBehaviour WITH Server <- Service

OcspParameters ==
    /\ None \notin Service
    /\ MaxServices \in Nat /\ MaxRenewals \in Nat

LEMMA OcspLists ==
    ASSUME OcspParameters, NEW s \in Ocsp!Lists
    PROVE  /\ \A i \in DOMAIN s : s[i] \in Service
           /\ Rest(s) /\ Head(s) \in Service
           /\ Tail(s) \in Ocsp!Lists \cup {<<>>}
<1>1. \A l : List(l, Service, MaxServices) <=> l \in Ocsp!Lists
  BY DEF List, Ocsp!Lists, Ocsp!Distinct
<1>2. MaxServices \in Nat
  BY DEF OcspParameters
<1> QED
  BY <1>1, <1>2, ListFacts

\* The servers that are still to be tried have not failed, and are not the one that was
\* asked last.
Untried(list) == \A i \in DOMAIN list : list[i] \notin blamed /\ list[i] # base

\* As for the System API; what the tasks know of is the server in use.
OcspPlaces ==
    /\ at = "out" =>
        /\ fetch = "none" /\ ~failed
        /\ mode = "behaviour" => services # <<>> /\ blamed = {}
    /\ at = "waits" =>
        /\ mode = "behaviour"
        /\ services # <<>> /\ client = Head(services) /\ base = client
        /\ failed <=> fetch = "none"
        /\ Head(services) \in blamed => failed
        /\ Untried(Tail(services))
    /\ at = "joins" =>
        /\ mode = "behaviour" /\ fetch = "none" /\ ~failed
        /\ Untried(services)

OcspInv == Ocsp!TypeOK /\ OcspPlaces /\ Ocsp!CachedIsCurrent

LEMMA OcspInit ==
    ASSUME OcspParameters, Ocsp!Init
    PROVE  OcspInv
<1>1. MaxRenewals \in Nat
  BY DEF OcspParameters
<1>2. files \in 1..(1 + MaxRenewals) /\ certs \in 0..files /\ 0 \in 0..files
  BY <1>1 DEF Ocsp!Init
<1>6. cached \in [server : Service \cup {None}, certs : 0..files]
  BY <1>2 DEF Ocsp!Init
<1>7. /\ mode \in {"initial", "behaviour"} /\ at \in {"out", "waits", "joins"}
      /\ services \in Ocsp!Lists \cup {<<>>}
      /\ client \in Service \cup {None} /\ base \in Service \cup {None}
      /\ failed \in BOOLEAN /\ fetch \in {"none", "waits", "requests"}
      /\ blamed \subseteq Service
  BY DEF Ocsp!Init
<1>3. Ocsp!TypeOK
  BY <1>2, <1>6, <1>7 DEF Ocsp!TypeOK
<1>4. OcspPlaces
  BY DEF Ocsp!Init, OcspPlaces
<1>5. Ocsp!CachedIsCurrent
  BY DEF Ocsp!Init, Ocsp!CachedIsCurrent
<1> QED
  BY <1>3, <1>4, <1>5 DEF OcspInv

LEMMA OcspStep ==
    ASSUME OcspParameters, OcspInv, [Ocsp!Next]_Ocsp!ocspVars
    PROVE  OcspInv'
<1> USE DEF OcspParameters
<1>1. Ocsp!TypeOK /\ OcspPlaces /\ Ocsp!CachedIsCurrent
  BY DEF OcspInv
<1>2. \A s \in Ocsp!Lists :
        /\ s # <<>> /\ Head(s) \in Service
        /\ Tail(s) \in Ocsp!Lists \cup {<<>>}
        /\ \A i \in DOMAIN Tail(s) : i + 1 \in DOMAIN s /\ Tail(s)[i] = s[i + 1]
        /\ \A i \in DOMAIN Tail(s) : Tail(s)[i] # Head(s)
        /\ Head(s) = s[1] /\ 1 \in DOMAIN s
  BY OcspLists DEF Rest
<1> HIDE DEF Ocsp!Lists
<1>3. CASE Ocsp!Load
  BY <1>1, <1>2, <1>3 DEF Ocsp!Load, OcspInv, Ocsp!TypeOK, OcspPlaces, Ocsp!CachedIsCurrent, Untried
<1>4. CASE Ocsp!Start
  <2>1. services \in Ocsp!Lists /\ blamed = {} /\ Head(services) \in Service
    BY <1>1, <1>2, <1>4 DEF Ocsp!Start, Ocsp!TypeOK, OcspPlaces
  <2>2. fetch' = "requests" /\ client' = Head(services) /\ base' = Head(services)
    BY <1>4, <2>1 DEF Ocsp!Start, Ocsp!Ask
  <2>3. Ocsp!TypeOK'
    BY <1>1, <1>4, <2>1, <2>2 DEF Ocsp!Start, Ocsp!TypeOK
  <2>4. OcspPlaces'
    BY <1>1, <1>2, <1>4, <2>1, <2>2 DEF Ocsp!Start, OcspPlaces, Untried
  <2>5. Ocsp!CachedIsCurrent'
    BY <2>2 DEF Ocsp!CachedIsCurrent
  <2> QED
    BY <2>3, <2>4, <2>5 DEF OcspInv
<1>5. CASE Ocsp!GiveUp
  <2>1. services \in Ocsp!Lists /\ fetch = "none"
    BY <1>1, <1>2, <1>5 DEF Ocsp!GiveUp, Ocsp!TypeOK, OcspPlaces
  <2> QED
    BY <1>1, <1>2, <1>5, <2>1 DEF Ocsp!GiveUp, OcspInv, Ocsp!TypeOK, OcspPlaces, Ocsp!CachedIsCurrent, Untried
<1>6. CASE Ocsp!SelectNext
  <2>1. services \in Ocsp!Lists /\ Untried(services)
    BY <1>1, <1>6 DEF Ocsp!SelectNext, Ocsp!TypeOK, OcspPlaces
  <2>2. Head(services) # base /\ Head(services) \notin blamed /\ Head(services) \in Service
    BY <1>2, <2>1 DEF Untried
  <2>3. fetch' = "requests" /\ client' = Head(services) /\ base' = Head(services)
    BY <1>6, <2>2 DEF Ocsp!SelectNext, Ocsp!Ask
  <2>4. Ocsp!TypeOK'
    BY <1>1, <1>6, <2>1, <2>2, <2>3 DEF Ocsp!SelectNext, Ocsp!TypeOK
  <2>5. OcspPlaces'
    <3>1. /\ at' = "waits" /\ mode' = mode /\ services' = services /\ failed' = failed
          /\ blamed' = blamed /\ mode = "behaviour" /\ ~failed /\ services # <<>>
      BY <1>1, <1>6 DEF Ocsp!SelectNext, OcspPlaces
    <3>2. Untried(Tail(services))'
      BY <1>2, <2>1, <2>3, <3>1 DEF Untried
    <3> QED
      BY <2>2, <2>3, <3>1, <3>2 DEF OcspPlaces
  <2>6. Ocsp!CachedIsCurrent'
    BY <2>3 DEF Ocsp!CachedIsCurrent
  <2> QED
    BY <2>4, <2>5, <2>6 DEF OcspInv
<1>7. CASE Ocsp!Leave
  BY <1>1, <1>7 DEF Ocsp!Leave, OcspInv, Ocsp!TypeOK, OcspPlaces, Ocsp!CachedIsCurrent
<1>8. CASE Ocsp!IntervalOver
  BY <1>1, <1>8 DEF Ocsp!IntervalOver, OcspInv, Ocsp!TypeOK, OcspPlaces, Ocsp!CachedIsCurrent, Untried
<1>9. CASE Ocsp!Received
  <2>1. at = "waits" /\ base = client /\ client \in Service
    BY <1>1, <1>2, <1>9 DEF Ocsp!Received, Ocsp!TypeOK, OcspPlaces
  <2>2. fetch' = "waits" /\ client' = client /\ base' = base
    BY <1>9, <2>1 DEF Ocsp!Received, Ocsp!Ask
  <2>3. Ocsp!TypeOK'
    BY <1>1, <1>9, <2>1, <2>2 DEF Ocsp!Received, Ocsp!TypeOK
  <2>4. OcspPlaces'
    BY <1>1, <1>9, <2>1, <2>2 DEF Ocsp!Received, OcspPlaces, Untried
  <2>5. Ocsp!CachedIsCurrent'
    BY <1>9, <2>2 DEF Ocsp!Received, Ocsp!CachedIsCurrent
  <2> QED
    BY <2>3, <2>4, <2>5 DEF OcspInv
<1>10. CASE Ocsp!Fails
  <2>1. at = "waits" /\ services \in Ocsp!Lists /\ client = Head(services) /\ client \in Service
    BY <1>1, <1>2, <1>10 DEF Ocsp!Fails, Ocsp!TypeOK, OcspPlaces
  <2>2. Untried(Tail(services))'
    BY <1>1, <1>2, <1>10, <2>1 DEF Ocsp!Fails, OcspPlaces, Untried
  <2> QED
    BY <1>1, <1>10, <2>1, <2>2 DEF Ocsp!Fails, OcspInv, Ocsp!TypeOK, OcspPlaces, Ocsp!CachedIsCurrent
<1>11. CASE Ocsp!Renew
  <2>1. files' \in 1..(1 + MaxRenewals) /\ files \in Nat /\ files' = files + 1
    BY <1>1, <1>11 DEF Ocsp!Renew, Ocsp!TypeOK
  <2>2. \A n \in 0..files : n \in 0..files'
    BY <2>1
  <2>3. Ocsp!TypeOK'
    BY <1>1, <1>11, <2>1, <2>2 DEF Ocsp!Renew, Ocsp!TypeOK
  <2> QED
    BY <1>1, <1>11, <2>3 DEF Ocsp!Renew, OcspInv, OcspPlaces, Ocsp!CachedIsCurrent, Untried
<1>12. CASE UNCHANGED Ocsp!ocspVars
  BY <1>1, <1>12 DEF Ocsp!ocspVars, OcspInv, Ocsp!TypeOK, OcspPlaces, Ocsp!CachedIsCurrent, Untried
<1> QED
  BY <1>3, <1>4, <1>5, <1>6, <1>7, <1>8, <1>9, <1>10, <1>11, <1>12 DEF Ocsp!Next

LEMMA OcspAlways ==
    ASSUME OcspParameters
    PROVE  Ocsp!Spec => []OcspInv
<1>1. Ocsp!Init => OcspInv
  BY OcspInit
<1>2. OcspInv /\ [Ocsp!Next]_Ocsp!ocspVars => OcspInv'
  BY OcspStep
<1> QED
  BY <1>1, <1>2, PTL DEF Ocsp!Spec

\* The thread and the tasks of the OCSP behaviour keep their variables to their types.
THEOREM OcspTypeCorrect ==
    ASSUME OcspParameters
    PROVE  Ocsp!Spec => []Ocsp!TypeOK
<1>1. OcspInv => Ocsp!TypeOK
  BY DEF OcspInv
<1> QED
  BY <1>1, OcspAlways, PTL

\* The OCSP server in use is the first of the list, and those that are left have not failed.
THEOREM OcspSelectedFirst ==
    ASSUME OcspParameters
    PROVE  Ocsp!Spec => []Ocsp!SelectedFirst
<1>1. OcspInv => Ocsp!SelectedFirst
  <2> SUFFICES ASSUME OcspInv, at = "waits"
               PROVE  /\ services # <<>> /\ client = Head(services)
                      /\ \A i \in DOMAIN services : services[i] \in blamed => failed /\ i = 1
    BY DEF Ocsp!SelectedFirst
  <2>1. services \in Ocsp!Lists /\ client = Head(services)
    BY DEF OcspInv, Ocsp!TypeOK, OcspPlaces
  <2>2. services # <<>> /\ Head(services) = services[1]
    BY <2>1, OcspLists DEF Rest
  <2>3. ASSUME NEW i \in DOMAIN services, services[i] \in blamed
        PROVE  failed /\ i = 1
    <3>1. CASE i = 1
      BY <2>2, <2>3, <3>1 DEF OcspInv, OcspPlaces
    <3>2. CASE i # 1
      <4>1. i - 1 \in DOMAIN Tail(services) /\ Tail(services)[i - 1] = services[i]
        BY <2>1, <3>2, OcspLists DEF Rest
      <4> QED
        BY <2>3, <4>1 DEF OcspInv, OcspPlaces, Untried
    <3> QED
      BY <3>1, <3>2
  <2> QED
    BY <2>1, <2>2, <2>3
<1> QED
  BY <1>1, OcspAlways, PTL

\* While the tasks wait for the interval, the response that handshakes are given is that of the
\* server in use, about the certificates of the request.
THEOREM OcspCachedIsCurrent ==
    ASSUME OcspParameters
    PROVE  Ocsp!Spec => []Ocsp!CachedIsCurrent
<1>1. OcspInv => Ocsp!CachedIsCurrent
  BY DEF OcspInv
<1> QED
  BY <1>1, OcspAlways, PTL

-----------------------------------------------------------------------------
(* TokenIssuers *)

CONSTANTS Issuer, Used, MaxRotations

VARIABLES fetching, issuer, metadata, keys, made, current, target, got, refused, since

Issuers == INSTANCE TokenIssuers

IssuersParameters == Used \in Issuer /\ None \notin Issuer /\ MaxRotations \in Nat

\* The thread has to do with an issuer that was named, and keys with that of a token.
Named ==
    /\ fetching => issuer \in Issuer
    /\ at \in {"requests metadata", "has metadata", "requests keys", "has keys", "stored"} =>
        issuer \in Issuer /\ target \in Issuer

IssuersInv == Issuers!TypeOK /\ Named /\ Issuers!RefetchTriggered

LEMMA IssuersInit ==
    ASSUME IssuersParameters, Issuers!Init
    PROVE  IssuersInv
<1>1. MaxRotations \in Nat
  BY DEF IssuersParameters
<1>2. 1 \in 1..(1 + MaxRotations) /\ 0 \in 0..(1 + MaxRotations)
  BY <1>1
<1>3. Issuers!TypeOK
  BY <1>2 DEF Issuers!Init, Issuers!TypeOK, Issuers!Places
<1>4. Named /\ Issuers!RefetchTriggered
  BY DEF Issuers!Init, Named, Issuers!RefetchTriggered
<1> QED
  BY <1>3, <1>4 DEF IssuersInv

LEMMA VersionFacts ==
    ASSUME IssuersParameters
    PROVE  /\ 0 \in 0..(1 + MaxRotations)
           /\ \A v \in 1..(1 + MaxRotations) :
                /\ v \in 0..(1 + MaxRotations)
                /\ v < 1 + MaxRotations => v + 1 \in 1..(1 + MaxRotations)
BY DEF IssuersParameters

LEMMA IssuersStep ==
    ASSUME IssuersParameters, IssuersInv, [Issuers!Next]_Issuers!issuersVars
    PROVE  IssuersInv'
<1> USE DEF IssuersParameters, IssuersInv, Issuers!TypeOK, Named, Issuers!RefetchTriggered, Issuers!Places
<1>1. ASSUME NEW i \in Issuer, Issuers!Refuse(i)
      PROVE  IssuersInv'
  <2>1. \A j \in Issuer : refused[j] = "flagged" => refused'[j] = "flagged"
    BY <1>1 DEF Issuers!Refuse
  <2> QED
    BY <1>1, <2>1 DEF Issuers!Refuse
<1>2. ASSUME NEW i \in Issuer, Issuers!Flag(i)
      PROVE  IssuersInv'
  BY <1>2 DEF Issuers!Flag
<1>3. ASSUME NEW i \in Issuer, Issuers!Notify(i)
      PROVE  IssuersInv'
  BY <1>3 DEF Issuers!Notify, Issuers!Wake
<1>4. ASSUME NEW i \in Issuer, Issuers!RefuseWs(i)
      PROVE  IssuersInv'
  BY <1>4 DEF Issuers!RefuseWs, Issuers!Wake
<1>5. ASSUME NEW i \in Issuer, Issuers!Rotate(i)
      PROVE  IssuersInv'
  <2>1. /\ current \in [Issuer -> 1..(1 + MaxRotations)]
        /\ current[i] < 1 + MaxRotations
        /\ current' = [current EXCEPT ![i] = current[i] + 1]
    BY <1>5 DEF Issuers!Rotate
  <2>2. current[i] \in 1..(1 + MaxRotations)
    BY <2>1
  <2>3. current[i] + 1 \in 1..(1 + MaxRotations)
    BY <2>1, <2>2, VersionFacts
  <2>4. current' \in [Issuer -> 1..(1 + MaxRotations)]
    BY <2>1, <2>3
  <2> QED
    BY <1>5, <2>4 DEF Issuers!Rotate
<1>6. CASE Issuers!Wait \/ Issuers!Take
  <2>1. CASE Issuers!Wait
    BY <2>1 DEF Issuers!Wait
  <2>2. CASE Issuers!Take
    BY <2>2 DEF Issuers!Take
  <2> QED
    BY <1>6, <2>1, <2>2
<1>13. CASE Issuers!MetadataReceived \/ Issuers!MetadataFails
  <2>1. CASE Issuers!MetadataReceived
    BY <2>1 DEF Issuers!MetadataReceived
  <2>2. CASE Issuers!MetadataFails
    BY <2>2 DEF Issuers!MetadataFails
  <2> QED
    BY <1>13, <2>1, <2>2
<1>7. CASE Issuers!StartKeys
  BY <1>7 DEF Issuers!StartKeys
<1>8. ASSUME NEW version \in 0..(1 + MaxRotations), Issuers!KeysSent(version)
      PROVE  IssuersInv'
  BY <1>8 DEF Issuers!KeysSent
<1>9. CASE Issuers!KeysStored
  BY <1>9 DEF Issuers!KeysStored
<1>10. CASE Issuers!Return
  <2>1. 0 \in 0..(1 + MaxRotations)
    BY VersionFacts
  <2>2. at' = "enters" /\ got' = 0 /\ UNCHANGED <<fetching, issuer, metadata, keys, made, current, target, refused, since>>
    BY <1>10 DEF Issuers!Return
  <2>3. at # "asleep"
    BY <1>10 DEF Issuers!Return
  <2> QED
    BY <2>1, <2>2, <2>3
<1>11. CASE Issuers!Poll
  <2>1. current \in [Issuer -> 1..(1 + MaxRotations)] /\ Used \in Issuer
    OBVIOUS
  <2>2. current[Used] \in 1..(1 + MaxRotations)
    BY <2>1
  <2>3. current[Used] \in 0..(1 + MaxRotations)
    BY <2>2, VersionFacts
  <2> QED
    BY <1>11, <2>3 DEF Issuers!Poll
<1>12. CASE UNCHANGED Issuers!issuersVars
  BY <1>12 DEF Issuers!issuersVars
<1> QED
  BY <1>1, <1>2, <1>3, <1>4, <1>5, <1>6, <1>7, <1>8, <1>9, <1>10, <1>11, <1>12, <1>13 DEF Issuers!Next

LEMMA IssuersAlways ==
    ASSUME IssuersParameters
    PROVE  Issuers!Spec => []IssuersInv
<1>1. Issuers!Init => IssuersInv
  BY IssuersInit
<1>2. IssuersInv /\ [Issuers!Next]_Issuers!issuersVars => IssuersInv'
  BY IssuersStep
<1> QED
  BY <1>1, <1>2, PTL DEF Issuers!Spec

\* Requests and the thread keep the variables of token issuers to their types.
THEOREM IssuersTypeCorrect ==
    ASSUME IssuersParameters
    PROVE  Issuers!Spec => []Issuers!TypeOK
<1>1. IssuersInv => Issuers!TypeOK
  BY DEF IssuersInv
<1> QED
  BY <1>1, IssuersAlways, PTL

\* After each token that was refused the keys are fetched again, and the thread that does it
\* is awake or about to be woken, whatever it was doing when the flag was set.
THEOREM IssuersRefetchTriggered ==
    ASSUME IssuersParameters
    PROVE  Issuers!Spec => []Issuers!RefetchTriggered
<1>1. IssuersInv => Issuers!RefetchTriggered
  BY DEF IssuersInv
<1> QED
  BY <1>1, IssuersAlways, PTL

-----------------------------------------------------------------------------
(* Authorization *)

CONSTANTS MaxDiscoveries, MaxFlows, MaxRestarts

VARIABLES settings, asked, server, clients, file, lapsed, registered, token, held, flow, state,
          flows, callback, waking, count

Auth == INSTANCE Authorization WITH Server <- Service

AuthParameters == IsFiniteSet(Service) /\ MaxFlows \in Nat

LEMMA AuthLists ==
    ASSUME AuthParameters, NEW s \in Auth!Discoverable
    PROVE  s # <<>> /\ Head(s) \in Service /\ Tail(s) \in Auth!Discoverable \cup {<<>>}
<1> DEFINE N == Cardinality(Service)
<1>1. ASSUME NEW l
      PROVE  List(l, Service, Auth!Cardinality(Service)) <=> l \in Auth!Discoverable
  <2>1. Auth!Distinct(l) <=> \A i, j \in DOMAIN l : i # j => l[i] # l[j]
    BY DEF Auth!Distinct
  <2> QED
    BY <2>1 DEF List, Auth!Discoverable
<1>2. N \in Nat
  BY FS_CardinalityType DEF AuthParameters
<1>3. Auth!Cardinality(Service) = N
  BY DEF Cardinality, Auth!Cardinality
<1>4. List(s, Service, N)
  BY <1>1, <1>3
<1>5. Rest(s) /\ Head(s) \in Service /\ (List(Tail(s), Service, N) \/ Tail(s) = <<>>)
  BY <1>2, <1>4, ListFacts
<1> QED
  BY <1>1, <1>3, <1>5 DEF Rest

Operating == {"openid", "registration", "code_flow", "operation", "operation_now"}

Callbacks == [at : {"idle", "checking", "failing", "exchange", "received", "replying"},
              state : Nat, code : Nat, server : Service \cup {Auth!None}]

\* A server is in use in these modes, and is given up for a reason.
AuthChosen ==
    /\ mode = "metadata" /\ (asked \/ failed) => services # <<>>
    /\ mode \in Operating => services # <<>> /\ server = Head(services) /\ server \in Service

\* What is saved is cached, unless an OpenID Connect server did not know the client; and
\* registration begins where nothing is saved that could be used.
AuthSaved ==
    /\ mode = "openid" => settings.openid
    /\ ~settings.openid => file \subseteq clients
    /\ mode = "registration" /\ ~settings.openid => server \notin file \ lapsed

AuthInv ==
    /\ Auth!TypeOK
    /\ flows \in Seq(Service) /\ callback \in Callbacks
    /\ AuthChosen /\ AuthSaved

LEMMA AuthInit ==
    ASSUME AuthParameters, Auth!Init
    PROVE  AuthInv
<1>1. flows \in Seq(Service) /\ Len(flows) = 0
  BY DEF Auth!Init
<1>2. callback \in Callbacks
  BY DEF Auth!Init, Auth!NoCallback, Callbacks
<1>3. registered \in [Service -> Nat] /\ callback.at = "idle"
  BY DEF Auth!Init, Auth!NoCallback
<1>4. Len(flows) <= MaxFlows /\ state \in 0..Len(flows)
  BY <1>1 DEF Auth!Init, AuthParameters
<1>5. Auth!TypeOK
  BY <1>3, <1>4 DEF Auth!Init, Auth!TypeOK, Auth!Modes
<1> QED
  BY <1>1, <1>2, <1>5 DEF AuthInv, AuthChosen, AuthSaved, Operating, Auth!Init

\* What all but the list and the flows change
LEMMA AuthStep ==
    ASSUME AuthParameters, AuthInv, [Auth!Next]_Auth!authorizationVars
    PROVE  AuthInv'
<1> USE DEF AuthInv, Auth!TypeOK, AuthChosen, AuthSaved, Operating, Auth!Modes
<1>1. \A s \in Auth!Discoverable :
        s # <<>> /\ Head(s) \in Service /\ Tail(s) \in Auth!Discoverable \cup {<<>>}
  BY AuthLists
<1> HIDE DEF Auth!Discoverable
<1>2. CASE Auth!Discover
  BY <1>1, <1>2 DEF Auth!Discover, Auth!client, Auth!tokens, Auth!redirection
<1>3. CASE Auth!DiscoverNone
  BY <1>3 DEF Auth!DiscoverNone, Auth!client, Auth!tokens, Auth!redirection
<1>4. CASE Auth!RequestMetadata
  BY <1>1, <1>4 DEF Auth!RequestMetadata, Auth!RemainingServices, Auth!client, Auth!tokens, Auth!redirection
<1>5. CASE Auth!MetadataFails
  BY <1>5 DEF Auth!MetadataFails, Auth!client, Auth!tokens, Auth!redirection
<1>6. CASE Auth!MetadataReceived
  BY <1>1, <1>6 DEF Auth!MetadataReceived, Auth!Current, Auth!Grant, Auth!client, Auth!tokens, Auth!redirection
<1>7. CASE Auth!OpenidKnown
  BY <1>7 DEF Auth!OpenidKnown, Auth!Grant, Auth!client, Auth!tokens, Auth!redirection
<1>8. CASE Auth!OpenidFails
  BY <1>8 DEF Auth!OpenidFails, Auth!client, Auth!tokens, Auth!redirection
<1>9. CASE Auth!Registered
  BY <1>9 DEF Auth!Registered, Auth!client, Auth!tokens, Auth!redirection
<1>10. CASE Auth!RegistrationFails
  <2>1. registered' \in [Service -> Nat]
    BY <1>10 DEF Auth!RegistrationFails
  <2> QED
    BY <1>10, <2>1 DEF Auth!RegistrationFails, Auth!GivesUp, Auth!client, Auth!tokens, Auth!redirection
<1>11. CASE Auth!StartFlow
  <2>1. /\ flows' = Append(flows, server) /\ server \in Service /\ Len(flows) < MaxFlows
        /\ state' = Len(flows')
    BY <1>11 DEF Auth!StartFlow
  <2>2. flows' \in Seq(Service) /\ Len(flows') = Len(flows) + 1 /\ Len(flows) \in Nat
    BY <2>1
  <2>3. Len(flows') <= MaxFlows /\ state' \in 0..Len(flows')
    BY <2>1, <2>2 DEF AuthParameters
  <2> QED
    BY <1>11, <2>2, <2>3 DEF Auth!StartFlow, Auth!client, Auth!tokens, Auth!redirection
<1>12. CASE Auth!Wake
  BY <1>12 DEF Auth!Wake, Auth!client, Auth!tokens, Auth!redirection
<1>13. CASE Auth!FlowSucceeds
  BY <1>13 DEF Auth!FlowSucceeds, Auth!client, Auth!tokens, Auth!redirection
<1>14. CASE Auth!FlowFails
  BY <1>14 DEF Auth!FlowFails, Auth!GivesUp, Auth!client, Auth!tokens, Auth!redirection
<1>15. CASE Auth!FlowWaits
  BY <1>15 DEF Auth!FlowWaits, Auth!client, Auth!tokens, Auth!redirection
<1>16. CASE Auth!StartOperation
  BY <1>16 DEF Auth!StartOperation, Auth!InOperation, Auth!client, Auth!tokens, Auth!redirection
<1>17. CASE Auth!KeysReceived
  BY <1>17 DEF Auth!KeysReceived, Auth!InOperation, Auth!client, Auth!tokens, Auth!redirection
<1>18. CASE Auth!TokenReceived
  BY <1>18 DEF Auth!TokenReceived, Auth!InOperation, Auth!client, Auth!tokens, Auth!redirection
<1>19. CASE Auth!OperationFails
  BY <1>19 DEF Auth!OperationFails, Auth!InOperation, Auth!GivesUp, Auth!client, Auth!tokens, Auth!redirection
<1>20. CASE Auth!Redirected
  <2>1. PICK n \in DOMAIN flows :
          callback' = [at |-> "checking", state |-> state, code |-> n, server |-> server]
    BY <1>20 DEF Auth!Redirected
  <2>2. n \in Nat /\ state \in Nat /\ server \in Service \cup {Auth!None}
    OBVIOUS
  <2>3. callback' \in Callbacks /\ callback'.at = "checking"
    BY <2>1, <2>2 DEF Callbacks
  <2> QED
    BY <1>20, <2>3 DEF Auth!Redirected, Auth!client, Auth!tokens
<1>21. CASE Auth!Rejects
  <2>1. callback' \in Callbacks /\ callback'.at = "failing"
    BY <1>21 DEF Auth!Rejects, Callbacks
  <2> QED
    BY <1>21, <2>1 DEF Auth!Rejects, Auth!client, Auth!tokens
<1>22. CASE Auth!Exchanges
  <2>1. callback' \in Callbacks /\ callback'.at = "exchange"
    BY <1>22 DEF Auth!Exchanges, Callbacks
  <2> QED
    BY <1>22, <2>1 DEF Auth!Exchanges, Auth!client, Auth!tokens
<1>23. CASE Auth!TokenExchanged
  <2>1. callback' \in Callbacks /\ callback'.at = "received" /\ callback.server \in Service \cup {Auth!None}
    BY <1>23 DEF Auth!TokenExchanged, Callbacks
  <2> QED
    BY <1>23, <2>1 DEF Auth!TokenExchanged, Auth!client
<1>24. CASE Auth!ExchangeFails \/ Auth!Finishes
  <2>1. callback' \in Callbacks /\ callback'.at = "replying"
    BY <1>24 DEF Auth!ExchangeFails, Auth!Finishes, Callbacks
  <2> QED
    BY <1>24, <2>1 DEF Auth!ExchangeFails, Auth!Finishes, Auth!client, Auth!tokens
<1>25. CASE Auth!Replies
  <2>1. callback' \in Callbacks /\ callback'.at = "idle"
    BY <1>25 DEF Auth!Replies, Auth!NoCallback, Callbacks
  <2> QED
    BY <1>25, <2>1 DEF Auth!Replies, Auth!client, Auth!tokens
<1>26. ASSUME NEW s \in Service, Auth!SecretExpires(s)
       PROVE  AuthInv'
  BY <1>26 DEF Auth!SecretExpires, Auth!client, Auth!tokens, Auth!redirection
<1>27. CASE Auth!TokenExpires
  BY <1>27 DEF Auth!TokenExpires, Auth!client, Auth!tokens, Auth!redirection
<1>28. CASE Auth!Restart
  <2>1. callback' \in Callbacks /\ callback'.at = "idle"
    BY <1>28 DEF Auth!Restart, Auth!NoCallback, Callbacks
  <2>2. 0 \in 0..Len(flows)
    OBVIOUS
  <2> QED
    BY <1>28, <2>1, <2>2 DEF Auth!Restart, Auth!Loaded
<1>29. CASE UNCHANGED Auth!authorizationVars
  BY <1>29 DEF Auth!authorizationVars, Auth!client, Auth!tokens, Auth!redirection
<1> QED
  BY <1>2, <1>3, <1>4, <1>5, <1>6, <1>7, <1>8, <1>9, <1>10, <1>11, <1>12, <1>13, <1>14, <1>15,
     <1>16, <1>17, <1>18, <1>19, <1>20, <1>21, <1>22, <1>23, <1>24, <1>25, <1>26, <1>27, <1>28,
     <1>29 DEF Auth!Next, Auth!Behaviour, Auth!Callback

LEMMA AuthAlways ==
    ASSUME AuthParameters
    PROVE  Auth!Spec => []AuthInv
<1>1. Auth!Init => AuthInv
  BY AuthInit
<1>2. AuthInv /\ [Auth!Next]_Auth!authorizationVars => AuthInv'
  BY AuthStep
<1> QED
  BY <1>1, <1>2, PTL DEF Auth!Spec

\* The thread, the callback and restarts keep the variables of authorization to their types.
THEOREM AuthTypeCorrect ==
    ASSUME AuthParameters
    PROVE  Auth!Spec => []Auth!TypeOK
<1>1. AuthInv => Auth!TypeOK
  BY DEF AuthInv
<1> QED
  BY <1>1, AuthAlways, PTL

\* The server whose metadata, client and token are used is the first of the list, through any
\* sequence of failures, discoveries, redirects and restarts.
THEOREM AuthSelectedServer ==
    ASSUME AuthParameters
    PROVE  Auth!Spec => []Auth!SelectedServer
<1>1. AuthInv => Auth!SelectedServer
  BY DEF AuthInv, AuthChosen, Operating, Auth!SelectedServer
<1> QED
  BY <1>1, AuthAlways, PTL

\* Without OpenID Connect no client is registered with a server when one that has not expired
\* is saved for it, before or after restarts and changes of server.
THEOREM AuthNoNeedlessRegistration ==
    ASSUME AuthParameters
    PROVE  Auth!Spec => Auth!NoNeedlessRegistration
<1>1. AuthInv /\ [Auth!Next]_Auth!authorizationVars => [Auth!OnlyWhenNeeded]_Auth!authorizationVars
  <2> SUFFICES ASSUME AuthInv, Auth!Next
               PROVE  Auth!OnlyWhenNeeded
    OBVIOUS
  <2>1. registered \in [Service -> Nat]
    BY DEF AuthInv, Auth!TypeOK
  <2>2. CASE UNCHANGED registered
    BY <2>1, <2>2 DEF Auth!OnlyWhenNeeded
  <2>3. CASE mode = "registration" /\ registered' = [registered EXCEPT ![server] = @ + 1]
    BY <2>1, <2>3 DEF AuthInv, AuthSaved, Auth!OnlyWhenNeeded
  <2>4. UNCHANGED registered \/ (mode = "registration" /\ registered' = [registered EXCEPT ![server] = @ + 1])
    BY DEF Auth!Next, Auth!Behaviour, Auth!Callback, Auth!Discover, Auth!DiscoverNone,
           Auth!RequestMetadata, Auth!MetadataFails, Auth!MetadataReceived, Auth!OpenidKnown,
           Auth!OpenidFails, Auth!Registered, Auth!RegistrationFails, Auth!StartFlow, Auth!Wake,
           Auth!FlowSucceeds, Auth!FlowFails, Auth!FlowWaits, Auth!StartOperation,
           Auth!KeysReceived, Auth!TokenReceived, Auth!OperationFails, Auth!Redirected,
           Auth!Rejects, Auth!Exchanges, Auth!TokenExchanged, Auth!ExchangeFails,
           Auth!Finishes, Auth!Replies, Auth!SecretExpires, Auth!TokenExpires, Auth!Restart,
           Auth!client
  <2> QED
    BY <2>2, <2>3, <2>4
<1> QED
  BY <1>1, AuthAlways, PTL DEF Auth!Spec, Auth!NoNeedlessRegistration

-----------------------------------------------------------------------------
(* Discovery *)

CONSTANTS Advert, MaxReplies

VARIABLES method, place, domain, browses, enough, results, replies, elapsed, first, linked,
          canceled, outcome, list, foreign

Search == INSTANCE Discovery

SearchParameters ==
    /\ MaxReplies \in Nat
    /\ \A a \in Advert : a.version \in Nat /\ a.priority \in Nat

LEMMA BestFacts ==
    ASSUME SearchParameters, NEW found \in SUBSET Advert, IsFiniteSet(found),
           NEW uri, \E a \in found : a.uri = uri
    PROVE  /\ Search!BestOf(found, uri) \in found
           /\ Search!BestOf(found, uri).uri = uri
           /\ \A b \in found : b.uri = uri => ~Search!Less(b, Search!BestOf(found, uri))
<1> DEFINE S == {a \in found : a.uri = uri}
           Better(a) == {b \in S : Search!Less(b, a)}
           N == {Cardinality(Better(a)) : a \in S}
<1>1. \A a \in S : IsFiniteSet(Better(a)) /\ Cardinality(Better(a)) \in Nat
  <2> TAKE a \in S
  <2>1. Better(a) \in SUBSET found
    OBVIOUS
  <2> HIDE DEF Better
  <2> QED
    BY <2>1, FS_Subset, FS_CardinalityType
<1>2. N \in SUBSET Nat /\ N # {}
  <2> HIDE DEF Better
  <2> QED
    BY <1>1
<1>3. PICK n \in N : \A k \in N : n <= k
  <2> HIDE DEF N
  <2> QED
    BY <1>2, Facts!NatMin
<1>4. PICK a \in S : n = Cardinality(Better(a))
  OBVIOUS
<1>5. ASSUME NEW b \in S, Search!Less(b, a)
      PROVE  FALSE
  <2>1. \A c \in Better(b) : c \in Better(a)
    <3> TAKE c \in Better(b)
    <3>1. /\ a.version \in Nat /\ a.priority \in Nat /\ b.version \in Nat
          /\ b.priority \in Nat /\ c.version \in Nat /\ c.priority \in Nat
      BY DEF SearchParameters
    <3> QED
      BY <1>5, <3>1 DEF Search!Less
  <2>2. b \in Better(a) /\ b \notin Better(b)
    <3>1. b.version \in Nat /\ b.priority \in Nat
      BY DEF SearchParameters
    <3> QED
      BY <1>5, <3>1 DEF Search!Less
  <2> HIDE DEF Better
  <2>3. Better(b) \in SUBSET Better(a) /\ Better(b) # Better(a)
    BY <2>1, <2>2
  <2>4. Cardinality(Better(b)) < Cardinality(Better(a))
    <3>1. IsFiniteSet(Better(a)) /\ Cardinality(Better(a)) \in Nat /\ Cardinality(Better(b)) \in Nat
      BY <1>1
    <3> QED
      BY <2>3, <3>1, FS_Subset
  <2>5. Cardinality(Better(b)) \in N
    OBVIOUS
  <2> QED
    BY <1>1, <1>3, <1>4, <2>4, <2>5
<1>6. a \in found /\ a.uri = uri /\ \A b \in found : b.uri = uri => ~Search!Less(b, a)
  BY <1>5
<1> HIDE DEF S, Better, N
<1> QED
  BY <1>6 DEF Search!BestOf

\* Each uri is in the list once, with the best that was found of it.
LEMMA SortedFacts ==
    ASSUME SearchParameters, NEW found \in SUBSET Advert, IsFiniteSet(found),
           NEW order \in Search!Sorted(found)
    PROVE  /\ \A i \in DOMAIN order : order[i] \in Advert
           /\ \A a \in found : \E j \in DOMAIN order :
                order[j].uri = a.uri /\ ~Search!Less(a, order[j])
           /\ \A i, j \in DOMAIN order : i < j =>
                order[i].uri # order[j].uri /\ ~Search!Less(order[j], order[i])
<1> DEFINE best == {Search!BestOf(found, uri) : uri \in {a.uri : a \in found}}
           n == Search!Cardinality(best)
<1>1. \A a \in found :
        /\ Search!BestOf(found, a.uri) \in best
        /\ Search!BestOf(found, a.uri).uri = a.uri
        /\ ~Search!Less(a, Search!BestOf(found, a.uri))
  BY BestFacts
<1>2. \A b \in best : b \in found /\ b = Search!BestOf(found, b.uri)
  BY BestFacts
<1>3. /\ order \in [1..n -> best]
      /\ \A b \in best : \E i \in DOMAIN order : order[i] = b
      /\ \A i, j \in DOMAIN order : i < j => ~Search!Less(order[j], order[i])
  BY DEF Search!Sorted
<1> HIDE DEF best
<1>4. IsFiniteSet(best) /\ n = Cardinality(best) /\ n \in Nat
  <2>1. n = Cardinality(best)
    BY DEF Cardinality, Search!Cardinality
  <2> QED
    BY <1>2, <2>1, FS_Subset, FS_CardinalityType
<1>5. IsFiniteSet(1..n) /\ Cardinality(1..n) = n
  BY <1>4, FS_Interval
<1> HIDE DEF n
<1>6. order \in Injection(1..n, best)
  <2>1. order \in Surjection(1..n, best)
    BY <1>3 DEF Surjection
  <2> QED
    BY <1>4, <1>5, <2>1, FS_Surjection
<1>7. \A i, j \in DOMAIN order : i # j => order[i].uri # order[j].uri
  <2>1. \A i, j \in DOMAIN order : i # j => order[i] # order[j]
    BY <1>3, <1>6 DEF Injection, IsInjective
  <2> QED
    BY <1>2, <1>3, <2>1
<1>8. \A i \in DOMAIN order : order[i] \in Advert
  BY <1>2, <1>3
<1>9. \A a \in found : \E j \in DOMAIN order : order[j].uri = a.uri /\ ~Search!Less(a, order[j])
  BY <1>1, <1>3
<1>10. DOMAIN order = 1..n
  BY <1>3
<1> QED
  BY <1>3, <1>4, <1>7, <1>8, <1>9, <1>10

LEMMA FoundFacts ==
    ASSUME IsFiniteSet(Search!Types), results \in [Search!Types -> Seq(Advert)]
    PROVE  Search!Found \in SUBSET Advert /\ IsFiniteSet(Search!Found)
<1> DEFINE Of(t) == {results[t][i] : i \in DOMAIN results[t]}
           S == {Of(t) : t \in Search!Types}
<1>1. \A t \in Search!Types : Of(t) \in SUBSET Advert
  OBVIOUS
<1>2. ASSUME NEW t \in Search!Types
      PROVE  IsFiniteSet(Of(t))
  <2>1. DOMAIN results[t] = 1..Len(results[t]) /\ Len(results[t]) \in Nat
    OBVIOUS
  <2>2. IsFiniteSet(DOMAIN results[t])
    BY <2>1, FS_Interval
  <2>3. results[t] \in Surjection(DOMAIN results[t], Of(t))
    BY <2>1 DEF Surjection
  <2> HIDE DEF Of
  <2> QED
    BY <2>2, <2>3, FS_Surjection
<1>3. IsFiniteSet(S)
  <2> DEFINE f == [t \in Search!Types |-> Of(t)]
  <2> HIDE DEF Of
  <2>1. f \in [Search!Types -> S] /\ \A T \in S : \E t \in Search!Types : f[t] = T
    OBVIOUS
  <2> HIDE DEF S, f
  <2>2. f \in Surjection(Search!Types, S)
    BY <2>1 DEF Surjection
  <2> QED
    BY <2>2, FS_Surjection
<1>4. Search!Found = UNION S
  BY DEF Search!Found
<1>5. \A T \in S : IsFiniteSet(T) /\ T \in SUBSET Advert
  BY <1>1, <1>2
<1> HIDE DEF S, Of
<1>6. IsFiniteSet(UNION S)
  BY <1>3, <1>5, FS_UNION
<1> QED
  BY <1>4, <1>5, <1>6

SearchTyped ==
    /\ Search!TypeOK
    /\ browses \in [Search!Types -> {"browsing", "done", "canceled"}]
    /\ enough \in [Search!Types -> BOOLEAN]
    /\ results \in [Search!Types -> Seq(Advert)]
    /\ replies \in [Search!Types -> 0..MaxReplies]

\* A browse has had enough when it has found something, or was told to stop, or was told of
\* something else; it is told to stop by the caller, or by the first that has found something.
SearchStops ==
    /\ \A t \in Search!Types : enough[t] => linked \/ results[t] # <<>> \/ foreign
    /\ linked => canceled \/ (first # Search!NoType /\ results[first] # <<>>)
    /\ first # Search!NoType => browses[first] = "done"

\* What is resolved stays what was found.
SearchEnded == Search!Resolved => \A t \in Search!Types : browses[t] # "browsing"

SearchInv ==
    /\ SearchTyped /\ SearchStops /\ SearchEnded
    /\ Search!Patient /\ Search!BestFirst

LEMMA SearchInit ==
    ASSUME SearchParameters, Search!Init
    PROVE  SearchInv
<1>1. PICK types \in {{"register"}, {"register", "registration"}} :
        /\ browses = [t \in types |-> "browsing"]
        /\ enough = [t \in types |-> FALSE]
        /\ results = [t \in types |-> <<>>]
        /\ replies = [t \in types |-> 0]
  BY DEF Search!Init
<1>2. Search!Types = types
  BY <1>1 DEF Search!Types
<1>3. /\ browses \in [types -> {"browsing", "done", "canceled"}] /\ enough \in [types -> BOOLEAN]
      /\ results \in [types -> Seq(Advert)]
      /\ \A t \in types : results[t] = <<>> /\ replies[t] = 0 /\ enough[t] = FALSE /\ browses[t] = "browsing"
  BY <1>1
<1>4. replies \in [types -> 0..MaxReplies]
  BY <1>1 DEF SearchParameters
<1>7. \A t \in types : Len(results[t]) <= replies[t] /\ replies[t] <= MaxReplies
  BY <1>3 DEF SearchParameters
<1>5. Search!TypeOK
  <2>1. domain \in {"local", "unicast"} /\ place \in {"local", "unicast"}
    BY DEF Search!Init
  <2>2. \A i \in DOMAIN list : list[i] \in Advert
    BY DEF Search!Init
  <2>3. types \in {{"register"}, {"register", "registration"}}
    BY <1>1
  <2>4. /\ method \in {"both", "unicast", "mdns"} /\ elapsed = 0
        /\ first = Search!NoType /\ linked = FALSE /\ canceled = FALSE /\ foreign = FALSE
        /\ outcome = "pending"
    BY DEF Search!Init
  <2>5. \A t \in Search!Types :
          /\ browses[t] \in {"browsing", "done", "canceled"} /\ enough[t] \in BOOLEAN
          /\ Len(results[t]) <= replies[t] /\ replies[t] <= MaxReplies
    BY <1>2, <1>3, <1>7
  <2>6. Search!Types \in {{"register"}, {"register", "registration"}}
    BY <1>2, <2>3
  <2>7. elapsed \in 0..2 /\ first \in Search!Types \cup {Search!NoType}
    BY <2>4
  <2> QED
    BY <2>1, <2>2, <2>4, <2>5, <2>6, <2>7 DEF Search!TypeOK
<1>6. SearchTyped
  BY <1>2, <1>3, <1>4, <1>5 DEF SearchTyped
<1> QED
  BY <1>2, <1>3, <1>6
  DEF SearchInv, SearchStops, SearchEnded, Search!Patient, Search!BestFirst, Search!Resolved,
      Search!Init, Search!NoType

\* What a browse is told
LEMMA ToldFacts ==
    ASSUME SearchParameters, SearchTyped, NEW t \in Search!Types, Search!Told(t),
           NEW more \in Seq(Advert), Len(more) <= Len(results[t]) + 1,
           results[t] # <<>> => more # <<>>,
           results' = [results EXCEPT ![t] = more],
           NEW b \in BOOLEAN, enough' = [enough EXCEPT ![t] = b],
           browses' = browses
    PROVE  /\ Search!Types' = Search!Types
           /\ enough' \in [Search!Types -> BOOLEAN]
           /\ results' \in [Search!Types -> Seq(Advert)]
           /\ replies' \in [Search!Types -> 0..MaxReplies]
           /\ \A u \in Search!Types :
                /\ Len(results'[u]) <= replies'[u] /\ replies'[u] <= MaxReplies
                /\ results[u] # <<>> => results'[u] # <<>>
                /\ browses[u] # "browsing" => results'[u] = results[u]
                /\ enough'[u] = IF u = t THEN b ELSE enough[u]
<1> USE DEF SearchTyped
<1>1. Search!Types' = Search!Types
  BY DEF Search!Types
<1>2. enough' \in [Search!Types -> BOOLEAN] /\ results' \in [Search!Types -> Seq(Advert)]
  OBVIOUS
<1>3. /\ browses[t] = "browsing" /\ replies[t] < MaxReplies /\ replies[t] \in 0..MaxReplies
      /\ replies' = [replies EXCEPT ![t] = replies[t] + 1]
  BY DEF Search!Told
<1>4. replies[t] + 1 \in 0..MaxReplies
  BY <1>3 DEF SearchParameters
<1>5. replies' \in [Search!Types -> 0..MaxReplies]
  BY <1>3, <1>4
<1>6. ASSUME NEW u \in Search!Types
      PROVE  /\ Len(results'[u]) <= replies'[u] /\ replies'[u] <= MaxReplies
             /\ results[u] # <<>> => results'[u] # <<>>
             /\ browses[u] # "browsing" => results'[u] = results[u]
             /\ enough'[u] = IF u = t THEN b ELSE enough[u]
  <2>1. Len(results[u]) <= replies[u] /\ replies[u] <= MaxReplies /\ replies[u] \in Nat
        /\ Len(results[u]) \in Nat /\ Len(more) \in Nat
    BY DEF Search!TypeOK
  <2>2. CASE u = t
    BY <1>3, <1>4, <2>1, <2>2
  <2>3. CASE u # t
    BY <1>3, <2>1, <2>3
  <2> QED
    BY <2>2, <2>3
<1> QED
  BY <1>1, <1>2, <1>5, <1>6

\* A step in which a browse is told of something: those that have ended keep their results.
LEMMA ToldStep ==
    ASSUME SearchParameters, SearchInv, NEW t \in Search!Types, Search!Told(t),
           NEW more \in Seq(Advert), Len(more) <= Len(results[t]) + 1,
           results[t] # <<>> => more # <<>>,
           results' = [results EXCEPT ![t] = more],
           NEW b \in BOOLEAN, enough' = [enough EXCEPT ![t] = b],
           b => linked \/ more # <<>> \/ foreign',
           foreign' \in BOOLEAN, foreign => foreign',
           elapsed' \in 0..2, elapsed' >= elapsed,
           UNCHANGED <<method, place, domain, browses, first, linked, canceled, outcome, list>>
    PROVE  SearchInv'
<1> USE DEF SearchInv
<1>1. /\ Search!Types' = Search!Types
      /\ enough' \in [Search!Types -> BOOLEAN]
      /\ results' \in [Search!Types -> Seq(Advert)]
      /\ replies' \in [Search!Types -> 0..MaxReplies]
      /\ \A u \in Search!Types :
           /\ Len(results'[u]) <= replies'[u] /\ replies'[u] <= MaxReplies
           /\ results[u] # <<>> => results'[u] # <<>>
           /\ browses[u] # "browsing" => results'[u] = results[u]
           /\ enough'[u] = IF u = t THEN b ELSE enough[u]
  BY ToldFacts
<1>2. results'[t] = more /\ browses[t] = "browsing" /\ elapsed \in 0..2
  BY DEF SearchTyped, Search!Told, Search!TypeOK
<1>3. SearchTyped'
  BY <1>1 DEF SearchTyped, Search!TypeOK, Search!Types
<1>4. SearchStops'
  <2>1. first # Search!NoType => first \in Search!Types
    BY DEF SearchTyped, Search!TypeOK
  <2> QED
    BY <1>1, <1>2, <2>1 DEF SearchStops, Search!NoType
<1>5. Search!Patient'
  <2>1. first # Search!NoType => first \in Search!Types
    BY DEF SearchTyped, Search!TypeOK
  <2> QED
    BY <1>1, <1>2, <2>1 DEF Search!Patient, Search!NoType
<1>6. SearchEnded' /\ Search!BestFirst'
  <2>1. ~Search!Resolved
    BY <1>2 DEF SearchEnded
  <2> QED
    BY <2>1 DEF SearchEnded, Search!BestFirst, Search!Resolved
<1> QED
  BY <1>3, <1>4, <1>5, <1>6

LEMMA TypesNamed ==
    ASSUME SearchInv, NEW t \in Search!Types
    PROVE  t # Search!NoType
<1>1. Search!Types \in {{"register"}, {"register", "registration"}}
  BY DEF SearchInv, SearchTyped, Search!TypeOK
<1> QED
  BY <1>1 DEF Search!NoType

LEMMA SearchStep ==
    ASSUME SearchParameters, SearchInv, [Search!Next]_Search!discoveryVars
    PROVE  SearchInv'
<1>1. /\ SearchTyped /\ SearchStops /\ SearchEnded /\ Search!Patient /\ Search!BestFirst
      /\ Search!TypeOK
      /\ \A t \in Search!Types : results[t] \in Seq(Advert)
  BY DEF SearchInv, SearchTyped
<1>2. ASSUME NEW t \in Search!Types, NEW a \in Advert, Search!Skip(t, a)
      PROVE  SearchInv'
  <2>1. results' = [results EXCEPT ![t] = results[t]]
    BY <1>1, <1>2 DEF Search!Skip, SearchTyped
  <2>2. /\ Search!Told(t) /\ enough' = [enough EXCEPT ![t] = TRUE] /\ foreign' = TRUE
        /\ elapsed' = elapsed
        /\ UNCHANGED <<method, place, domain, browses, first, linked, canceled, outcome, list>>
    BY <1>2 DEF Search!Skip
  <2>3. results[t] \in Seq(Advert) /\ Len(results[t]) <= Len(results[t]) + 1 /\ elapsed \in 0..2
    BY <1>1 DEF Search!TypeOK
  <2>4. elapsed' \in 0..2 /\ elapsed' >= elapsed
    BY <2>2, <2>3
  <2> HIDE DEF SearchInv
  <2> QED
    BY <2>1, <2>2, <2>3, <2>4, ToldStep
<1>3. ASSUME NEW t \in Search!Types, NEW a \in Advert, Search!Resolve(t, a)
      PROVE  SearchInv'
  <2> DEFINE more == IF a.suitable THEN Append(results[t], a) ELSE results[t]
  <2>1. results[t] \in Seq(Advert) /\ elapsed \in 0..2 /\ linked \in BOOLEAN /\ foreign \in BOOLEAN
    BY <1>1 DEF Search!TypeOK
  <2>2. /\ more \in Seq(Advert) /\ Len(more) <= Len(results[t]) + 1
        /\ results[t] # <<>> => more # <<>>
    BY <2>1
  <2>3. results' = [results EXCEPT ![t] = more]
    BY <1>1, <1>3 DEF Search!Resolve, SearchTyped
  <2> HIDE DEF more
  <2>4. results'[t] = more
    BY <1>1, <2>3 DEF SearchTyped
  <2>5. /\ Search!Told(t) /\ elapsed' = elapsed /\ foreign' = foreign
        /\ enough' = [enough EXCEPT ![t] = linked \/ more # <<>>]
        /\ UNCHANGED <<method, place, domain, browses, first, linked, canceled, outcome, list>>
    BY <1>3, <2>4 DEF Search!Resolve, Search!HadEnough
  <2>6. elapsed' \in 0..2 /\ elapsed' >= elapsed /\ foreign' \in BOOLEAN
    BY <2>1, <2>5
  <2>7. PICK b \in BOOLEAN : b <=> linked \/ more # <<>>
    OBVIOUS
  <2>8. b = (linked \/ more # <<>>)
    BY <2>7
  <2> QED
    BY <2>2, <2>3, <2>5, <2>6, <2>7, <2>8, ToldStep
<1>4. ASSUME NEW t \in Search!Types, Search!ResolveFails(t)
      PROVE  SearchInv'
  <2>1. results[t] \in Seq(Advert) /\ elapsed \in 0..2 /\ linked \in BOOLEAN /\ foreign \in BOOLEAN
    BY <1>1 DEF Search!TypeOK
  <2>2. results' = [results EXCEPT ![t] = results[t]]
    BY <1>1, <1>4 DEF Search!ResolveFails, SearchTyped
  <2>3. /\ Search!Told(t) /\ elapsed' \in {2, elapsed} /\ foreign' = foreign
        /\ enough' = [enough EXCEPT ![t] = linked \/ results[t] # <<>>]
        /\ UNCHANGED <<method, place, domain, browses, first, linked, canceled, outcome, list>>
    BY <1>4 DEF Search!ResolveFails, Search!HadEnough
  <2>4. elapsed' \in 0..2 /\ elapsed' >= elapsed /\ foreign' \in BOOLEAN
    BY <2>1, <2>3
  <2>5. PICK b \in BOOLEAN : b <=> linked \/ results[t] # <<>>
    OBVIOUS
  <2>6. b = (linked \/ results[t] # <<>>)
    BY <2>5
  <2>7. Len(results[t]) <= Len(results[t]) + 1
    BY <2>1
  <2> QED
    BY <2>1, <2>2, <2>3, <2>4, <2>5, <2>6, <2>7, ToldStep
<1>5. ASSUME NEW t \in Search!Types, Search!EndBrowse(t)
      PROVE  SearchInv'
  <2>1. /\ browses[t] = "browsing" /\ (elapsed >= Search!ReplyTimeout(t) \/ linked)
        /\ browses' = [browses EXCEPT ![t] = IF linked THEN "canceled" ELSE "done"]
        /\ UNCHANGED <<method, place, domain, enough, results, replies, elapsed, first, linked,
                       canceled, outcome, foreign, list>>
    BY <1>5 DEF Search!EndBrowse
  <2>2. /\ Search!Types' = Search!Types
        /\ browses' \in [Search!Types -> {"browsing", "done", "canceled"}]
        /\ \A u \in Search!Types :
             browses'[u] = IF u # t THEN browses[u] ELSE IF linked THEN "canceled" ELSE "done"
    BY <1>1, <2>1 DEF SearchTyped, Search!Types
  <2>3. SearchTyped'
    BY <1>1, <2>1, <2>2 DEF SearchTyped, Search!TypeOK
  <2>4. first # t /\ (first # Search!NoType => first \in Search!Types)
    <3>1. t # Search!NoType
      BY TypesNamed
    <3>2. first = t => browses[t] = "done"
      BY <1>1, <3>1 DEF SearchStops
    <3> QED
      BY <1>1, <2>1, <3>2 DEF Search!TypeOK
  <2>5. SearchStops'
    BY <1>1, <2>1, <2>2, <2>4 DEF SearchStops, Search!NoType
  <2>6. Search!Patient'
    <3>1. ~linked => elapsed >= 1 /\ (results[t] = <<>> /\ ~foreign => elapsed = 2)
      BY <1>1, <2>1 DEF SearchStops, Search!ReplyTimeout, Search!TypeOK
    <3>2. linked => canceled \/ (first # t /\ first # Search!NoType /\ results[first] # <<>>)
      BY <1>1, <2>4 DEF SearchStops
    <3> QED
      BY <1>1, <2>1, <2>2, <3>1, <3>2 DEF Search!Patient, Search!NoType
  <2>7. SearchEnded' /\ Search!BestFirst'
    <3>1. ~Search!Resolved
      BY <1>1, <2>1 DEF SearchEnded
    <3> QED
      BY <2>1, <3>1 DEF SearchEnded, Search!BestFirst, Search!Resolved
  <2> QED
    BY <2>3, <2>5, <2>6, <2>7 DEF SearchInv
<1>6. ASSUME NEW t \in Search!Types, Search!First(t)
      PROVE  SearchInv'
  <2>1. /\ first = Search!NoType /\ browses[t] = "done" /\ first' = t
        /\ linked' = (linked \/ results[t] # <<>>)
        /\ UNCHANGED <<method, place, domain, browses, enough, results, replies, elapsed,
                       canceled, outcome, foreign, list>>
    BY <1>6 DEF Search!First
  <2>2. Search!Types' = Search!Types /\ linked' \in BOOLEAN
    BY <2>1 DEF Search!Types
  <2>3. SearchTyped'
    BY <1>1, <2>1, <2>2 DEF SearchTyped, Search!TypeOK
  <2>4. SearchStops'
    <3>1. linked => canceled
      BY <1>1, <2>1 DEF SearchStops
    <3>2. \A u \in Search!Types : enough[u] => linked' \/ results[u] # <<>> \/ foreign
      BY <1>1, <2>1 DEF SearchStops
    <3>3. linked' => canceled \/ results[t] # <<>>
      BY <2>1, <3>1
    <3>4. t # Search!NoType
      BY TypesNamed
    <3> QED
      BY <2>1, <2>2, <3>2, <3>3, <3>4 DEF SearchStops
  <2>5. Search!Patient'
    BY <1>1, <2>1, <2>2 DEF Search!Patient, Search!NoType
  <2>6. SearchEnded' /\ Search!BestFirst'
    BY <1>1, <2>1, <2>2 DEF SearchEnded, Search!BestFirst, Search!Resolved
  <2> QED
    BY <2>3, <2>4, <2>5, <2>6 DEF SearchInv
<1>7. CASE Search!Tick
  <2>1. /\ elapsed < 2 /\ outcome = "pending" /\ elapsed' = elapsed + 1
        /\ UNCHANGED <<method, place, domain, browses, enough, results, replies, first, linked,
                       canceled, outcome, foreign, list>>
    BY <1>7 DEF Search!Tick
  <2>2. Search!Types' = Search!Types
    BY <2>1 DEF Search!Types
  <2>3. elapsed \in 0..2 /\ elapsed' \in 0..2 /\ elapsed' > elapsed
    BY <1>1, <2>1 DEF Search!TypeOK
  <2>4. SearchTyped'
    BY <1>1, <2>1, <2>2, <2>3 DEF SearchTyped, Search!TypeOK
  <2>5. SearchStops' /\ SearchEnded' /\ Search!BestFirst'
    BY <1>1, <2>1, <2>2 DEF SearchStops, SearchEnded, Search!BestFirst, Search!Resolved
  <2>6. Search!Patient'
    BY <1>1, <2>1, <2>2, <2>3 DEF Search!Patient
  <2> QED
    BY <2>4, <2>5, <2>6 DEF SearchInv
<1>8. CASE Search!Cancel
  <2>1. /\ outcome = "pending" /\ canceled' = TRUE /\ linked' = TRUE
        /\ UNCHANGED <<method, place, domain, browses, enough, results, replies, elapsed, first,
                       outcome, foreign, list>>
    BY <1>8 DEF Search!Cancel
  <2>2. Search!Types' = Search!Types
    BY <2>1 DEF Search!Types
  <2>3. SearchTyped'
    BY <1>1, <2>1, <2>2 DEF SearchTyped, Search!TypeOK
  <2>4. SearchStops' /\ SearchEnded' /\ Search!BestFirst'
    BY <1>1, <2>1, <2>2 DEF SearchStops, SearchEnded, Search!BestFirst, Search!Resolved
  <2>5. Search!Patient'
    BY <1>1, <2>1, <2>2 DEF Search!Patient
  <2> QED
    BY <2>3, <2>4, <2>5 DEF SearchInv
<1>9. CASE Search!Complete /\ outcome' = "resolved"
  <2>1. /\ outcome = "pending" /\ \A t \in Search!Types : browses[t] # "browsing"
        /\ list' \in Search!Sorted(Search!Found)
        /\ UNCHANGED <<method, place, canceled, domain, browses, enough, results, replies,
                       elapsed, first, linked, foreign>>
    BY <1>9 DEF Search!Complete
  <2>2. Search!Types' = Search!Types
    BY <2>1 DEF Search!Types
  <2>3. Search!Found \in SUBSET Advert /\ IsFiniteSet(Search!Found)
    <3>1. IsFiniteSet(Search!Types)
      <4>1. IsFiniteSet({"register"})
        BY FS_Singleton
      <4>2. IsFiniteSet({"register"} \cup {"registration"})
        BY <4>1, FS_AddElement
      <4>3. Search!Types = {"register"} \/ Search!Types = {"register"} \cup {"registration"}
        BY <1>1 DEF Search!TypeOK
      <4> QED
        BY <4>1, <4>2, <4>3
    <3> QED
      BY <1>1, <3>1, FoundFacts DEF SearchTyped
  <2>4. /\ \A i \in DOMAIN list' : list'[i] \in Advert
        /\ \A a \in Search!Found : \E j \in DOMAIN list' :
             list'[j].uri = a.uri /\ ~Search!Less(a, list'[j])
        /\ \A i, j \in DOMAIN list' : i < j =>
             list'[i].uri # list'[j].uri /\ ~Search!Less(list'[j], list'[i])
    BY <2>1, <2>3, SortedFacts
  <2>5. \A t \in Search!Types : \A i \in DOMAIN results[t] : results[t][i] \in Search!Found
    BY DEF Search!Found
  <2>6. SearchTyped'
    BY <1>1, <1>9, <2>1, <2>2, <2>4 DEF SearchTyped, Search!TypeOK
  <2>7. SearchStops' /\ SearchEnded' /\ Search!Patient'
    BY <1>1, <1>9, <2>1, <2>2 DEF SearchStops, SearchEnded, Search!Patient
  <2>8. Search!BestFirst'
    BY <2>1, <2>2, <2>4, <2>5 DEF Search!BestFirst, Search!Less
  <2> QED
    BY <2>6, <2>7, <2>8 DEF SearchInv
<1>10. CASE Search!Complete /\ outcome' # "resolved"
  <2>1. /\ outcome = "pending" /\ domain' = "local" /\ Search!Browse(Search!Types)
        /\ foreign' = FALSE
        /\ UNCHANGED <<method, place, canceled, outcome, list>>
    BY <1>10 DEF Search!Complete
  <2>2. /\ Search!Types' = Search!Types
        /\ browses' \in [Search!Types -> {"browsing", "done", "canceled"}]
        /\ enough' \in [Search!Types -> BOOLEAN]
        /\ results' \in [Search!Types -> Seq(Advert)]
        /\ \A t \in Search!Types :
             browses'[t] = "browsing" /\ enough'[t] = FALSE /\ results'[t] = <<>> /\ replies'[t] = 0
        /\ elapsed' = 0 /\ first' = Search!NoType /\ linked' = FALSE
    BY <2>1 DEF Search!Browse, Search!Types
  <2>3. replies' \in [Search!Types -> 0..MaxReplies]
    BY <2>1 DEF Search!Browse, SearchParameters
  <2>4. \A t \in Search!Types : Len(results'[t]) <= replies'[t] /\ replies'[t] <= MaxReplies
    BY <2>2 DEF SearchParameters
  <2>5. SearchTyped'
    <3>1. elapsed' \in 0..2 /\ first' \in Search!Types \cup {Search!NoType}
      BY <2>2
    <3>2. \A t \in Search!Types :
            /\ browses'[t] \in {"browsing", "done", "canceled"} /\ enough'[t] \in BOOLEAN
            /\ Len(results'[t]) <= replies'[t] /\ replies'[t] <= MaxReplies
      BY <2>2, <2>4
    <3>3. Search!TypeOK'
      BY <1>1, <2>1, <2>2, <3>1, <3>2 DEF Search!TypeOK
    <3> QED
      BY <2>2, <2>3, <3>3 DEF SearchTyped
  <2>6. SearchStops' /\ Search!Patient'
    BY <2>2 DEF SearchStops, Search!Patient
  <2>7. SearchEnded' /\ Search!BestFirst'
    BY <2>1 DEF SearchEnded, Search!BestFirst, Search!Resolved
  <2> QED
    BY <2>5, <2>6, <2>7 DEF SearchInv
<1>11. CASE Search!CompleteCanceled
  <2>1. /\ outcome' = "canceled"
        /\ UNCHANGED <<method, place, domain, browses, enough, results, replies, elapsed, first,
                       linked, canceled, foreign, list>>
    BY <1>11 DEF Search!CompleteCanceled
  <2>2. Search!Types' = Search!Types
    BY <2>1 DEF Search!Types
  <2>3. SearchTyped'
    BY <1>1, <2>1, <2>2 DEF SearchTyped, Search!TypeOK
  <2>4. SearchStops' /\ SearchEnded' /\ Search!Patient' /\ Search!BestFirst'
    BY <1>1, <2>1, <2>2 DEF SearchStops, SearchEnded, Search!Patient, Search!BestFirst, Search!Resolved
  <2> QED
    BY <2>3, <2>4 DEF SearchInv
<1>12. CASE UNCHANGED Search!discoveryVars
  <2>1. UNCHANGED <<method, place, domain, browses, enough, results, replies, elapsed, first,
                    linked, canceled, outcome, list, foreign>>
    BY <1>12 DEF Search!discoveryVars
  <2>2. Search!Types' = Search!Types
    BY <2>1 DEF Search!Types
  <2>3. SearchTyped'
    BY <1>1, <2>1, <2>2 DEF SearchTyped, Search!TypeOK
  <2>4. SearchStops' /\ SearchEnded' /\ Search!Patient' /\ Search!BestFirst'
    BY <1>1, <2>1, <2>2 DEF SearchStops, SearchEnded, Search!Patient, Search!BestFirst, Search!Resolved
  <2> QED
    BY <2>3, <2>4 DEF SearchInv
<1> QED
  BY <1>2, <1>3, <1>4, <1>5, <1>6, <1>7, <1>8, <1>9, <1>10, <1>11, <1>12 DEF Search!Next

LEMMA SearchAlways ==
    ASSUME SearchParameters
    PROVE  Search!Spec => []SearchInv
<1>1. Search!Init => SearchInv
  BY SearchInit
<1>2. SearchInv /\ [Search!Next]_Search!discoveryVars => SearchInv'
  BY SearchStep
<1> QED
  BY <1>1, <1>2, PTL DEF Search!Spec

\* The browses and the daemon keep the variables of discovery to their types.
THEOREM SearchTypeCorrect ==
    ASSUME SearchParameters
    PROVE  Search!Spec => []Search!TypeOK
<1>1. SearchInv => Search!TypeOK
  BY DEF SearchInv, SearchTyped
<1> QED
  BY <1>1, SearchAlways, PTL

\* However many replies there are and in whatever order, a browse is not ended before the
\* daemon has had its time, but for the reasons it may be.
THEOREM SearchPatient ==
    ASSUME SearchParameters
    PROVE  Search!Spec => []Search!Patient
<1>1. SearchInv => Search!Patient
  BY DEF SearchInv
<1> QED
  BY <1>1, SearchAlways, PTL

\* The list that is resolved has what any browse has found, each uri once with the best
\* advertisement of it, and the better ones first.
THEOREM SearchBestFirst ==
    ASSUME SearchParameters
    PROVE  Search!Spec => []Search!BestFirst
<1>1. SearchInv => Search!BestFirst
  BY DEF SearchInv
<1> QED
  BY <1>1, SearchAlways, PTL

-----------------------------------------------------------------------------
(* EventsClient *)

CONSTANTS Receiver, Uri, ClientSource, MaxActivations

VARIABLES params, subscriptions, connections, heard, closing, chain, activating, holder, readers

EventsIn == INSTANCE EventsClient WITH Source <- ClientSource

\* What is subscribed to has a name of its own.
ClientParameters ==
    /\ "none" \notin Receiver \cup Uri
    /\ MaxActivations \in Nat

Unmade == [uri |-> "none", status |-> "unused"]

\* An activation that has not subscribed yet has neither chain nor client; one whose
\* chain has come to the connection has a place to connect to.
Chains ==
    /\ activating # EventsIn!Idle => count # 0
    /\ \A n \in EventsIn!Client :
        /\ n > count \/ (n = count /\ activating # EventsIn!Idle) => chain[n] = EventsIn!NoChain /\ client[n] = Unmade
        /\ chain[n].at \in {"connect", "connecting", "command"} => chain[n].uri # "none"

\* The connection of a uri was opened by the activation whose number it has, for that
\* uri, and has a receiver.
Opened ==
    \A u \in Uri : connections[u] # EventsIn!None =>
        /\ chain[connections[u]].uri = u
        /\ EventsIn!Subscribed(subscriptions, u) # {}

\* A client connects once, and is closed once.
Once ==
    \A n \in EventsIn!Client :
        /\ chain[n].at = "connect" => client[n].status = "new"
        /\ closing[n] # "no" => client[n].status = "closed"

ClientInv == EventsIn!TypeOK /\ Chains /\ Once /\ Opened /\ EventsIn!ActiveIsConnected /\ EventsIn!SourcesRequested

-----------------------------------------------------------------------------
(* Facts about the operators *)

LEMMA ClientFacts ==
    ASSUME ClientParameters
    PROVE  EventsIn!Client \subseteq Nat /\ EventsIn!None \notin EventsIn!Client /\ \A n \in EventsIn!Client : n + 1 \in Nat
BY DEF ClientParameters, EventsIn!Client, EventsIn!None

\* An active receiver has a place to connect to.
LEMMA ParamsFacts ==
    ASSUME NEW p \in EventsIn!Params, p.enable
    PROVE  p.uri \in Uri /\ p.source \in ClientSource
<1>1. CASE p = EventsIn!Off
  BY <1>1 DEF EventsIn!Off
<1>2. CASE p \in [enable : {TRUE}, uri : Uri, source : ClientSource]
  BY <1>2
<1> QED
  BY <1>1, <1>2 DEF EventsIn!Params

\* Two uris never share a connection.
LEMMA OneUri ==
    ASSUME Opened, NEW u \in Uri, NEW w \in Uri, connections[u] # EventsIn!None, connections[u] = connections[w]
    PROVE  u = w
BY DEF Opened

\* The connection that a receiver leaves, or none; is it kept for others; and does the
\* receiver need a new one
Old(r) == IF EventsIn!Leaves(r) THEN connections[subscriptions[r].uri] ELSE EventsIn!None

Stays(r) == Old(r) # EventsIn!None /\ EventsIn!Subscribed(subscriptions', subscriptions[r].uri) # {}

Opens(r) == params[r].enable /\ connections[params[r].uri] = EventsIn!None

\* What an activation subscribes, and the connections then
LEMMA SubscribeFacts ==
    ASSUME ClientParameters, ClientInv, NEW r \in Receiver, EventsIn!Subscribe(r)
    PROVE  LET n    == count
               p    == params[r]
               left == subscriptions[r].uri
           IN  /\ activating = r /\ n \in EventsIn!Client /\ chain[n] = EventsIn!NoChain /\ client[n] = Unmade
               /\ p \in EventsIn!Params /\ (p.enable => p.uri \in Uri /\ p.source \in ClientSource)
               /\ EventsIn!Leaves(r) => /\ left \in Uri /\ connections[left] # EventsIn!None /\ (p.enable => p.uri # left)
                               /\ Old(r) \in EventsIn!Client /\ Old(r) # n /\ chain[Old(r)].uri = left
               /\ Old(r) # EventsIn!None <=> EventsIn!Leaves(r)
               /\ subscriptions' = [subscriptions EXCEPT ![r] =
                        IF p.enable THEN [uri |-> p.uri, source |-> p.source] ELSE EventsIn!NotSubscribed]
               /\ connections' \in [Uri -> EventsIn!Client \cup {EventsIn!None}]
               /\ \A u \in Uri : connections'[u] =
                        IF Opens(r) /\ u = p.uri THEN n
                        ELSE IF EventsIn!Leaves(r) /\ u = left /\ ~Stays(r) THEN EventsIn!None
                        ELSE connections[u]
<1> DEFINE n    == count
           p    == params[r]
           left == subscriptions[r].uri
           kept == IF Old(r) # EventsIn!None /\ ~Stays(r) THEN [connections EXCEPT ![left] = EventsIn!None] ELSE connections
           opens == p.enable /\ kept[p.uri] = EventsIn!None
<1>0. EventsIn!TypeOK /\ Chains /\ Opened
  BY DEF ClientInv
<1>1. activating = r /\ r # EventsIn!Idle
  BY DEF EventsIn!Subscribe, ClientParameters, EventsIn!Idle
<1>2. n \in EventsIn!Client /\ chain[n] = EventsIn!NoChain /\ client[n] = Unmade
  BY <1>0, <1>1 DEF EventsIn!TypeOK, Chains, EventsIn!Client, ClientParameters
<1>3. p \in EventsIn!Params /\ (p.enable => p.uri \in Uri /\ p.source \in ClientSource)
  <2>1. p \in EventsIn!Params
    BY <1>0 DEF EventsIn!TypeOK
  <2> HIDE DEF p
  <2> QED
    BY <2>1, ParamsFacts
<1>4. ASSUME EventsIn!Leaves(r)
      PROVE  /\ left \in Uri /\ connections[left] # EventsIn!None /\ (p.enable => p.uri # left)
             /\ Old(r) = connections[left]
             /\ Old(r) \in EventsIn!Client /\ Old(r) # n /\ chain[Old(r)].uri = left
  <2>1. left \in Uri
    BY <1>0, <1>4 DEF EventsIn!TypeOK, EventsIn!Leaves
  <2>2. connections[left] # EventsIn!None /\ (p.enable => p.uri # left) /\ Old(r) = connections[left]
    BY <1>4 DEF EventsIn!Leaves, Old
  <2>3. Old(r) \in EventsIn!Client /\ chain[Old(r)].uri = left
    BY <1>0, <2>1, <2>2 DEF EventsIn!TypeOK, Opened
  <2>4. Old(r) # n
    BY <1>2, <2>1, <2>3 DEF EventsIn!NoChain, ClientParameters
  <2> QED
    BY <2>1, <2>2, <2>3, <2>4
<1>5. Old(r) # EventsIn!None <=> EventsIn!Leaves(r)
  BY <1>4 DEF Old
<1>6. /\ subscriptions' = [subscriptions EXCEPT ![r] =
              IF p.enable THEN [uri |-> p.uri, source |-> p.source] ELSE EventsIn!NotSubscribed]
      /\ connections' = IF opens THEN [kept EXCEPT ![p.uri] = n] ELSE kept
  BY DEF EventsIn!Subscribe, Old, Stays
<1>7. connections \in [Uri -> EventsIn!Client \cup {EventsIn!None}]
  BY <1>0 DEF EventsIn!TypeOK
<1>8. kept \in [Uri -> EventsIn!Client \cup {EventsIn!None}]
  BY <1>7
<1>9. \A u \in Uri : kept[u] = IF EventsIn!Leaves(r) /\ u = left /\ ~Stays(r) THEN EventsIn!None ELSE connections[u]
  BY <1>4, <1>5, <1>7
<1>10. opens <=> Opens(r)
  BY <1>3, <1>4, <1>9 DEF Opens
<1> HIDE DEF kept, opens
<1>11. connections' \in [Uri -> EventsIn!Client \cup {EventsIn!None}]
  BY <1>2, <1>6, <1>8
<1>12. \A u \in Uri : connections'[u] = IF Opens(r) /\ u = p.uri THEN n ELSE kept[u]
  BY <1>3, <1>6, <1>8, <1>10
<1> QED
  BY <1>1, <1>2, <1>3, <1>4, <1>5, <1>6, <1>9, <1>11, <1>12

\* ... the chain that begins, and what becomes of the clients
LEMMA SubscribeClients ==
    ASSUME ClientParameters, ClientInv, NEW r \in Receiver, EventsIn!Subscribe(r)
    PROVE  LET n == count
               p == params[r]
           IN  /\ \A m \in EventsIn!Client \ {n} : chain'[m] = chain[m]
               /\ chain'[n].at \in (IF p.enable THEN {"old", "connect", "command"} ELSE {"old", "done"})
               /\ chain'[n].uri = IF p.enable THEN p.uri ELSE "none"
               /\ chain'[n].at = "connect" => p.enable
               /\ chain' \in [EventsIn!Client -> [at   : {"none", "old", "connect", "connecting", "command", "done", "failed"},
                                         old  : EventsIn!Client \cup {EventsIn!None},
                                         ends : {"succeeds", "fails", "either"},
                                         uri  : Uri \cup {"none"}]]
               /\ client' \in [EventsIn!Client -> [uri : Uri \cup {"none"},
                                          status : {"unused", "new", "connecting", "open", "closing", "closed"}]]
               /\ \A m \in EventsIn!Client : m > n => client'[m] = client[m]
               /\ \A k \in EventsIn!Client \ {n} : client'[k].status \in {client[k].status, EventsIn!Closed(client[k].status)}
               /\ chain'[n].at = "connect" => client'[n].status = "new"
               /\ client'[n].status \in {"unused", "new"}
               /\ heard' \in [EventsIn!Client -> SUBSET ClientSource]
               /\ \A k \in EventsIn!Client :
                    heard'[k] = IF k = Old(r) /\ Stays(r) /\ client[k].status = "open"
                                THEN EventsIn!Sources(subscriptions', subscriptions[r].uri) ELSE heard[k]
<1> DEFINE n    == count
           p    == params[r]
           left == subscriptions[r].uri
<1>0. EventsIn!TypeOK
  BY DEF ClientInv
<1>1. n \in EventsIn!Client /\ p \in EventsIn!Params /\ (p.enable => p.uri \in Uri) /\ (EventsIn!Leaves(r) => Old(r) \in EventsIn!Client)
      /\ (Old(r) # EventsIn!None <=> EventsIn!Leaves(r)) /\ (EventsIn!Leaves(r) => Old(r) # n)
  BY SubscribeFacts
<1>2. PICK opens \in BOOLEAN :
        /\ opens => p.enable
        /\ client' = [k \in EventsIn!Client |->
                IF k = Old(r) /\ ~Stays(r) THEN [client[k] EXCEPT !.status = EventsIn!Closed(@)]
                ELSE IF k = n /\ opens THEN [uri |-> p.uri, status |-> "new"]
                ELSE client[k]]
        /\ chain' = [chain EXCEPT ![n] =
                [at   |-> IF Old(r) # EventsIn!None THEN "old" ELSE IF opens THEN "connect"
                          ELSE IF p.enable THEN "command" ELSE "done",
                 old  |-> Old(r),
                 ends |-> IF Old(r) = EventsIn!None \/ client[Old(r)].status = "open" THEN "succeeds"
                          ELSE IF Stays(r) THEN "fails" ELSE "either",
                 uri  |-> IF p.enable THEN p.uri ELSE "none"]]
  <2> DEFINE old == Old(r)
             stays == old # EventsIn!None /\ EventsIn!Subscribed(subscriptions', left) # {}
             kept == IF old # EventsIn!None /\ ~stays THEN [connections EXCEPT ![left] = EventsIn!None] ELSE connections
             opens == p.enable /\ kept[p.uri] = EventsIn!None
  <2>1. opens \in BOOLEAN /\ (opens => p.enable)
    BY <1>1 DEF EventsIn!Params, EventsIn!Off
  <2>2. /\ client' = [k \in EventsIn!Client |->
                IF k = old /\ ~stays THEN [client[k] EXCEPT !.status = EventsIn!Closed(@)]
                ELSE IF k = n /\ opens THEN [uri |-> p.uri, status |-> "new"]
                ELSE client[k]]
        /\ chain' = [chain EXCEPT ![n] =
                [at   |-> IF old # EventsIn!None THEN "old" ELSE IF opens THEN "connect"
                          ELSE IF p.enable THEN "command" ELSE "done",
                 old  |-> old,
                 ends |-> IF old = EventsIn!None \/ client[old].status = "open" THEN "succeeds"
                          ELSE IF stays THEN "fails" ELSE "either",
                 uri  |-> IF p.enable THEN p.uri ELSE "none"]]
    BY DEF EventsIn!Subscribe, Old
  <2> HIDE DEF opens
  <2> QED
    BY <2>1, <2>2 DEF Stays
<1>3. heard' = IF Stays(r) /\ client[Old(r)].status = "open"
               THEN [heard EXCEPT ![Old(r)] = EventsIn!Sources(subscriptions', left)] ELSE heard
  BY DEF EventsIn!Subscribe, Old, Stays
<1>4. subscriptions' \in [Receiver -> [uri : Uri, source : ClientSource] \cup {EventsIn!NotSubscribed}]
  BY <1>0, <1>1, SubscribeFacts DEF EventsIn!TypeOK
<1>5. EventsIn!Leaves(r) => left \in Uri
  BY SubscribeFacts
<1>6. EventsIn!Leaves(r) => EventsIn!Sources(subscriptions', left) \in SUBSET ClientSource
  <2>1. ASSUME EventsIn!Leaves(r), NEW q \in Receiver, subscriptions'[q].uri = left
        PROVE  subscriptions'[q].source \in ClientSource
    <3>1. left # "none"
      BY <1>5, <2>1 DEF ClientParameters
    <3> QED
      BY <1>4, <2>1, <3>1 DEF EventsIn!NotSubscribed
  <2> QED
    BY <2>1 DEF EventsIn!Sources, EventsIn!Subscribed
<1>7. /\ heard' \in [EventsIn!Client -> SUBSET ClientSource]
      /\ \A k \in EventsIn!Client :
              heard'[k] = IF k = Old(r) /\ Stays(r) /\ client[k].status = "open"
                          THEN EventsIn!Sources(subscriptions', left) ELSE heard[k]
  BY <1>0, <1>1, <1>3, <1>6 DEF EventsIn!TypeOK, Stays
<1>8. /\ \A m \in EventsIn!Client \ {n} : chain'[m] = chain[m]
      /\ chain'[n].at \in (IF p.enable THEN {"old", "connect", "command"} ELSE {"old", "done"})
      /\ chain'[n].uri = IF p.enable THEN p.uri ELSE "none"
      /\ chain'[n].at = "connect" => p.enable
      /\ chain' \in [EventsIn!Client -> [at   : {"none", "old", "connect", "connecting", "command", "done", "failed"},
                                old  : EventsIn!Client \cup {EventsIn!None},
                                ends : {"succeeds", "fails", "either"},
                                uri  : Uri \cup {"none"}]]
  BY <1>0, <1>1, <1>2 DEF EventsIn!TypeOK
<1>9. /\ client' \in [EventsIn!Client -> [uri : Uri \cup {"none"},
                                 status : {"unused", "new", "connecting", "open", "closing", "closed"}]]
      /\ \A k \in EventsIn!Client \ {n} : client'[k].status \in {client[k].status, EventsIn!Closed(client[k].status)}
  BY <1>0, <1>1, <1>2 DEF EventsIn!TypeOK, EventsIn!Closed
<1>11. client[n] = Unmade /\ n # Old(r)
  BY <1>1, SubscribeFacts, ClientFacts DEF Old
<1>12. client'[n].status \in {"unused", "new"}
  BY <1>1, <1>2, <1>11 DEF Unmade
<1>13. chain'[n].at = "connect" => client'[n].status = "new"
  BY <1>0, <1>1, <1>2, <1>11 DEF EventsIn!TypeOK
<1>10. ASSUME NEW m \in EventsIn!Client, m > n
       PROVE  client'[m] = client[m]
  <2>1. chain[m] = EventsIn!NoChain
    BY <1>10 DEF ClientInv, Chains
  <2>2. EventsIn!Leaves(r) => chain[Old(r)].uri = left /\ left # "none"
    BY <1>5, SubscribeFacts DEF ClientParameters
  <2>3. m # Old(r) \/ ~EventsIn!Leaves(r)
    BY <2>1, <2>2 DEF EventsIn!NoChain
  <2>4. m # Old(r)
    BY <1>1, <1>10, <2>3, ClientFacts DEF Old
  <2>5. n # m
    BY <1>1, <1>10, ClientFacts
  <2> QED
    BY <1>2, <1>10, <2>4, <2>5
<1> QED
  BY <1>7, <1>8, <1>9, <1>10, <1>12, <1>13

-----------------------------------------------------------------------------
(* Each part is kept by each step *)

\* The types of a client whose status changes, and of a chain that goes on
LEMMA StatusTypes ==
    ASSUME EventsIn!TypeOK, NEW n \in EventsIn!Client, NEW status \in {"unused", "new", "connecting", "open", "closing", "closed"},
           client' = [client EXCEPT ![n].status = status]
    PROVE  /\ client' \in [EventsIn!Client -> [uri : Uri \cup {"none"},
                                      status : {"unused", "new", "connecting", "open", "closing", "closed"}]]
           /\ client'[n].status = status
           /\ \A k \in EventsIn!Client \ {n} : client'[k] = client[k]
BY DEF EventsIn!TypeOK

LEMMA StageTypes ==
    ASSUME EventsIn!TypeOK, NEW n \in EventsIn!Client,
           NEW stage \in {"none", "old", "connect", "connecting", "command", "done", "failed"}, EventsIn!To(n, stage)
    PROVE  /\ chain' \in [EventsIn!Client -> [at   : {"none", "old", "connect", "connecting", "command", "done", "failed"},
                                     old  : EventsIn!Client \cup {EventsIn!None},
                                     ends : {"succeeds", "fails", "either"},
                                     uri  : Uri \cup {"none"}]]
           /\ chain'[n].at = stage /\ chain'[n].uri = chain[n].uri
           /\ \A k \in EventsIn!Client \ {n} : chain'[k] = chain[k]
BY DEF EventsIn!TypeOK, EventsIn!To

LEMMA TypeStep ==
    ASSUME ClientParameters, ClientInv, [EventsIn!Next]_(EventsIn!eventsClientVars)
    PROVE  EventsIn!TypeOK'
<1> USE DEF EventsIn!locks
<1>0. EventsIn!TypeOK
  BY DEF ClientInv
<1>1. ASSUME NEW r \in Receiver, EventsIn!Subscribe(r)
      PROVE  EventsIn!TypeOK'
  <2>1. /\ subscriptions' \in [Receiver -> [uri : Uri, source : ClientSource] \cup {EventsIn!NotSubscribed}]
        /\ connections' \in [Uri -> EventsIn!Client \cup {EventsIn!None}]
    BY <1>0, <1>1, SubscribeFacts DEF EventsIn!TypeOK
  <2>2. UNCHANGED <<params, closing, count, holder, readers>> /\ activating' = EventsIn!Idle
    BY <1>1 DEF EventsIn!Subscribe
  <2> QED
    BY <1>0, <1>1, <2>1, <2>2, SubscribeClients DEF EventsIn!TypeOK
<1>2. ASSUME NEW r \in Receiver, NEW p \in EventsIn!Params, EventsIn!Activate(r, p)
      PROVE  EventsIn!TypeOK'
  BY <1>0, <1>2 DEF EventsIn!Activate, ClientParameters, EventsIn!TypeOK
<1>3. ASSUME NEW n \in EventsIn!Client, EventsIn!OldSucceeds(n) \/ EventsIn!OldFails(n)
      PROVE  EventsIn!TypeOK'
  <2>1. PICK stage \in {"done", "connect", "command", "failed"} : EventsIn!To(n, stage)
    BY <1>3 DEF EventsIn!OldSucceeds, EventsIn!OldFails
  <2>2. UNCHANGED <<params, subscriptions, connections, client, heard, closing, count, EventsIn!locks>>
    BY <1>3 DEF EventsIn!OldSucceeds, EventsIn!OldFails
  <2> QED
    BY <1>0, <2>1, <2>2, StageTypes DEF EventsIn!TypeOK
<1>4. ASSUME NEW n \in EventsIn!Client, EventsIn!Connect(n) \/ EventsIn!Connected(n)
      PROVE  EventsIn!TypeOK'
  <2>1. PICK stage \in {"connecting", "command"}, status \in {"connecting", "open"} :
            EventsIn!To(n, stage) /\ client' = [client EXCEPT ![n].status = status]
    BY <1>4 DEF EventsIn!Connect, EventsIn!Connected
  <2>2. UNCHANGED <<params, subscriptions, connections, heard, closing, count, EventsIn!locks>>
    BY <1>4 DEF EventsIn!Connect, EventsIn!Connected
  <2>3. client' \in [EventsIn!Client -> [uri : Uri \cup {"none"},
                                status : {"unused", "new", "connecting", "open", "closing", "closed"}]]
    BY <1>0, <2>1, StatusTypes
  <2> QED
    BY <1>0, <2>1, <2>2, <2>3, StageTypes DEF EventsIn!TypeOK
<1>5. ASSUME NEW n \in EventsIn!Client, client[n].status # "closed",
             client' = [client EXCEPT ![n].status = "closed"],
             closing' = [closing EXCEPT ![n] = "due"],
             EventsIn!To(n, "failed") \/ chain' = chain,
             UNCHANGED <<params, subscriptions, connections, heard, count, EventsIn!locks>>
      PROVE  EventsIn!TypeOK'
  <2>1. closing[n] = "no"
    BY <1>5 DEF ClientInv, Once
  <2>2. closing' \in [EventsIn!Client -> {"no", "due", "user", "done"}] /\ \A k \in EventsIn!Client : closing'[k] = "user" <=> holder = k
    BY <1>0, <1>5, <2>1 DEF EventsIn!TypeOK
  <2> QED
    BY <1>0, <1>5, <2>2, StageTypes, StatusTypes DEF EventsIn!TypeOK
<1>6. ASSUME NEW n \in EventsIn!Client, EventsIn!ConnectFails(n) \/ EventsIn!Break(n) \/ EventsIn!CloseCompletes(n)
      PROVE  EventsIn!TypeOK'
  BY <1>5, <1>6 DEF EventsIn!ConnectFails, EventsIn!Break, EventsIn!CloseCompletes
<1>7. ASSUME NEW n \in EventsIn!Client, EventsIn!Command(n)
      PROVE  EventsIn!TypeOK'
  <2>1. PICK stage \in {"failed", "done"} : EventsIn!To(n, stage)
    BY <1>7 DEF EventsIn!Command
  <2>2. UNCHANGED <<params, subscriptions, connections, client, closing, count, EventsIn!locks>>
    BY <1>7 DEF EventsIn!Command
  <2>3. heard' \in [EventsIn!Client -> SUBSET ClientSource]
    <3>1. CASE chain[n].uri \in Uri
      <4>1. \A q \in Receiver : subscriptions[q].uri = chain[n].uri => subscriptions[q].source \in ClientSource
        BY <1>0, <3>1 DEF EventsIn!TypeOK, EventsIn!NotSubscribed, ClientParameters
      <4>2. EventsIn!Sources(subscriptions, chain[n].uri) \in SUBSET ClientSource
        BY <4>1 DEF EventsIn!Sources, EventsIn!Subscribed
      <4> QED
        BY <1>0, <1>7, <4>2 DEF EventsIn!TypeOK, EventsIn!Command
    <3>2. chain[n].uri \in Uri
      BY <1>0, <1>7 DEF ClientInv, EventsIn!TypeOK, Chains, EventsIn!Command
    <3> QED
      BY <3>1, <3>2
  <2> QED
    BY <1>0, <2>1, <2>2, <2>3, StageTypes DEF EventsIn!TypeOK
<1>8. ASSUME NEW k \in EventsIn!Client, EventsIn!MessageReceived(k) \/ EventsIn!MessageHandled(k)
      PROVE  EventsIn!TypeOK'
  BY <1>0, <1>8 DEF EventsIn!MessageReceived, EventsIn!MessageHandled, EventsIn!TypeOK
<1>9. ASSUME NEW k \in EventsIn!Client, EventsIn!CloseHandler(k)
      PROVE  EventsIn!TypeOK'
  <2>1. /\ UNCHANGED <<params, subscriptions, heard, chain, count, activating, readers>>
        /\ holder = EventsIn!None /\ readers = {} /\ holder' = k /\ closing' = [closing EXCEPT ![k] = "user"]
        /\ connections' = [connections EXCEPT ![client[k].uri] = EventsIn!None]
    BY <1>9 DEF EventsIn!CloseHandler
  <2>2. client' \in [EventsIn!Client -> [uri : Uri \cup {"none"},
                                status : {"unused", "new", "connecting", "open", "closing", "closed"}]]
    BY <1>0, <1>9 DEF EventsIn!TypeOK, EventsIn!CloseHandler, EventsIn!Closed
  <2>3. connections' \in [Uri -> EventsIn!Client \cup {EventsIn!None}]
    BY <1>0, <2>1 DEF EventsIn!TypeOK
  <2>4. closing' \in [EventsIn!Client -> {"no", "due", "user", "done"}] /\ \A j \in EventsIn!Client : closing'[j] = "user" <=> holder' = j
    BY <1>0, <2>1, ClientFacts DEF EventsIn!TypeOK
  <2> QED
    BY <1>0, <2>1, <2>2, <2>3, <2>4 DEF EventsIn!TypeOK
<1>10. ASSUME NEW k \in EventsIn!Client, EventsIn!UserClose(k)
      PROVE  EventsIn!TypeOK'
  <2>1. /\ UNCHANGED <<subscriptions, connections, client, heard, chain, count, activating, readers>>
        /\ closing[k] = "user" /\ holder' = EventsIn!None /\ closing' = [closing EXCEPT ![k] = "done"]
    BY <1>10 DEF EventsIn!UserClose
  <2>2. params' \in [Receiver -> EventsIn!Params]
    BY <1>0, <1>10 DEF EventsIn!UserClose, EventsIn!TypeOK, EventsIn!Params
  <2>3. closing' \in [EventsIn!Client -> {"no", "due", "user", "done"}] /\ \A j \in EventsIn!Client : closing'[j] = "user" <=> holder' = j
    BY <1>0, <2>1, ClientFacts DEF EventsIn!TypeOK
  <2> QED
    BY <1>0, <2>1, <2>2, <2>3 DEF EventsIn!TypeOK
<1>11. CASE UNCHANGED EventsIn!eventsClientVars
  BY <1>0, <1>11 DEF EventsIn!eventsClientVars, EventsIn!TypeOK
<1> QED
  BY <1>1, <1>2, <1>3, <1>4, <1>6, <1>7, <1>8, <1>9, <1>10, <1>11 DEF EventsIn!Next

LEMMA ChainsStep ==
    ASSUME ClientParameters, ClientInv, [EventsIn!Next]_(EventsIn!eventsClientVars)
    PROVE  Chains'
<1> USE ClientFacts DEF EventsIn!locks
<1>0. EventsIn!TypeOK /\ Chains /\ count \in Nat
  BY DEF ClientInv, EventsIn!TypeOK, ClientParameters
<1>1. ASSUME NEW r \in Receiver, EventsIn!Subscribe(r)
      PROVE  Chains'
  <2>1. activating' = EventsIn!Idle /\ count' = count
    BY <1>1 DEF EventsIn!Subscribe
  <2>2. ASSUME NEW n \in EventsIn!Client, n > count
        PROVE  chain'[n] = EventsIn!NoChain /\ client'[n] = Unmade
    <3>1. n # count /\ chain[n] = EventsIn!NoChain /\ client[n] = Unmade
      BY <1>0, <2>2 DEF Chains
    <3> QED
      BY <1>1, <2>2, <3>1, SubscribeClients
  <2>3. ASSUME NEW n \in EventsIn!Client, chain'[n].at \in {"connect", "connecting", "command"}
        PROVE  chain'[n].uri # "none"
    <3>1. CASE n = count
      <4>1. chain'[n].at # "old" /\ chain'[n].at # "done"
        BY <2>3
      <4>2. params[r].enable
        BY <1>1, <3>1, <4>1, SubscribeClients
      <4>3. chain'[n].uri = params[r].uri /\ params[r].uri \in Uri
        BY <1>1, <3>1, <4>2, SubscribeClients, SubscribeFacts
      <4> QED
        BY <4>3 DEF ClientParameters
    <3>2. CASE n # count
      BY <1>0, <1>1, <2>3, <3>2, SubscribeClients DEF Chains
    <3> QED
      BY <3>1, <3>2
  <2> QED
    BY <2>1, <2>2, <2>3 DEF Chains
<1>2. ASSUME NEW r \in Receiver, NEW p \in EventsIn!Params, EventsIn!Activate(r, p)
      PROVE  Chains'
  BY <1>0, <1>2 DEF EventsIn!Activate, Chains
<1>3. ASSUME NEW m \in EventsIn!Client, chain'[m].uri = chain[m].uri,
             chain[m] # EventsIn!NoChain \/ (chain' = chain /\ client[m] # Unmade),
             \A n \in EventsIn!Client \ {m} : chain'[n] = chain[n] /\ client'[n] = client[n],
             chain'[m].at \in {"connect", "connecting", "command"} => chain[m].uri # "none",
             UNCHANGED <<count, activating>>
      PROVE  Chains'
  BY <1>0, <1>3 DEF Chains
<1>4. ASSUME NEW n \in EventsIn!Client, EventsIn!OldSucceeds(n) \/ EventsIn!OldFails(n) \/ EventsIn!Connect(n) \/ EventsIn!Connected(n)
                                  \/ EventsIn!ConnectFails(n) \/ EventsIn!Command(n)
      PROVE  Chains'
  <2>1. chain[n] # EventsIn!NoChain /\ UNCHANGED <<count, activating>>
    BY <1>4 DEF EventsIn!NoChain, EventsIn!OldSucceeds, EventsIn!OldFails, EventsIn!Connect, EventsIn!Connected, EventsIn!ConnectFails, EventsIn!Command
  <2>2. chain'[n].uri = chain[n].uri /\ \A m \in EventsIn!Client \ {n} : chain'[m] = chain[m] /\ client'[m] = client[m]
    BY <1>0, <1>4 DEF EventsIn!TypeOK, EventsIn!To, EventsIn!OldSucceeds, EventsIn!OldFails, EventsIn!Connect, EventsIn!Connected, EventsIn!ConnectFails, EventsIn!Command
  <2>3. chain'[n].at \in {"connect", "connecting", "command"} => chain[n].uri # "none"
    BY <1>0, <1>4 DEF EventsIn!TypeOK, Chains, EventsIn!To, EventsIn!OldSucceeds, EventsIn!OldFails, EventsIn!Connect, EventsIn!Connected, EventsIn!ConnectFails, EventsIn!Command
  <2> QED
    BY <1>3, <2>1, <2>2, <2>3
<1>5. ASSUME NEW k \in EventsIn!Client, EventsIn!Break(k) \/ EventsIn!CloseCompletes(k)
      PROVE  Chains'
  <2>1. /\ client[k] # Unmade /\ UNCHANGED <<chain, count, activating>>
        /\ \A n \in EventsIn!Client \ {k} : client'[n] = client[n]
    BY <1>0, <1>5 DEF EventsIn!TypeOK, Unmade, EventsIn!Break, EventsIn!CloseCompletes
  <2>2. chain[k].at \in {"connect", "connecting", "command"} => chain[k].uri # "none"
    BY <1>0 DEF Chains
  <2> QED
    BY <1>3, <2>1, <2>2
<1>6. ASSUME NEW k \in EventsIn!Client, EventsIn!CloseHandler(k)
      PROVE  Chains'
  <2>1. UNCHANGED <<chain, count, activating>>
    BY <1>6 DEF EventsIn!CloseHandler
  <2>2. ASSUME NEW n \in EventsIn!Client, client[n] = Unmade
        PROVE  client'[n] = Unmade
    BY <1>0, <1>6, <2>2 DEF EventsIn!TypeOK, EventsIn!CloseHandler, EventsIn!Closed, Unmade
  <2> QED
    BY <1>0, <2>1, <2>2 DEF Chains
<1>7. ASSUME NEW k \in EventsIn!Client, EventsIn!MessageReceived(k) \/ EventsIn!MessageHandled(k) \/ EventsIn!UserClose(k)
      PROVE  Chains'
  BY <1>0, <1>7 DEF EventsIn!MessageReceived, EventsIn!MessageHandled, EventsIn!UserClose, Chains
<1>8. CASE UNCHANGED EventsIn!eventsClientVars
  BY <1>0, <1>8 DEF EventsIn!eventsClientVars, Chains
<1> QED
  BY <1>1, <1>2, <1>4, <1>5, <1>6, <1>7, <1>8 DEF EventsIn!Next

LEMMA OnceStep ==
    ASSUME ClientParameters, ClientInv, [EventsIn!Next]_(EventsIn!eventsClientVars)
    PROVE  Once'
<1> USE DEF EventsIn!locks
<1>0. EventsIn!TypeOK /\ Once
  BY DEF ClientInv
<1>1. ASSUME NEW r \in Receiver, EventsIn!Subscribe(r)
      PROVE  Once'
  <2>1. ASSUME NEW n \in EventsIn!Client
        PROVE  /\ chain'[n].at = "connect" => client'[n].status = "new"
               /\ closing'[n] # "no" => client'[n].status = "closed"
    <3>1. closing' = closing
      BY <1>1 DEF EventsIn!Subscribe
    <3>2. CASE n = count
      <4>1. client[n].status # "closed"
        BY <1>1, <3>2, SubscribeFacts DEF Unmade
      <4> QED
        BY <1>0, <1>1, <3>1, <3>2, <4>1, SubscribeClients DEF Once
    <3>3. CASE n # count
      <4>1. client'[n].status \in {client[n].status, EventsIn!Closed(client[n].status)} /\ chain'[n] = chain[n]
        BY <1>1, <3>3, SubscribeClients
      <4> QED
        BY <1>0, <3>1, <4>1 DEF Once, EventsIn!Closed
    <3> QED
      BY <3>2, <3>3
  <2> QED
    BY <2>1 DEF Once
<1>2. ASSUME NEW n \in EventsIn!Client, EventsIn!OldSucceeds(n) \/ EventsIn!OldFails(n) \/ EventsIn!Command(n)
      PROVE  Once'
  BY <1>0, <1>2 DEF EventsIn!TypeOK, Once, EventsIn!To, EventsIn!OldSucceeds, EventsIn!OldFails, EventsIn!Command
<1>3. ASSUME NEW n \in EventsIn!Client, EventsIn!Connect(n) \/ EventsIn!Connected(n)
      PROVE  Once'
  <2>1. PICK stage \in {"connecting", "command"}, status \in {"connecting", "open"} :
            EventsIn!To(n, stage) /\ client' = [client EXCEPT ![n].status = status]
    BY <1>3 DEF EventsIn!Connect, EventsIn!Connected
  <2>2. closing' = closing /\ client[n].status # "closed"
    BY <1>0, <1>3 DEF Once, EventsIn!Connect, EventsIn!Connected
  <2>3. /\ chain'[n].at # "connect" /\ closing'[n] = "no"
        /\ \A k \in EventsIn!Client \ {n} : chain'[k] = chain[k] /\ client'[k] = client[k]
    BY <1>0, <2>1, <2>2, StageTypes, StatusTypes DEF Once
  <2> QED
    BY <1>0, <2>2, <2>3 DEF Once
<1>4. ASSUME NEW n \in EventsIn!Client, EventsIn!ConnectFails(n)
      PROVE  Once'
  BY <1>0, <1>4 DEF EventsIn!TypeOK, Once, EventsIn!To, EventsIn!ConnectFails
<1>5. ASSUME NEW k \in EventsIn!Client, EventsIn!Break(k) \/ EventsIn!CloseCompletes(k)
      PROVE  Once'
  BY <1>0, <1>5 DEF EventsIn!TypeOK, Once, EventsIn!Break, EventsIn!CloseCompletes
<1>6. ASSUME NEW k \in EventsIn!Client, EventsIn!CloseHandler(k)
      PROVE  Once'
  BY <1>0, <1>6 DEF EventsIn!TypeOK, Once, EventsIn!CloseHandler, EventsIn!Closed
<1>7. ASSUME NEW k \in EventsIn!Client, EventsIn!UserClose(k)
      PROVE  Once'
  BY <1>0, <1>7 DEF EventsIn!TypeOK, Once, EventsIn!UserClose
<1>8. CASE UNCHANGED <<client, chain, closing>>
  BY <1>0, <1>8 DEF Once
<1>9. ASSUME NEW k \in EventsIn!Client, EventsIn!MessageReceived(k) \/ EventsIn!MessageHandled(k)
      PROVE  UNCHANGED <<client, chain, closing>>
  BY <1>9 DEF EventsIn!MessageReceived, EventsIn!MessageHandled
<1>10. ASSUME NEW r \in Receiver, NEW p \in EventsIn!Params, EventsIn!Activate(r, p)
       PROVE  UNCHANGED <<client, chain, closing>>
  BY <1>10 DEF EventsIn!Activate
<1> QED
  BY <1>1, <1>2, <1>3, <1>4, <1>5, <1>6, <1>7, <1>8, <1>9, <1>10 DEF EventsIn!Next, EventsIn!eventsClientVars

LEMMA OpenedStep ==
    ASSUME ClientParameters, ClientInv, [EventsIn!Next]_(EventsIn!eventsClientVars)
    PROVE  Opened'
<1> USE ClientFacts DEF EventsIn!locks
<1>0. EventsIn!TypeOK /\ Opened
  BY DEF ClientInv
<1>1. ASSUME NEW r \in Receiver, EventsIn!Subscribe(r)
      PROVE  Opened'
  <2> DEFINE p == params[r]
             left == subscriptions[r].uri
  <2>1. ASSUME NEW u \in Uri, connections'[u] # EventsIn!None
        PROVE  chain'[connections'[u]].uri = u /\ EventsIn!Subscribed(subscriptions', u) # {}
    <3>1. subscriptions' = [subscriptions EXCEPT ![r] =
                IF p.enable THEN [uri |-> p.uri, source |-> p.source] ELSE EventsIn!NotSubscribed]
      BY <1>1, SubscribeFacts
    <3>2. subscriptions \in [Receiver -> [uri : Uri, source : ClientSource] \cup {EventsIn!NotSubscribed}]
      BY <1>0 DEF EventsIn!TypeOK
    <3>3. CASE Opens(r) /\ u = p.uri
      <4>1. connections'[u] = count /\ p.enable /\ subscriptions'[r].uri = u
        BY <1>1, <3>1, <3>2, <3>3, SubscribeFacts DEF Opens
      <4> QED
        BY <1>1, <3>3, <4>1, SubscribeClients DEF EventsIn!Subscribed
    <3>4. CASE ~(Opens(r) /\ u = p.uri)
      <4>1. /\ connections'[u] = connections[u] /\ connections[u] \in EventsIn!Client
            /\ ~(EventsIn!Leaves(r) /\ u = left /\ ~Stays(r))
        BY <1>0, <1>1, <2>1, <3>4, SubscribeFacts DEF EventsIn!TypeOK
      <4>2. chain[connections[u]].uri = u /\ EventsIn!Subscribed(subscriptions, u) # {}
        BY <1>0, <4>1 DEF Opened
      <4>3. connections[u] # count /\ chain'[connections[u]] = chain[connections[u]]
        <5>1. chain[count] = EventsIn!NoChain
          BY <1>1, SubscribeFacts
        <5> QED
          BY <1>1, <4>1, <4>2, <5>1, SubscribeClients DEF EventsIn!NoChain, ClientParameters
      <4>4. PICK q \in Receiver : subscriptions[q].uri = u
        BY <4>2 DEF EventsIn!Subscribed
      <4>5. CASE q # r
        BY <3>1, <3>2, <4>1, <4>2, <4>3, <4>4, <4>5 DEF EventsIn!Subscribed
      <4>6. CASE q = r /\ EventsIn!Leaves(r)
        BY <4>1, <4>2, <4>3, <4>4, <4>6 DEF Stays
      <4>7. CASE q = r /\ ~EventsIn!Leaves(r)
        <5>1. left = u /\ subscriptions[r] # EventsIn!NotSubscribed
          BY <4>4, <4>7 DEF EventsIn!NotSubscribed, ClientParameters
        <5>2. p.enable /\ p.uri = u
          BY <4>1, <4>7, <5>1, ClientFacts DEF EventsIn!Leaves
        <5>3. subscriptions'[r].uri = u
          BY <3>1, <3>2, <5>2
        <5> QED
          BY <4>1, <4>2, <4>3, <5>3 DEF EventsIn!Subscribed
      <4> QED
        BY <4>5, <4>6, <4>7
    <3> QED
      BY <3>3, <3>4
  <2> QED
    BY <2>1 DEF Opened
<1>2. ASSUME NEW n \in EventsIn!Client, EventsIn!OldSucceeds(n) \/ EventsIn!OldFails(n) \/ EventsIn!Connect(n) \/ EventsIn!Connected(n)
                                  \/ EventsIn!ConnectFails(n) \/ EventsIn!Command(n)
      PROVE  Opened'
  <2>1. /\ UNCHANGED <<connections, subscriptions>>
        /\ \A m \in EventsIn!Client : chain'[m].uri = chain[m].uri
    BY <1>0, <1>2 DEF EventsIn!TypeOK, EventsIn!To, EventsIn!OldSucceeds, EventsIn!OldFails, EventsIn!Connect, EventsIn!Connected, EventsIn!ConnectFails, EventsIn!Command
  <2> QED
    BY <1>0, <2>1 DEF EventsIn!TypeOK, Opened
<1>3. ASSUME NEW k \in EventsIn!Client, EventsIn!CloseHandler(k)
      PROVE  Opened'
  BY <1>0, <1>3 DEF EventsIn!TypeOK, Opened, EventsIn!CloseHandler
<1>4. CASE UNCHANGED <<connections, subscriptions, chain>>
  BY <1>0, <1>4 DEF Opened
<1>5. ASSUME NEW r \in Receiver, NEW p \in EventsIn!Params, EventsIn!Activate(r, p)
      PROVE  UNCHANGED <<connections, subscriptions, chain>>
  BY <1>5 DEF EventsIn!Activate
<1>6. ASSUME NEW k \in EventsIn!Client, EventsIn!Break(k) \/ EventsIn!CloseCompletes(k) \/ EventsIn!MessageReceived(k) \/ EventsIn!MessageHandled(k) \/ EventsIn!UserClose(k)
      PROVE  UNCHANGED <<connections, subscriptions, chain>>
  BY <1>6 DEF EventsIn!Break, EventsIn!CloseCompletes, EventsIn!MessageReceived, EventsIn!MessageHandled, EventsIn!UserClose
<1> QED
  BY <1>1, <1>2, <1>3, <1>4, <1>5, <1>6 DEF EventsIn!Next, EventsIn!eventsClientVars

LEMMA ActiveStep ==
    ASSUME ClientParameters, ClientInv, [EventsIn!Next]_(EventsIn!eventsClientVars)
    PROVE  EventsIn!ActiveIsConnected'
<1> USE ClientFacts DEF EventsIn!locks
<1>0. EventsIn!TypeOK /\ EventsIn!ActiveIsConnected
  BY DEF ClientInv
<1>1. ASSUME NEW r \in Receiver, EventsIn!Subscribe(r)
      PROVE  EventsIn!ActiveIsConnected'
  <2> DEFINE p == params[r]
             left == subscriptions[r].uri
  <2>0. params' = params /\ holder = EventsIn!None /\ activating = r
    BY <1>1 DEF EventsIn!Subscribe
  <2>1. ASSUME NEW q \in Receiver, params[q].enable
        PROVE  /\ subscriptions'[q] = [uri |-> params[q].uri, source |-> params[q].source]
               /\ connections'[params[q].uri] # EventsIn!None
    <3>1. subscriptions' = [subscriptions EXCEPT ![r] =
                IF p.enable THEN [uri |-> p.uri, source |-> p.source] ELSE EventsIn!NotSubscribed]
      BY <1>1, SubscribeFacts
    <3>2. subscriptions \in [Receiver -> [uri : Uri, source : ClientSource] \cup {EventsIn!NotSubscribed}]
      BY <1>0 DEF EventsIn!TypeOK
    <3>3. count \in EventsIn!Client /\ (p.enable => p.uri \in Uri)
      BY <1>1, SubscribeFacts
    <3>4. CASE q = r
      <4>1. subscriptions'[r] = [uri |-> p.uri, source |-> p.source]
        BY <2>1, <3>1, <3>2, <3>4
      <4>2. ~(EventsIn!Leaves(r) /\ p.uri = left)
        BY <2>1, <3>4, <1>1, SubscribeFacts
      <4>3. connections'[p.uri] # EventsIn!None
        BY <1>1, <2>1, <3>3, <3>4, <4>2, SubscribeFacts DEF Opens
      <4> QED
        BY <3>4, <4>1, <4>3
    <3>5. CASE q # r
      <4>1. /\ subscriptions[q] = [uri |-> params[q].uri, source |-> params[q].source]
            /\ connections[params[q].uri] # EventsIn!None
        BY <1>0, <2>0, <2>1, <3>5 DEF EventsIn!ActiveIsConnected
      <4>2. subscriptions'[q] = subscriptions[q]
        BY <3>1, <3>2, <3>5
      <4>3. params[q].uri \in Uri
        BY <1>0, <2>1, ParamsFacts DEF EventsIn!TypeOK
      <4>4. EventsIn!Leaves(r) /\ params[q].uri = left => Stays(r)
        <5>1. ASSUME EventsIn!Leaves(r), params[q].uri = left
              PROVE  Stays(r)
          <6>1. q \in EventsIn!Subscribed(subscriptions', left)
            BY <4>1, <4>2, <5>1 DEF EventsIn!Subscribed
          <6>2. Old(r) # EventsIn!None
            BY <1>1, <5>1, SubscribeFacts
          <6> QED
            BY <6>1, <6>2 DEF Stays
        <5> QED
          BY <5>1
      <4>5. connections'[params[q].uri] # EventsIn!None
        BY <1>1, <3>3, <4>1, <4>3, <4>4, SubscribeFacts
      <4> QED
        BY <4>1, <4>2, <4>5
    <3> QED
      BY <3>4, <3>5
  <2> QED
    BY <2>0, <2>1 DEF EventsIn!ActiveIsConnected
<1>2. ASSUME NEW r \in Receiver, NEW p \in EventsIn!Params, EventsIn!Activate(r, p)
      PROVE  EventsIn!ActiveIsConnected'
  <2>1. /\ UNCHANGED <<subscriptions, connections, client, holder>> /\ activating' = r /\ activating = EventsIn!Idle
        /\ \A q \in Receiver \ {r} : params'[q] = params[q]
    BY <1>0, <1>2 DEF EventsIn!Activate, EventsIn!TypeOK
  <2>2. \A q \in Receiver : q # EventsIn!Idle
    BY DEF ClientParameters, EventsIn!Idle
  <2> QED
    BY <1>0, <2>1, <2>2 DEF EventsIn!ActiveIsConnected
<1>3. ASSUME NEW k \in EventsIn!Client, EventsIn!CloseHandler(k)
      PROVE  EventsIn!ActiveIsConnected'
  <2>1. /\ UNCHANGED <<params, subscriptions, activating>> /\ holder = EventsIn!None /\ holder' = k
        /\ connections' = [connections EXCEPT ![client[k].uri] = EventsIn!None]
    BY <1>3 DEF EventsIn!CloseHandler
  <2>2. client'[k].uri = client[k].uri
    BY <1>0, <1>3 DEF EventsIn!TypeOK, EventsIn!CloseHandler
  <2>3. \A q \in Receiver : params[q].enable => params[q].uri \in Uri
    BY <1>0, ParamsFacts DEF EventsIn!TypeOK
  <2>4. \A u \in Uri : u # client[k].uri => connections'[u] = connections[u]
    BY <1>0, <2>1 DEF EventsIn!TypeOK
  <2> QED
    BY <1>0, <2>1, <2>2, <2>3, <2>4 DEF EventsIn!ActiveIsConnected
<1>4. ASSUME NEW k \in EventsIn!Client, EventsIn!UserClose(k)
      PROVE  EventsIn!ActiveIsConnected'
  <2>1. /\ UNCHANGED <<subscriptions, connections, client, activating>> /\ activating = EventsIn!Idle
        /\ holder = k /\ holder' = EventsIn!None
        /\ params' = [r \in Receiver |-> IF r \in EventsIn!ReceiversOf(client[k].uri) THEN EventsIn!Off ELSE params[r]]
    BY <1>0, <1>4 DEF EventsIn!UserClose, EventsIn!TypeOK
  <2>2. \A q \in Receiver : q # EventsIn!Idle
    BY DEF ClientParameters, EventsIn!Idle
  <2>3. ASSUME NEW q \in Receiver, params'[q].enable
        PROVE  params'[q] = params[q] /\ params[q].uri # client[k].uri
    BY <2>1, <2>3 DEF EventsIn!ReceiversOf, EventsIn!Off
  <2> QED
    BY <1>0, <2>1, <2>2, <2>3 DEF EventsIn!ActiveIsConnected
<1>5. ASSUME UNCHANGED <<params, subscriptions, connections, holder, activating>>,
             \A k \in EventsIn!Client : client'[k].uri = client[k].uri
      PROVE  EventsIn!ActiveIsConnected'
  BY <1>0, <1>5 DEF EventsIn!TypeOK, EventsIn!ActiveIsConnected
<1>6. ASSUME NEW n \in EventsIn!Client, EventsIn!OldSucceeds(n) \/ EventsIn!OldFails(n) \/ EventsIn!Connect(n) \/ EventsIn!Connected(n)
                                  \/ EventsIn!ConnectFails(n) \/ EventsIn!Command(n)
      PROVE  EventsIn!ActiveIsConnected'
  BY <1>0, <1>5, <1>6 DEF EventsIn!TypeOK, EventsIn!OldSucceeds, EventsIn!OldFails, EventsIn!Connect, EventsIn!Connected, EventsIn!ConnectFails, EventsIn!Command
<1>7. ASSUME NEW k \in EventsIn!Client, EventsIn!Break(k) \/ EventsIn!CloseCompletes(k) \/ EventsIn!MessageReceived(k) \/ EventsIn!MessageHandled(k)
      PROVE  EventsIn!ActiveIsConnected'
  BY <1>0, <1>5, <1>7 DEF EventsIn!TypeOK, EventsIn!Break, EventsIn!CloseCompletes, EventsIn!MessageReceived, EventsIn!MessageHandled
<1>8. CASE UNCHANGED EventsIn!eventsClientVars
  BY <1>0, <1>5, <1>8 DEF EventsIn!eventsClientVars
<1> QED
  BY <1>1, <1>2, <1>3, <1>4, <1>6, <1>7, <1>8 DEF EventsIn!Next

\* What is asked for on the connection of a uri
Requested(u) ==
    LET k == connections[u] IN
    k # EventsIn!None /\ client[k].status = "open" /\ EventsIn!Commanding(u) = {} /\ EventsIn!Failed(u) = {}
        => heard[k] = EventsIn!Sources(subscriptions, u)

\* A step after which connection, receivers and the sources asked for are as before, and
\* that opens no connection
LEMMA RequestedKept ==
    ASSUME ClientInv, NEW u \in Uri, connections'[u] \in {connections[u], EventsIn!None},
           subscriptions' = subscriptions, heard' = heard,
           \A k \in EventsIn!Client : client'[k].status = "open" => client[k].status = "open",
           \A n \in EventsIn!Client : chain'[n].uri = chain[n].uri,
           \A n \in EventsIn!Client : chain'[n].uri = u /\ chain'[n].at \in {"done", "failed"} =>
               chain[n].at = chain'[n].at \/ chain'[n].at = "failed"
    PROVE  Requested(u)'
<1> SUFFICES ASSUME (connections[u] # EventsIn!None /\ client[connections[u]].status = "open" /\ EventsIn!Commanding(u) = {} /\ EventsIn!Failed(u) = {})'
             PROVE  (heard[connections[u]] = EventsIn!Sources(subscriptions, u))'
  BY DEF Requested
<1>1. connections'[u] = connections[u] /\ connections[u] # EventsIn!None /\ connections[u] \in EventsIn!Client
  BY DEF ClientInv, EventsIn!TypeOK
<1>2. client[connections[u]].status = "open"
  BY <1>1
<1>3. \A n \in EventsIn!Client : chain[n].uri = u => chain'[n].at \in {"done", "failed"} /\ chain'[n].at # "failed"
  BY DEF EventsIn!Commanding, EventsIn!Failed
<1>4. EventsIn!Commanding(u) = {} /\ EventsIn!Failed(u) = {}
  BY <1>3 DEF EventsIn!Commanding, EventsIn!Failed
<1>5. heard[connections[u]] = EventsIn!Sources(subscriptions, u)
  BY <1>1, <1>2, <1>4 DEF ClientInv, EventsIn!SourcesRequested
<1> QED
  BY <1>1, <1>5 DEF EventsIn!Sources, EventsIn!Subscribed

LEMMA SourcesStep ==
    ASSUME ClientParameters, ClientInv, [EventsIn!Next]_(EventsIn!eventsClientVars)
    PROVE  EventsIn!SourcesRequested'
<1> USE ClientFacts DEF EventsIn!locks
<1>0. EventsIn!TypeOK /\ Opened
  BY DEF ClientInv
<1> SUFFICES ASSUME NEW u \in Uri
             PROVE  Requested(u)'
  BY DEF EventsIn!SourcesRequested, Requested
<1>a. ASSUME (connections[u] # EventsIn!None /\ client[connections[u]].status = "open" /\ EventsIn!Commanding(u) = {} /\ EventsIn!Failed(u) = {})'
                 => (heard[connections[u]] = EventsIn!Sources(subscriptions, u))'
      PROVE  Requested(u)'
  BY <1>a DEF Requested
<1>1. ASSUME NEW r \in Receiver, EventsIn!Subscribe(r)
      PROVE  Requested(u)'
  <2> DEFINE p == params[r]
             left == subscriptions[r].uri
             k == connections[u]
  <2> SUFFICES ASSUME (connections[u] # EventsIn!None /\ client[connections[u]].status = "open" /\ EventsIn!Commanding(u) = {} /\ EventsIn!Failed(u) = {})'
               PROVE  (heard[connections[u]] = EventsIn!Sources(subscriptions, u))'
    BY <1>a
  <2>1. /\ subscriptions' = [subscriptions EXCEPT ![r] =
                IF p.enable THEN [uri |-> p.uri, source |-> p.source] ELSE EventsIn!NotSubscribed]
        /\ subscriptions \in [Receiver -> [uri : Uri, source : ClientSource] \cup {EventsIn!NotSubscribed}]
        /\ count \in EventsIn!Client /\ chain[count] = EventsIn!NoChain
    BY <1>0, <1>1, SubscribeFacts DEF EventsIn!TypeOK
  <2>2. ~(p.enable /\ u = p.uri)
    <3>1. ASSUME p.enable, u = p.uri
          PROVE  FALSE
      <4>1. chain'[count].uri = u /\ chain'[count].at \in {"old", "connect", "command"}
        BY <1>1, <3>1, SubscribeClients
      <4> QED
        BY <2>1, <4>1 DEF EventsIn!Commanding
    <3> QED
      BY <3>1
  <2>3. connections'[u] = k /\ k # EventsIn!None /\ k \in EventsIn!Client /\ ~(EventsIn!Leaves(r) /\ u = left /\ ~Stays(r))
    <3>1. ~(Opens(r) /\ u = p.uri)
      BY <2>2 DEF Opens
    <3>2. connections'[u] = IF EventsIn!Leaves(r) /\ u = left /\ ~Stays(r) THEN EventsIn!None ELSE k
      BY <1>1, <3>1, SubscribeFacts
    <3>3. connections'[u] # EventsIn!None
      OBVIOUS
    <3>4. k \in EventsIn!Client \cup {EventsIn!None}
      BY <1>0 DEF EventsIn!TypeOK
    <3> HIDE DEF k
    <3> QED
      BY <3>2, <3>3, <3>4
  <2>4. chain[k].uri = u /\ k # count
    BY <1>0, <2>1, <2>3 DEF Opened, EventsIn!NoChain, ClientParameters
  <2>5. client[k].status = "open"
    BY <1>1, <2>3, <2>4, SubscribeClients DEF EventsIn!Closed
  <2>6. EventsIn!Commanding(u) = {} /\ EventsIn!Failed(u) = {}
    <3>1. ASSUME NEW m \in EventsIn!Client, chain[m].uri = u
          PROVE  chain'[m] = chain[m]
      <4>1. m # count
        BY <2>1, <3>1 DEF EventsIn!NoChain, ClientParameters
      <4> QED
        BY <1>1, <4>1, SubscribeClients
    <3>2. EventsIn!Commanding(u)' = {} /\ EventsIn!Failed(u)' = {}
      OBVIOUS
    <3> QED
      BY <3>1, <3>2 DEF EventsIn!Commanding, EventsIn!Failed
  <2>7. heard[k] = EventsIn!Sources(subscriptions, u)
    BY <2>3, <2>5, <2>6 DEF ClientInv, EventsIn!SourcesRequested
  <2>8. CASE EventsIn!Leaves(r) /\ u = left
    <3>1. k = Old(r) /\ Stays(r)
      BY <2>3, <2>8 DEF Old
    <3>2. heard'[k] = EventsIn!Sources(subscriptions', left)
      BY <1>1, <2>3, <2>5, <3>1, SubscribeClients
    <3> QED
      BY <2>3, <2>8, <3>2 DEF EventsIn!Sources, EventsIn!Subscribed
  <2>9. CASE EventsIn!Leaves(r) /\ u # left
    <3>1. k # Old(r)
      BY <1>1, <2>4, <2>9, SubscribeFacts
    <3>2. heard'[k] = heard[k]
      BY <1>1, <2>3, <3>1, SubscribeClients
    <3>3. subscriptions'[r].uri # u
      BY <2>1, <2>2 DEF EventsIn!NotSubscribed, ClientParameters
    <3>4. EventsIn!Subscribed(subscriptions', u) = EventsIn!Subscribed(subscriptions, u)
          /\ \A q \in EventsIn!Subscribed(subscriptions, u) : subscriptions'[q] = subscriptions[q]
      BY <2>1, <2>9, <3>3 DEF EventsIn!Subscribed
    <3>5. EventsIn!Sources(subscriptions', u) = EventsIn!Sources(subscriptions, u)
      BY <3>4 DEF EventsIn!Sources
    <3> QED
      BY <2>3, <2>7, <3>2, <3>5 DEF EventsIn!Sources, EventsIn!Subscribed
  <2>10. CASE ~EventsIn!Leaves(r)
    <3>1. k # Old(r)
      BY <2>3, <2>10 DEF Old
    <3>2. heard'[k] = heard[k]
      BY <1>1, <2>3, <3>1, SubscribeClients
    <3>3. subscriptions'[r].uri # u
      BY <2>1, <2>2 DEF EventsIn!NotSubscribed, ClientParameters
    <3>4. subscriptions[r].uri # u
      <4>1. ASSUME subscriptions[r].uri = u
            PROVE  FALSE
        <5>1. subscriptions[r] # EventsIn!NotSubscribed
          BY <4>1 DEF EventsIn!NotSubscribed, ClientParameters
        <5>2. connections[u] = EventsIn!None \/ (p.enable /\ p.uri = u)
          BY <2>10, <4>1, <5>1 DEF EventsIn!Leaves
        <5> QED
          BY <2>2, <2>3, <5>2
      <4> QED
        BY <4>1
    <3>5. EventsIn!Subscribed(subscriptions', u) = EventsIn!Subscribed(subscriptions, u)
          /\ \A q \in EventsIn!Subscribed(subscriptions, u) : subscriptions'[q] = subscriptions[q]
      BY <2>1, <3>3, <3>4 DEF EventsIn!Subscribed
    <3>6. EventsIn!Sources(subscriptions', u) = EventsIn!Sources(subscriptions, u)
      BY <3>5 DEF EventsIn!Sources
    <3> QED
      BY <2>3, <2>7, <3>2, <3>6 DEF EventsIn!Sources, EventsIn!Subscribed
  <2> QED
    BY <2>8, <2>9, <2>10
<1>2. ASSUME NEW n \in EventsIn!Client, EventsIn!Command(n)
      PROVE  Requested(u)'
  <2> SUFFICES ASSUME (connections[u] # EventsIn!None /\ client[connections[u]].status = "open" /\ EventsIn!Commanding(u) = {} /\ EventsIn!Failed(u) = {})'
               PROVE  (heard[connections[u]] = EventsIn!Sources(subscriptions, u))'
    BY <1>a
  <2> DEFINE w == chain[n].uri
             k == connections[w]
  <2>1. /\ UNCHANGED <<connections, subscriptions, client>>
        /\ chain[n].at = "command"
    BY <1>2 DEF EventsIn!Command
  <2>2. w \in Uri
    BY <1>0, <2>1 DEF ClientInv, EventsIn!TypeOK, Chains
  <2>3. connections[u] \in EventsIn!Client /\ connections[u] # EventsIn!None /\ client[connections[u]].status = "open"
    BY <1>0, <2>1 DEF EventsIn!TypeOK
  <2>4. EventsIn!Subscribed(subscriptions, u) # {} /\ EventsIn!Sources(subscriptions, u) # {}
    BY <1>0, <2>3 DEF Opened, EventsIn!Sources
  <2>5. CASE w = u
    <3>1. heard' = [heard EXCEPT ![k] = EventsIn!Sources(subscriptions, w)]
      BY <1>2, <2>3, <2>4, <2>5 DEF EventsIn!Command
    <3>2. heard'[connections[u]] = EventsIn!Sources(subscriptions, u)
      BY <1>0, <2>3, <2>5, <3>1 DEF EventsIn!TypeOK
    <3> QED
      BY <2>1, <3>2 DEF EventsIn!Sources, EventsIn!Subscribed
  <2>6. CASE w # u
    <3>1. connections[u] # k
      BY <1>0, <2>2, <2>3, <2>6, OneUri
    <3>2. heard'[connections[u]] = heard[connections[u]]
      BY <1>0, <1>2, <2>3, <3>1 DEF EventsIn!Command, EventsIn!TypeOK
    <3>3. \A m \in EventsIn!Client \ {n} : chain'[m] = chain[m]
      BY <1>0, <1>2 DEF EventsIn!Command, EventsIn!To, EventsIn!TypeOK
    <3>4. EventsIn!Commanding(u) = {} /\ EventsIn!Failed(u) = {}
      BY <2>6, <3>3 DEF EventsIn!Commanding, EventsIn!Failed
    <3>5. heard[connections[u]] = EventsIn!Sources(subscriptions, u)
      BY <2>3, <3>4 DEF ClientInv, EventsIn!SourcesRequested
    <3> QED
      BY <2>1, <3>2, <3>5 DEF EventsIn!Sources, EventsIn!Subscribed
  <2> QED
    BY <2>5, <2>6
<1>3. ASSUME NEW n \in EventsIn!Client, EventsIn!Connected(n)
      PROVE  Requested(u)'
  <2> SUFFICES ASSUME (connections[u] # EventsIn!None /\ client[connections[u]].status = "open" /\ EventsIn!Commanding(u) = {} /\ EventsIn!Failed(u) = {})'
               PROVE  (heard[connections[u]] = EventsIn!Sources(subscriptions, u))'
    BY <1>a
  <2>1. UNCHANGED <<connections, subscriptions, heard>>
    BY <1>3 DEF EventsIn!Connected
  <2>2. chain'[n].at = "command" /\ \A m \in EventsIn!Client : chain'[m].uri = chain[m].uri /\ (m # n => chain'[m] = chain[m])
    BY <1>0, <1>3 DEF EventsIn!Connected, EventsIn!To, EventsIn!TypeOK
  <2>3. chain[n].uri # u
    BY <2>2 DEF EventsIn!Commanding
  <2>4. connections[u] \in EventsIn!Client /\ connections[u] # n
    BY <1>0, <2>1, <2>3 DEF Opened, EventsIn!TypeOK
  <2>5. client[connections[u]].status = "open"
    BY <1>0, <1>3, <2>1, <2>4 DEF EventsIn!Connected, EventsIn!TypeOK
  <2>6. EventsIn!Commanding(u) = {} /\ EventsIn!Failed(u) = {}
    BY <2>2, <2>3 DEF EventsIn!Commanding, EventsIn!Failed
  <2>7. heard[connections[u]] = EventsIn!Sources(subscriptions, u)
    BY <2>1, <2>5, <2>6 DEF ClientInv, EventsIn!SourcesRequested
  <2> QED
    BY <2>1, <2>7 DEF EventsIn!Sources, EventsIn!Subscribed
<1>4. ASSUME NEW n \in EventsIn!Client, EventsIn!OldSucceeds(n)
      PROVE  Requested(u)'
  <2>1. UNCHANGED <<connections, subscriptions, heard, client>>
    BY <1>4 DEF EventsIn!OldSucceeds
  <2>2. \A m \in EventsIn!Client : chain'[m].uri = chain[m].uri /\ (m # n => chain'[m] = chain[m])
    BY <1>0, <1>4 DEF EventsIn!OldSucceeds, EventsIn!To, EventsIn!TypeOK
  <2>3. chain[n].uri = u => chain'[n].at \in {"connect", "command"}
    BY <1>0, <1>4 DEF EventsIn!OldSucceeds, EventsIn!To, EventsIn!TypeOK, ClientParameters
  <2> QED
    BY <2>1, <2>2, <2>3, RequestedKept
<1>5. ASSUME NEW n \in EventsIn!Client, EventsIn!OldFails(n) \/ EventsIn!Connect(n) \/ EventsIn!ConnectFails(n)
      PROVE  Requested(u)'
  <2>1. UNCHANGED <<connections, subscriptions, heard>>
    BY <1>5 DEF EventsIn!OldFails, EventsIn!Connect, EventsIn!ConnectFails
  <2>2. \A m \in EventsIn!Client : chain'[m].uri = chain[m].uri /\ (m # n => chain'[m] = chain[m])
    BY <1>0, <1>5 DEF EventsIn!OldFails, EventsIn!Connect, EventsIn!ConnectFails, EventsIn!To, EventsIn!TypeOK
  <2>3. chain'[n].at \in {"connecting", "failed"}
    BY <1>0, <1>5 DEF EventsIn!OldFails, EventsIn!Connect, EventsIn!ConnectFails, EventsIn!To, EventsIn!TypeOK
  <2>4. \A k \in EventsIn!Client : client'[k].status = "open" => client[k].status = "open"
    BY <1>0, <1>5 DEF EventsIn!OldFails, EventsIn!Connect, EventsIn!ConnectFails, EventsIn!TypeOK
  <2> QED
    BY <2>1, <2>2, <2>3, <2>4, RequestedKept
<1>6. ASSUME NEW k \in EventsIn!Client, EventsIn!Break(k) \/ EventsIn!CloseCompletes(k)
      PROVE  Requested(u)'
  <2>1. UNCHANGED <<connections, subscriptions, heard, chain>>
    BY <1>6 DEF EventsIn!Break, EventsIn!CloseCompletes
  <2>2. \A j \in EventsIn!Client : client'[j].status = "open" => client[j].status = "open"
    BY <1>0, <1>6 DEF EventsIn!Break, EventsIn!CloseCompletes, EventsIn!TypeOK
  <2> QED
    BY <2>1, <2>2, RequestedKept
<1>7. ASSUME NEW k \in EventsIn!Client, EventsIn!CloseHandler(k)
      PROVE  Requested(u)'
  <2>1. UNCHANGED <<subscriptions, heard, chain>> /\ connections'[u] \in {connections[u], EventsIn!None}
    BY <1>0, <1>7 DEF EventsIn!CloseHandler, EventsIn!TypeOK
  <2>2. \A j \in EventsIn!Client : client'[j].status = "open" => client[j].status = "open"
    BY <1>0, <1>7 DEF EventsIn!CloseHandler, EventsIn!TypeOK, EventsIn!Closed
  <2> QED
    BY <2>1, <2>2, RequestedKept
<1>8. CASE UNCHANGED <<connections, subscriptions, heard, chain, client>>
  BY <1>8, RequestedKept
<1>9. ASSUME NEW k \in EventsIn!Client, EventsIn!MessageReceived(k) \/ EventsIn!MessageHandled(k) \/ EventsIn!UserClose(k)
      PROVE  UNCHANGED <<connections, subscriptions, heard, chain, client>>
  BY <1>9 DEF EventsIn!MessageReceived, EventsIn!MessageHandled, EventsIn!UserClose
<1>10. ASSUME NEW r \in Receiver, NEW p \in EventsIn!Params, EventsIn!Activate(r, p)
       PROVE  UNCHANGED <<connections, subscriptions, heard, chain, client>>
  BY <1>10 DEF EventsIn!Activate
<1> QED
  BY <1>1, <1>2, <1>3, <1>4, <1>5, <1>6, <1>7, <1>8, <1>9, <1>10 DEF EventsIn!Next, EventsIn!eventsClientVars

-----------------------------------------------------------------------------
(* The theorems *)

LEMMA ClientInvInit ==
    ASSUME ClientParameters, EventsIn!Init
    PROVE  ClientInv
<1> USE DEF EventsIn!Init
<1>1. \A n \in EventsIn!Client : n # 0 /\ n \in Nat
  BY ClientFacts DEF EventsIn!None
<1>2. EventsIn!TypeOK
  BY <1>1, ClientFacts DEF EventsIn!TypeOK, EventsIn!Params, EventsIn!NoChain, ClientParameters, EventsIn!None
<1>3. Chains /\ Once /\ Opened /\ EventsIn!ActiveIsConnected
  BY <1>1 DEF Chains, EventsIn!NoChain, Unmade, Once, Opened, EventsIn!ActiveIsConnected, EventsIn!Off, EventsIn!Idle
<1>4. EventsIn!SourcesRequested
  BY DEF EventsIn!SourcesRequested
<1> QED
  BY <1>2, <1>3, <1>4 DEF ClientInv

LEMMA ClientInvStep ==
    ASSUME ClientParameters, ClientInv, [EventsIn!Next]_(EventsIn!eventsClientVars)
    PROVE  ClientInv'
BY TypeStep, ChainsStep, OnceStep, OpenedStep, ActiveStep, SourcesStep DEF ClientInv

\* Every variable keeps its type: in particular the close handler that holds the client's
\* mutex is alone, and has no message handler beside it.
THEOREM ClientTypeCorrect ==
    ASSUME ClientParameters
    PROVE  EventsIn!Spec => []EventsIn!TypeOK
<1>1. EventsIn!Init => ClientInv
  BY ClientInvInit
<1>2. ClientInv /\ [EventsIn!Next]_(EventsIn!eventsClientVars) => ClientInv'
  BY ClientInvStep
<1>3. ClientInv => EventsIn!TypeOK
  BY DEF ClientInv
<1> QED
  BY <1>1, <1>2, <1>3, PTL DEF EventsIn!Spec

\* A receiver that is active is subscribed to what its parameters say and has a connection,
\* or is just being deactivated; and the sources asked for last on a connection are those
\* its receivers are subscribed to, when no task is outstanding or has failed.
THEOREM SourcesRequestedHolds ==
    ASSUME ClientParameters
    PROVE  EventsIn!Spec => [](EventsIn!ActiveIsConnected /\ EventsIn!SourcesRequested)
<1>1. EventsIn!Init => ClientInv
  BY ClientInvInit
<1>2. ClientInv /\ [EventsIn!Next]_(EventsIn!eventsClientVars) => ClientInv'
  BY ClientInvStep
<1>3. ClientInv => EventsIn!ActiveIsConnected /\ EventsIn!SourcesRequested
  BY DEF ClientInv
<1> QED
  BY <1>1, <1>2, <1>3, PTL DEF EventsIn!Spec

-----------------------------------------------------------------------------
(* EventsServer *)

CONSTANTS Source, Connection, Health, Interval, EventsMaxNow, MaxState, MaxCommands, MaxBeats

VARIABLES enabled, wire, notice, entries, grain, updated, notified, outgoing, wake, expiry, sent,
          received, overtaken

EventsOut == INSTANCE EventsServer WITH MaxNow <- EventsMaxNow

\* What a command asks for is put into a sequence; health messages are about no source.
ServerParameters ==
    /\ IsFiniteSet(Source) /\ Health \notin Source
    /\ Interval \in Nat /\ EventsMaxNow \in Nat /\ MaxState \in Nat /\ MaxCommands \in Nat /\ MaxBeats \in Nat

\* A connection that is still to be made has nothing.
Fresh ==
    \A c \in Connection : wire[c] = "none" =>
        /\ c \notin entries /\ ~grain[c].there
        /\ outgoing[c] = <<>> /\ sent[c][Health] = 0 /\ asked[c] = 0

ServerInv == EventsOut!TypeOK /\ Fresh /\ EventsOut!ExpiredIsClosed

\* The modules that are instantiated have these operators under names of their own.
LEMMA SameOperators ==
    /\ \A S : EventsOut!Cardinality(S) = Cardinality(S)
    /\ \A S : Facts!IsFiniteSet(S) = IsFiniteSet(S)
    /\ \A S : EventsOut!SetToSeq(S) = Facts!SetToSeq(S)
    /\ \A S : EventsOut!Min(S) = CHOOSE x \in S : \A y \in S : x <= y
<1>1. \A S : EventsOut!Cardinality(S) = Cardinality(S)
  BY DEF EventsOut!Cardinality, Cardinality
<1>2. \A S : EventsOut!SetToSeq(S) = Facts!SetToSeq(S)
  <2>1. \A S : Facts!Cardinality(S) = Cardinality(S)
    BY DEF Facts!Cardinality, Cardinality
  <2> QED
    BY <1>1, <2>1 DEF EventsOut!SetToSeq, Facts!SetToSeq, EventsOut!IsInjective, Facts!IsInjective
<1>3. \A S : EventsOut!Min(S) = CHOOSE x \in S : \A y \in S : x <= y
  BY DEF EventsOut!Min
<1>4. \A S : Facts!IsFiniteSet(S) = IsFiniteSet(S)
  BY DEF Facts!IsFiniteSet, IsFiniteSet
<1> QED
  BY <1>1, <1>2, <1>3, <1>4

-----------------------------------------------------------------------------
(* Queues of messages *)

Where(q, x) == {n \in DOMAIN q : q[n][1] = x}

\* The state of a source that a queue tells last, or v
Tells(q, s, v) ==
    IF Where(q, s) = {} THEN v
    ELSE LET latest == CHOOSE n \in Where(q, s) : \A m \in Where(q, s) : m <= n IN q[latest][2]

LEMMA WhereFacts ==
    ASSUME NEW q \in Seq(EventsOut!Event), NEW x
    PROVE  /\ Where(q, x) \in SUBSET (1..Len(q)) /\ IsFiniteSet(Where(q, x))
           /\ Cardinality(Where(q, x)) \in Nat
<1>1. Len(q) \in Nat /\ DOMAIN q = 1..Len(q)
  OBVIOUS
<1>2. Where(q, x) \in SUBSET (1..Len(q))
  BY <1>1 DEF Where
<1>3. IsFiniteSet(1..Len(q))
  BY <1>1, FS_Interval
<1> QED
  BY <1>2, <1>3, FS_Subset, FS_CardinalityType

\* Tells, without a choice
LEMMA TellsFacts ==
    ASSUME NEW q \in Seq(EventsOut!Event), NEW s, NEW v
    PROVE  /\ Where(q, s) = {} => Tells(q, s, v) = v
           /\ \A n \in Where(q, s) : (\A m \in Where(q, s) : m <= n) => Tells(q, s, v) = q[n][2]
           /\ Where(q, s) # {} => \E n \in Where(q, s) : \A m \in Where(q, s) : m <= n
<1> DEFINE W == Where(q, s)
           latest == CHOOSE n \in W : \A m \in W : m <= n
<1>1. Tells(q, s, v) = IF W = {} THEN v ELSE q[latest][2]
  BY DEF Tells
<1>2. W \in SUBSET (0..Len(q)) /\ W \in SUBSET Nat /\ Len(q) \in Nat
  BY WhereFacts
<1> HIDE DEF W
<1>3. W # {} => \E n \in W : \A m \in W : m <= n
  BY <1>2, Facts!NatMax
<1>4. ASSUME NEW n \in W, \A m \in W : m <= n
      PROVE  latest = n
  <2>1. latest \in W /\ \A m \in W : m <= latest
    BY <1>4
  <2> HIDE DEF latest
  <2>2. latest \in Nat /\ n \in Nat /\ latest <= n /\ n <= latest
    BY <1>2, <1>4, <2>1
  <2> QED
    BY <2>2
<1> HIDE DEF latest
<1> QED
  BY <1>1, <1>3, <1>4 DEF W

\* Numbers of messages: of two queues, one after the other
LEMMA CountConcat ==
    ASSUME NEW p \in Seq(EventsOut!Event), NEW q \in Seq(EventsOut!Event), NEW x
    PROVE  Cardinality(Where(p \o q, x)) = Cardinality(Where(p, x)) + Cardinality(Where(q, x))
<1> DEFINE k == Len(p)
           P == Where(p, x)
           Q == Where(q, x)
           R == {n + k : n \in Q}
<1>1. k \in Nat /\ P \in SUBSET (1..k) /\ Q \in SUBSET (1..Len(q)) /\ Len(q) \in Nat
  BY WhereFacts
<1>2. IsFiniteSet(P) /\ IsFiniteSet(Q) /\ Cardinality(P) \in Nat /\ Cardinality(Q) \in Nat
  BY WhereFacts
<1>3. Where(p \o q, x) = P \cup R
  <2>1. ASSUME NEW n \in Where(p \o q, x)
        PROVE  n \in P \cup R
    <3>1. n \in 1..(k + Len(q)) /\ (p \o q)[n][1] = x
      BY <2>1 DEF Where
    <3>2. CASE n <= k
      BY <1>1, <3>1, <3>2 DEF Where
    <3>3. CASE n > k
      <4>1. n - k \in 1..Len(q) /\ q[n - k][1] = x /\ n = (n - k) + k
        BY <1>1, <3>1, <3>3
      <4>2. n - k \in Q
        BY <4>1 DEF Where
      <4> QED
        BY <4>1, <4>2
    <3> QED
      BY <1>1, <3>1, <3>2, <3>3
  <2>2. ASSUME NEW n \in P
        PROVE  n \in Where(p \o q, x)
    BY <1>1, <2>2 DEF Where
  <2>3. ASSUME NEW n \in Q
        PROVE  n + k \in Where(p \o q, x)
    <3>1. n \in 1..Len(q) /\ q[n][1] = x
      BY <2>3 DEF Where
    <3>2. n + k \in 1..(k + Len(q)) /\ (p \o q)[n + k] = q[n]
      BY <1>1, <3>1
    <3> QED
      BY <3>1, <3>2 DEF Where
  <2> QED
    BY <2>1, <2>2, <2>3
<1> DEFINE f == [n \in Q |-> n + k]
<1>4. IsFiniteSet(R) /\ Cardinality(R) = Cardinality(Q)
  <2>1. \A n \in Q : n \in Nat
    BY <1>1
  <2>2. f \in Bijection(Q, R)
    <3>1. f \in [Q -> R] /\ \A m, n \in Q : f[m] = f[n] => m = n
      BY <1>1, <2>1
    <3>2. \A r \in R : \E n \in Q : f[n] = r
      OBVIOUS
    <3> HIDE DEF f, R, Q
    <3> QED
      BY <3>1, <3>2, Fun_IsBij
  <2> HIDE DEF f, R, Q
  <2> QED
    BY <1>2, <2>2, FS_Bijection DEF ExistsBijection
<1>5. P \cap R = {}
  BY <1>1
<1> HIDE DEF P, Q, R
<1>6. Cardinality(P \cup R) = Cardinality(P) + Cardinality(R)
  <2>1. Cardinality(P \cup R) = Cardinality(P) + Cardinality(R) - Cardinality(P \cap R)
    BY <1>2, <1>4, FS_Union
  <2>2. Cardinality(P \cap R) = 0
    BY <1>5, FS_EmptySet
  <2> QED
    BY <1>2, <1>4, <2>1, <2>2
<1> QED
  BY <1>3, <1>4, <1>6 DEF P, Q

\* Both, of a queue with one message
LEMMA SingleFacts ==
    ASSUME NEW e \in EventsOut!Event, NEW x, NEW v
    PROVE  /\ <<e>> \in Seq(EventsOut!Event)
           /\ Cardinality(Where(<<e>>, x)) = IF e[1] = x THEN 1 ELSE 0
           /\ Tells(<<e>>, x, v) = IF e[1] = x THEN e[2] ELSE v
<1>1. <<e>> \in Seq(EventsOut!Event) /\ DOMAIN <<e>> = {1} /\ <<e>>[1] = e
  OBVIOUS
<1>2. CASE e[1] = x
  <2>1. Where(<<e>>, x) = {1}
    BY <1>1, <1>2 DEF Where
  <2>2. Cardinality({1}) = 1
    BY FS_Singleton
  <2>3. Tells(<<e>>, x, v) = <<e>>[1][2]
    <3>1. 1 \in Where(<<e>>, x) /\ \A m \in Where(<<e>>, x) : m <= 1
      BY <2>1
    <3> QED
      BY <1>1, <3>1, TellsFacts
  <2> QED
    BY <1>1, <1>2, <2>1, <2>2, <2>3
<1>3. CASE e[1] # x
  <2>1. Where(<<e>>, x) = {}
    BY <1>1, <1>3 DEF Where
  <2>2. Cardinality({}) = 0
    BY FS_EmptySet
  <2> QED
    BY <1>1, <1>3, <2>1, <2>2, TellsFacts
<1> QED
  BY <1>2, <1>3

\* What two queues tell, one after the other: what the second tells, and otherwise
\* what the first does
LEMMA TellsConcat ==
    ASSUME NEW p \in Seq(EventsOut!Event), NEW q \in Seq(EventsOut!Event), NEW s, NEW v
    PROVE  Tells(p \o q, s, v) = Tells(q, s, Tells(p, s, v))
<1> DEFINE k == Len(p)
<1>1. k \in Nat /\ Len(q) \in Nat /\ p \o q \in Seq(EventsOut!Event)
  OBVIOUS
<1>2. Where(p, s) \in SUBSET (1..k) /\ Where(q, s) \in SUBSET (1..Len(q))
  BY WhereFacts
<1>3. \A n \in Where(p \o q, s) : n \in Where(p, s) \/ (n > k /\ n \in Nat /\ n - k \in Where(q, s))
  <2> TAKE n \in Where(p \o q, s)
  <2>1. n \in 1..(k + Len(q)) /\ (p \o q)[n][1] = s
    BY DEF Where
  <2>2. CASE n <= k
    BY <1>1, <2>1, <2>2 DEF Where
  <2>3. CASE n > k
    <3>1. n - k \in 1..Len(q) /\ q[n - k][1] = s
      BY <1>1, <2>1, <2>3
    <3> QED
      BY <2>1, <2>3, <3>1 DEF Where
  <2> QED
    BY <1>1, <2>1, <2>2, <2>3
<1>4. \A n \in Where(p, s) : n \in Where(p \o q, s) /\ (p \o q)[n] = p[n]
  BY <1>1, <1>2 DEF Where
<1>5. \A n \in Where(q, s) : n + k \in Where(p \o q, s) /\ (p \o q)[n + k] = q[n]
  <2> TAKE n \in Where(q, s)
  <2>1. n \in 1..Len(q) /\ q[n][1] = s
    BY DEF Where
  <2>2. n + k \in 1..(k + Len(q)) /\ (p \o q)[n + k] = q[n]
    BY <1>1, <2>1
  <2> QED
    BY <2>1, <2>2 DEF Where
<1> DEFINE w == Tells(p, s, v)
<1> HIDE DEF k, w
<1>6. CASE Where(q, s) # {}
  <2>1. PICK n \in Where(q, s) : \A m \in Where(q, s) : m <= n
    BY <1>6, TellsFacts
  <2>2. Tells(q, s, w) = q[n][2]
    BY <2>1, TellsFacts
  <2>3. \A m \in Where(p \o q, s) : m <= n + k
    BY <1>1, <1>2, <1>3, <2>1
  <2>4. Tells(p \o q, s, v) = (p \o q)[n + k][2]
    BY <1>1, <1>5, <2>3, TellsFacts
  <2> QED
    BY <1>5, <2>2, <2>4 DEF w
<1>7. CASE Where(q, s) = {} /\ Where(p, s) # {}
  <2>1. PICK n \in Where(p, s) : \A m \in Where(p, s) : m <= n
    BY <1>7, TellsFacts
  <2>2. Tells(q, s, w) = w /\ w = p[n][2]
    BY <1>7, <2>1, TellsFacts DEF w
  <2>3. \A m \in Where(p \o q, s) : m <= n
    BY <1>3, <1>7, <2>1
  <2>4. n \in Where(p \o q, s)
    BY <1>4
  <2>5. Tells(p \o q, s, v) = (p \o q)[n][2]
    BY <1>1, <2>3, <2>4, TellsFacts
  <2> QED
    BY <1>4, <2>2, <2>5 DEF w
<1>8. CASE Where(q, s) = {} /\ Where(p, s) = {}
  <2>1. Where(p \o q, s) = {}
    BY <1>3, <1>8
  <2>2. Tells(p \o q, s, v) = v
    BY <1>1, <2>1, TellsFacts
  <2>3. Tells(q, s, w) = w /\ w = v
    BY <1>8, TellsFacts DEF w
  <2> QED
    BY <2>2, <2>3 DEF w
<1> QED
  BY <1>6, <1>7, <1>8

\* The messages that answer a subscription command: one about each source, with its state
LEMMA SyncFacts ==
    ASSUME ServerParameters, EventsOut!TypeOK, NEW sources \in SUBSET Source
    PROVE  /\ EventsOut!Sync(sources) \in Seq(EventsOut!Event)
           /\ \A s \in sources : \A v : Tells(EventsOut!Sync(sources), s, v) = state[s]
           /\ Cardinality(Where(EventsOut!Sync(sources), Health)) = 0
<1> DEFINE S == {<<s, state[s]>> : s \in sources}
           q == Facts!SetToSeq(S)
<1>1. EventsOut!Sync(sources) = q
  BY SameOperators DEF EventsOut!Sync
<1>2. S \in SUBSET EventsOut!Event /\ \A e \in S : e[1] \in sources /\ e[2] = state[e[1]]
  BY DEF EventsOut!TypeOK, EventsOut!Event
<1>3. IsFiniteSet(S)
  <2>1. IsFiniteSet(sources)
    BY FS_Subset DEF ServerParameters
  <2> DEFINE f == [s \in sources |-> <<s, state[s]>>]
  <2>2. f \in Surjection(sources, S)
    <3>1. f \in [sources -> S] /\ \A e \in S : \E s \in sources : f[s] = e
      OBVIOUS
    <3> HIDE DEF f, S
    <3> QED
      BY <3>1, Fun_IsSurj
  <2> HIDE DEF f, S
  <2> QED
    BY <2>1, <2>2, FS_Surjection
<1>4. q \in Seq(S) /\ DOMAIN q = 1..Len(q) /\ \A n \in DOMAIN q : q[n] \in S
  BY <1>3, SameOperators, Facts!SetToSeqFacts
<1>5. \A e \in S : \E n \in DOMAIN q : q[n] = e
  BY <1>3, SameOperators, Facts!SetToSeqFacts
<1>6. \A s \in sources : <<s, state[s]>> \in S
  OBVIOUS
<1> HIDE DEF q, S
<1>7. q \in Seq(EventsOut!Event)
  BY <1>2, <1>4
<1>8. ASSUME NEW s \in sources, NEW v
      PROVE  Tells(q, s, v) = state[s]
  <2>1. PICK n \in DOMAIN q : q[n] = <<s, state[s]>>
    BY <1>5, <1>6
  <2>2. Where(q, s) # {}
    BY <2>1 DEF Where
  <2>3. PICK m \in Where(q, s) : \A i \in Where(q, s) : i <= m
    BY <1>7, <2>2, TellsFacts
  <2>4. Tells(q, s, v) = q[m][2] /\ m \in DOMAIN q /\ q[m][1] = s
    BY <1>7, <2>3, TellsFacts DEF Where
  <2> QED
    BY <1>2, <1>4, <2>4
<1>9. Cardinality(Where(q, Health)) = 0
  <2>1. Where(q, Health) = {}
    BY <1>2, <1>4 DEF Where, ServerParameters
  <2> QED
    BY <2>1, FS_EmptySet
<1> QED
  BY <1>1, <1>7, <1>8, <1>9

-----------------------------------------------------------------------------
(* Every step keeps the invariant *)

\* The least health of some connections is a time that has been.
LEMMA LeastFacts ==
    ASSUME EventsOut!TypeOK, NEW S \in SUBSET Connection, S # {}
    PROVE  EventsOut!Min({grain[c].health : c \in S}) \in 0..now
<1> DEFINE H == {grain[c].health : c \in S}
<1>1. H \in SUBSET (0..now) /\ H # {} /\ now \in Nat
  BY DEF EventsOut!TypeOK
<1>2. EventsOut!Min(H) = CHOOSE x \in H : \A y \in H : x <= y
  BY SameOperators
<1> HIDE DEF H
<1>3. \E x \in H : \A y \in H : x <= y
  BY <1>1, Facts!NatMin
<1>4. EventsOut!Min(H) \in H
  BY <1>2, <1>3
<1> QED
  BY <1>1, <1>4 DEF H

LEMMA ServerInit ==
    ASSUME ServerParameters, EventsOut!Init
    PROVE  ServerInv /\ EventsOut!FeedCurrent
<1>1. EventsOut!TypeOK
  <2>1. sent \in [Connection -> [Source \cup {Health} -> Int]]
    BY DEF EventsOut!Init, EventsOut!Untold
  <2>2. grain \in [Connection -> [there : BOOLEAN, sources : SUBSET Source, health : 0..now, events : Seq(EventsOut!Event)]]
    BY DEF EventsOut!Init, EventsOut!NoGrain
  <2>3. /\ state \in [Source -> 0..MaxState]
        /\ outgoing \in [Connection -> Seq(EventsOut!Event)]
        /\ received \in [Connection -> 0..MaxCommands] /\ asked \in [Connection -> 0..MaxBeats]
        /\ now \in 0..EventsMaxNow /\ wake \in 0..now
    BY DEF ServerParameters, EventsOut!Init
  <2> QED
    BY <2>1, <2>2, <2>3 DEF EventsOut!Init, EventsOut!TypeOK
<1>2. Fresh
  BY DEF ServerParameters, EventsOut!Init, Fresh, EventsOut!NoGrain
<1>3. EventsOut!ExpiredIsClosed
  BY DEF EventsOut!Init, EventsOut!ExpiredIsClosed, EventsOut!NoGrain
<1>4. EventsOut!FeedCurrent
  BY DEF EventsOut!Init, EventsOut!FeedCurrent, EventsOut!Connected, EventsOut!NoGrain
<1> QED
  BY <1>1, <1>2, <1>3, <1>4 DEF ServerInv

LEMMA ServerTyped ==
    ASSUME ServerParameters, ServerInv, EventsOut!Next
    PROVE  EventsOut!TypeOK'
<1> DEFINE G(n) == [there : BOOLEAN, sources : SUBSET Source, health : 0..n, events : Seq(EventsOut!Event)]
<1>1. EventsOut!TypeOK
  BY DEF ServerInv
<1>2. now \in Nat /\ wake \in 0..now /\ grain \in [Connection -> G(now)] /\ EventsOut!NoGrain \in G(now)
  BY <1>1 DEF EventsOut!TypeOK, EventsOut!NoGrain, ServerParameters
<1>3. <<Health, 0>> \in EventsOut!Event /\ <<>> \in Seq(EventsOut!Event)
  BY DEF EventsOut!Event
<1> DEFINE At(g, t) == [g EXCEPT !.health = t]
<1>4. ASSUME NEW g \in G(now), NEW t \in 0..now
       PROVE  At(g, t) \in G(now)
  OBVIOUS
<1>5. now \in 0..now
  BY <1>2
<1> USE DEF ServerParameters
<1>6. ASSUME NEW c \in Connection, EventsOut!Open(c)
      PROVE  EventsOut!TypeOK'
  <2>1. grain' \in [Connection -> G(now)']
    <3>1. [EventsOut!NoGrain EXCEPT !.there = TRUE, !.health = now] \in G(now)
      <4>1. [EventsOut!NoGrain EXCEPT !.there = TRUE] \in G(now)
        BY <1>2 DEF EventsOut!NoGrain
      <4>2. [[EventsOut!NoGrain EXCEPT !.there = TRUE] EXCEPT !.health = now] \in G(now)
        BY <1>4, <1>5, <4>1
      <4>3. [EventsOut!NoGrain EXCEPT !.there = TRUE, !.health = now] = [[EventsOut!NoGrain EXCEPT !.there = TRUE] EXCEPT !.health = now]
        BY DEF EventsOut!NoGrain
      <4> QED
        BY <4>2, <4>3
    <3> QED
      BY <1>2, <1>6, <3>1 DEF EventsOut!Open
  <2> QED
    BY <1>1, <1>6, <2>1 DEF EventsOut!TypeOK, EventsOut!Open, EventsOut!Notify, EventsOut!world, EventsOut!history
<1>7. ASSUME NEW c \in Connection, EventsOut!Disconnect(c)
      PROVE  EventsOut!TypeOK'
  <2>1. wire' \in [Connection -> {"none", "open", "closed"}] /\ wire'[c] = "closed"
    BY <1>1, <1>7 DEF EventsOut!TypeOK, EventsOut!Disconnect
  <2>2. notice' \subseteq {d \in Connection : wire'[d] = "closed"}
    BY <1>1, <1>7, <2>1 DEF EventsOut!TypeOK, EventsOut!Disconnect
  <2> QED
    BY <1>1, <1>7, <2>1, <2>2 DEF EventsOut!TypeOK, EventsOut!Disconnect, EventsOut!world, EventsOut!model, EventsOut!history
<1>8. ASSUME NEW c \in Connection, EventsOut!Close(c)
      PROVE  EventsOut!TypeOK'
  <2>1. grain' \in [Connection -> G(now)']
    BY <1>2, <1>8 DEF EventsOut!Close, EventsOut!model
  <2> QED
    BY <1>1, <1>8, <2>1 DEF EventsOut!TypeOK, EventsOut!Close, EventsOut!world, EventsOut!model, EventsOut!history
<1>9. ASSUME NEW c \in Connection, EventsOut!HealthCommand(c)
      PROVE  EventsOut!TypeOK'
  <2>1. Append(grain[c].events, <<Health, 0>>) \in Seq(EventsOut!Event)
    BY <1>2, <1>3
  <2>2. grain' \in [Connection -> G(now)']
    <3>1. [grain[c] EXCEPT !.health = now] \in G(now)
      BY <1>2, <1>4, <1>5
    <3>2. [grain[c] EXCEPT !.health = now, !.events = Append(@, <<Health, 0>>)] \in G(now)
      BY <1>2, <2>1, <3>1
    <3> QED
      BY <1>2, <1>9, <3>2 DEF EventsOut!HealthCommand
  <2>3. asked' \in [Connection -> 0..MaxBeats]
    BY <1>1, <1>9 DEF EventsOut!HealthCommand, EventsOut!TypeOK
  <2> QED
    BY <1>1, <1>9, <2>2, <2>3 DEF EventsOut!TypeOK, EventsOut!HealthCommand, EventsOut!Notify, EventsOut!world
<1>10. ASSUME NEW c \in Connection, EventsOut!Send(c)
      PROVE  EventsOut!TypeOK'
  <2>1. outgoing[c] \in Seq(EventsOut!Event) /\ outgoing[c] # <<>>
    BY <1>1, <1>10 DEF EventsOut!TypeOK, EventsOut!Send
  <2>2. Head(outgoing[c]) \in EventsOut!Event /\ Tail(outgoing[c]) \in Seq(EventsOut!Event)
    BY <2>1
  <2>3. outgoing' \in [Connection -> Seq(EventsOut!Event)]
    BY <1>1, <1>10, <2>2 DEF EventsOut!TypeOK, EventsOut!Send
  <2>4. sent' \in [Connection -> [Source \cup {Health} -> Int]]
    <3> DEFINE about == Head(outgoing[c])[1]
               view == IF about = Health THEN sent[c][Health] + 1 ELSE Head(outgoing[c])[2]
    <3>1. about \in Source \cup {Health} /\ Head(outgoing[c])[2] \in Int
      BY <2>2 DEF EventsOut!Event
    <3>2. sent[c] \in [Source \cup {Health} -> Int] /\ sent[c][Health] \in Int
      <4>1. sent[c] \in [Source \cup {Health} -> Int]
        BY <1>1 DEF EventsOut!TypeOK
      <4> QED
        BY <4>1
    <3>3. view \in Int
      BY <3>1, <3>2
    <3>4. sent' = IF wire[c] = "open" THEN [sent EXCEPT ![c] = [@ EXCEPT ![about] = view]] ELSE sent
      BY <1>10 DEF EventsOut!Send
    <3>5. sent \in [Connection -> [Source \cup {Health} -> Int]]
      BY <1>1 DEF EventsOut!TypeOK
    <3> HIDE DEF about, view
    <3>6. [sent[c] EXCEPT ![about] = view] \in [Source \cup {Health} -> Int]
      BY <3>1, <3>2, <3>3
    <3> QED
      BY <3>4, <3>5, <3>6
  <2> QED
    BY <1>1, <1>10, <2>3, <2>4 DEF EventsOut!TypeOK, EventsOut!Send, EventsOut!world, EventsOut!model
<1>11. ASSUME NEW c \in Connection, NEW sources \in SUBSET Source, EventsOut!SubscriptionCommand(c, sources)
      PROVE  EventsOut!TypeOK'
  <2>1. EventsOut!Resynced(c, sources) \in Seq(EventsOut!Event)
    BY <1>1, <1>2, SyncFacts DEF EventsOut!Resynced
  <2>2. grain' \in [Connection -> G(now)']
    BY <1>2, <1>11, <2>1 DEF EventsOut!SubscriptionCommand
  <2>3. received' \in [Connection -> 0..MaxCommands]
    BY <1>1, <1>11 DEF EventsOut!SubscriptionCommand, EventsOut!TypeOK
  <2>4. overtaken' \in [Connection -> SUBSET Source]
    BY <1>1, <1>11 DEF EventsOut!SubscriptionCommand, EventsOut!TypeOK
  <2> QED
    BY <1>1, <1>11, <2>2, <2>3, <2>4 DEF EventsOut!TypeOK, EventsOut!SubscriptionCommand, EventsOut!Notify, EventsOut!world
<1>12. ASSUME NEW s \in Source, EventsOut!Change(s)
       PROVE  EventsOut!TypeOK'
  <2>1. state[s] + 1 \in 0..MaxState /\ state' \in [Source -> 0..MaxState]
    BY <1>1, <1>12 DEF EventsOut!Change, EventsOut!TypeOK
  <2>2. <<s, state[s] + 1>> \in EventsOut!Event
    BY <2>1 DEF EventsOut!Event
  <2>3. \A c \in Connection : Append(grain[c].events, <<s, state[s] + 1>>) \in Seq(EventsOut!Event)
    BY <1>2, <2>2
  <2>4. grain' \in [Connection -> G(now)']
    BY <1>2, <1>12, <2>3 DEF EventsOut!Change
  <2>5. overtaken' \in [Connection -> SUBSET Source]
    BY <1>1, <1>12 DEF EventsOut!Change, EventsOut!TypeOK
  <2> QED
    BY <1>1, <1>12, <2>1, <2>4, <2>5 DEF EventsOut!TypeOK, EventsOut!Change, EventsOut!Notify, EventsOut!history
<1>13. CASE EventsOut!Enable
  BY <1>1, <1>13 DEF EventsOut!TypeOK, EventsOut!Enable, EventsOut!model, EventsOut!history
<1>14. CASE EventsOut!Pass
  <2>1. grain' \in [Connection -> G(now)']
    BY <1>2, <1>3, <1>14 DEF EventsOut!Pass
  <2>2. outgoing' \in [Connection -> Seq(EventsOut!Event)]
    BY <1>2, <1>3, <1>14 DEF EventsOut!Pass
  <2>3. updated' \in BOOLEAN /\ notified' \in BOOLEAN /\ entries' \in SUBSET Connection
    BY <1>1, <1>14 DEF EventsOut!Pass, EventsOut!TypeOK
  <2>4. wire' \in [Connection -> {"none", "open", "closed"}]
    BY <1>1, <1>14 DEF EventsOut!Pass, EventsOut!TypeOK
  <2>5. notice' \in SUBSET {c \in Connection : wire'[c] = "closed"}
    BY <1>1, <1>14 DEF EventsOut!Pass, EventsOut!TypeOK
  <2> QED
    BY <1>1, <1>14, <2>1, <2>2, <2>3, <2>4, <2>5 DEF EventsOut!TypeOK, EventsOut!Pass, EventsOut!world, EventsOut!history
<1>15. CASE EventsOut!ExpiryCheck
  <2>1. EventsOut!LeastHealth \in 0..now
    <3>1. EventsOut!Connected \in SUBSET Connection
      BY DEF EventsOut!Connected
    <3>2. EventsOut!Connected # {} => EventsOut!Min({grain[c].health : c \in EventsOut!Connected}) \in 0..now
      BY <1>1, <3>1, LeastFacts
    <3> QED
      BY <1>2, <3>2 DEF EventsOut!LeastHealth
  <2>2. expiry' \in BOOLEAN
    <3>1. (EventsOut!LeastHealth < now - Interval) \in BOOLEAN
      BY <1>2, <2>1
    <3> QED
      BY <1>15, <3>1 DEF EventsOut!ExpiryCheck
  <2> QED
    BY <1>1, <1>15, <2>1, <2>2 DEF EventsOut!TypeOK, EventsOut!ExpiryCheck, EventsOut!world, EventsOut!model, EventsOut!history
<1>16. CASE EventsOut!ExpiryErase
  <2>1. grain' \in [Connection -> G(now)']
    BY <1>2, <1>16 DEF EventsOut!ExpiryErase
  <2>2. wake' \in 0..now
    <3> DEFINE left == EventsOut!Connected \ EventsOut!Expired
    <3>1. left \in SUBSET Connection
      BY DEF EventsOut!Connected
    <3>2. wake' = IF left = {} THEN now ELSE EventsOut!Min({grain[c].health : c \in left})
      BY <1>16 DEF EventsOut!ExpiryErase
    <3> HIDE DEF left
    <3>3. left # {} => EventsOut!Min({grain[c].health : c \in left}) \in 0..now
      BY <1>1, <3>1, LeastFacts
    <3> QED
      BY <1>2, <3>2, <3>3
  <2> QED
    BY <1>1, <1>16, <2>1, <2>2 DEF EventsOut!TypeOK, EventsOut!ExpiryErase, EventsOut!world, EventsOut!history
<1>17. CASE EventsOut!Tick
  <2>1. now' \in Nat /\ now' = now + 1 /\ now' \in 0..EventsMaxNow
    BY <1>1, <1>2, <1>17 DEF EventsOut!Tick, EventsOut!TypeOK
  <2>2. \A t \in 0..now : t \in 0..now'
    BY <1>2, <2>1
  <2>3. grain' \in [Connection -> G(now)']
    BY <1>2, <1>17, <2>2 DEF EventsOut!Tick, EventsOut!model
  <2> QED
    BY <1>1, <1>17, <2>1, <2>2, <2>3 DEF EventsOut!TypeOK, EventsOut!Tick, EventsOut!world, EventsOut!model, EventsOut!history
<1> QED
  BY <1>6, <1>7, <1>8, <1>9, <1>10, <1>11, <1>12, <1>13, <1>14, <1>15, <1>16, <1>17 DEF EventsOut!Next

\* What is made of a connection never unmakes it.
LEMMA ServerFresh ==
    ASSUME ServerParameters, ServerInv, EventsOut!Next
    PROVE  Fresh'
<1>1. EventsOut!TypeOK /\ Fresh
  BY DEF ServerInv
<1> SUFFICES ASSUME NEW c \in Connection, wire'[c] = "none"
             PROVE  /\ c \notin entries' /\ ~grain'[c].there
                    /\ outgoing'[c] = <<>> /\ sent'[c][Health] = 0 /\ asked'[c] = 0
  BY DEF Fresh
<1>2. /\ grain \in [Connection -> [there : BOOLEAN, sources : SUBSET Source,
                                   health : 0..now, events : Seq(EventsOut!Event)]]
      /\ wire \in [Connection -> {"none", "open", "closed"}]
      /\ outgoing \in [Connection -> Seq(EventsOut!Event)]
      /\ sent \in [Connection -> [Source \cup {Health} -> Int]]
      /\ asked \in [Connection -> 0..MaxBeats]
      /\ entries \in SUBSET Connection
  BY <1>1 DEF EventsOut!TypeOK
<1>3. wire[c] = "none" =>
        /\ c \notin entries /\ ~grain[c].there
        /\ outgoing[c] = <<>> /\ sent[c][Health] = 0 /\ asked[c] = 0
  BY <1>1 DEF Fresh
<1>4. ASSUME NEW d \in Connection, EventsOut!Open(d)
      PROVE  /\ c \notin entries' /\ ~grain'[c].there
             /\ outgoing'[c] = <<>> /\ sent'[c][Health] = 0 /\ asked'[c] = 0
  BY <1>2, <1>3, <1>4 DEF EventsOut!Open, EventsOut!history
<1>5. ASSUME NEW d \in Connection, EventsOut!Disconnect(d)
      PROVE  /\ c \notin entries' /\ ~grain'[c].there
             /\ outgoing'[c] = <<>> /\ sent'[c][Health] = 0 /\ asked'[c] = 0
  BY <1>2, <1>3, <1>5 DEF EventsOut!Disconnect, EventsOut!model, EventsOut!history
<1>6. ASSUME NEW d \in Connection, EventsOut!Close(d)
      PROVE  /\ c \notin entries' /\ ~grain'[c].there
             /\ outgoing'[c] = <<>> /\ sent'[c][Health] = 0 /\ asked'[c] = 0
  BY <1>2, <1>3, <1>6 DEF EventsOut!Close, EventsOut!model, EventsOut!history, EventsOut!NoGrain
<1>7. ASSUME NEW d \in Connection, EventsOut!HealthCommand(d)
      PROVE  /\ c \notin entries' /\ ~grain'[c].there
             /\ outgoing'[c] = <<>> /\ sent'[c][Health] = 0 /\ asked'[c] = 0
  BY <1>2, <1>3, <1>7 DEF EventsOut!HealthCommand, EventsOut!Receives
<1>8. ASSUME NEW d \in Connection, EventsOut!Send(d)
      PROVE  /\ c \notin entries' /\ ~grain'[c].there
             /\ outgoing'[c] = <<>> /\ sent'[c][Health] = 0 /\ asked'[c] = 0
  <2>1. wire[c] = "none" /\ d # c
    BY <1>3, <1>8 DEF EventsOut!Send
  <2>2. sent'[c] = sent[c] /\ outgoing'[c] = outgoing[c]
    BY <1>2, <1>8, <2>1 DEF EventsOut!Send
  <2> QED
    BY <1>3, <1>8, <2>1, <2>2 DEF EventsOut!Send, EventsOut!model
<1>9. ASSUME NEW d \in Connection, NEW sources \in SUBSET Source, EventsOut!SubscriptionCommand(d, sources)
      PROVE  /\ c \notin entries' /\ ~grain'[c].there
             /\ outgoing'[c] = <<>> /\ sent'[c][Health] = 0 /\ asked'[c] = 0
  BY <1>2, <1>3, <1>9 DEF EventsOut!SubscriptionCommand, EventsOut!Receives
<1>10. ASSUME NEW s \in Source, EventsOut!Change(s)
       PROVE  /\ c \notin entries' /\ ~grain'[c].there
              /\ outgoing'[c] = <<>> /\ sent'[c][Health] = 0 /\ asked'[c] = 0
  BY <1>2, <1>3, <1>10 DEF EventsOut!Change
<1>11. CASE EventsOut!Pass
  <2>1. wire[c] = "none"
    BY <1>2, <1>11 DEF EventsOut!Pass
  <2> QED
    BY <1>2, <1>3, <1>11, <2>1 DEF EventsOut!Pass, EventsOut!history
<1>12. CASE EventsOut!ExpiryErase
  BY <1>2, <1>3, <1>12 DEF EventsOut!ExpiryErase, EventsOut!Expired, EventsOut!Connected, EventsOut!NoGrain, EventsOut!history
<1>13. CASE EventsOut!Enable \/ EventsOut!ExpiryCheck \/ EventsOut!Tick
  BY <1>3, <1>13 DEF EventsOut!Enable, EventsOut!ExpiryCheck, EventsOut!Tick, EventsOut!world, EventsOut!model, EventsOut!history
<1> QED
  BY <1>4, <1>5, <1>6, <1>7, <1>8, <1>9, <1>10, <1>11, <1>12, <1>13 DEF EventsOut!Next

LEMMA ServerCloses ==
    ASSUME ServerParameters, ServerInv, EventsOut!Next
    PROVE  EventsOut!ExpiredIsClosed'
<1>1. EventsOut!TypeOK /\ Fresh
  BY DEF ServerInv
<1> DEFINE Known(g, u, e, w, n) == (e /\ ~g => u) /\ (w = "open" => e) /\ (g => e /\ (w = "open" \/ n))
<1> SUFFICES ASSUME NEW c \in Connection
             PROVE  Known(grain'[c].there, updated' /\ notified', c \in entries', wire'[c], c \in notice')
  BY DEF EventsOut!ExpiredIsClosed
<1>2. /\ grain \in [Connection -> [there : BOOLEAN, sources : SUBSET Source,
                                   health : 0..now, events : Seq(EventsOut!Event)]]
      /\ wire \in [Connection -> {"none", "open", "closed"}]
      /\ notice \in SUBSET Connection
      /\ entries \in SUBSET Connection
      /\ \A d \in notice : wire[d] = "closed"
  BY <1>1 DEF EventsOut!TypeOK
<1>3. Known(grain[c].there, updated /\ notified, c \in entries, wire[c], c \in notice)
  BY DEF ServerInv, EventsOut!ExpiredIsClosed
<1>4. wire[c] = "none" => c \notin entries /\ ~grain[c].there
  BY <1>1 DEF Fresh
<1>5. ASSUME NEW d \in Connection, EventsOut!Open(d)
      PROVE  Known(grain'[c].there, updated' /\ notified', c \in entries', wire'[c], c \in notice')
  BY <1>2, <1>3, <1>5 DEF EventsOut!Open, EventsOut!NoGrain, EventsOut!Notify
<1>6. ASSUME NEW d \in Connection, EventsOut!Disconnect(d)
      PROVE  Known(grain'[c].there, updated' /\ notified', c \in entries', wire'[c], c \in notice')
  BY <1>2, <1>3, <1>6 DEF EventsOut!Disconnect, EventsOut!model
<1>7. ASSUME NEW d \in Connection, EventsOut!Close(d)
      PROVE  Known(grain'[c].there, updated' /\ notified', c \in entries', wire'[c], c \in notice')
  <2>1. d \in notice /\ notice' = notice \ {d} /\ wire' = wire /\ wire[d] = "closed"
    BY <1>2, <1>7 DEF EventsOut!Close
  <2>2. CASE d \in entries
    <3>1. /\ grain' = [grain EXCEPT ![d] = EventsOut!NoGrain] /\ entries' = entries \ {d}
          /\ (updated => updated') /\ notified'
      BY <1>7, <2>2 DEF EventsOut!Close
    <3>2. CASE c = d
      BY <1>2, <2>1, <3>1, <3>2 DEF EventsOut!NoGrain
    <3>3. CASE c # d
      BY <1>2, <1>3, <2>1, <3>1, <3>3
    <3> QED
      BY <3>2, <3>3
  <2>3. CASE d \notin entries
    BY <1>2, <1>3, <1>7, <2>1, <2>3 DEF EventsOut!Close, EventsOut!model
  <2> QED
    BY <2>2, <2>3
<1>8. ASSUME NEW d \in Connection, EventsOut!HealthCommand(d)
      PROVE  Known(grain'[c].there, updated' /\ notified', c \in entries', wire'[c], c \in notice')
  BY <1>2, <1>3, <1>8 DEF EventsOut!HealthCommand, EventsOut!Receives, EventsOut!Notify
<1>9. ASSUME NEW d \in Connection, EventsOut!Send(d)
      PROVE  Known(grain'[c].there, updated' /\ notified', c \in entries', wire'[c], c \in notice')
  BY <1>3, <1>9 DEF EventsOut!Send, EventsOut!model
<1>10. ASSUME NEW d \in Connection, NEW sources \in SUBSET Source, EventsOut!SubscriptionCommand(d, sources)
       PROVE  Known(grain'[c].there, updated' /\ notified', c \in entries', wire'[c], c \in notice')
  BY <1>2, <1>3, <1>10 DEF EventsOut!SubscriptionCommand, EventsOut!Receives, EventsOut!Notify
<1>11. ASSUME NEW s \in Source, EventsOut!Change(s)
       PROVE  Known(grain'[c].there, updated' /\ notified', c \in entries', wire'[c], c \in notice')
  BY <1>2, <1>3, <1>11 DEF EventsOut!Change, EventsOut!Notify
<1>12. CASE EventsOut!Pass
  <2> DEFINE gone == {d \in entries : ~grain[d].there}
  <2>1. /\ grain'[c].there = grain[c].there
        /\ entries' = entries \ gone
        /\ wire'[c] = IF c \in gone THEN "closed" ELSE wire[c]
        /\ notice \subseteq notice'
    BY <1>2, <1>12 DEF EventsOut!Pass
  <2> QED
    BY <1>2, <1>3, <2>1
<1>13. CASE EventsOut!ExpiryErase
  <2>1. CASE c \in EventsOut!Expired
    <3>1. grain[c].there /\ updated' /\ notified'
      BY <1>13, <2>1 DEF EventsOut!ExpiryErase, EventsOut!Expired, EventsOut!Connected
    <3> QED
      BY <1>2, <1>3, <1>13, <2>1, <3>1 DEF EventsOut!ExpiryErase, EventsOut!NoGrain
  <2>2. CASE c \notin EventsOut!Expired
    BY <1>2, <1>3, <1>13, <2>2 DEF EventsOut!ExpiryErase
  <2> QED
    BY <2>1, <2>2
<1>14. CASE EventsOut!Enable \/ EventsOut!ExpiryCheck \/ EventsOut!Tick
  BY <1>3, <1>14 DEF EventsOut!Enable, EventsOut!ExpiryCheck, EventsOut!Tick, EventsOut!world, EventsOut!model, EventsOut!history
<1> QED
  BY <1>5, <1>6, <1>7, <1>8, <1>9, <1>10, <1>11, <1>12, <1>13, <1>14 DEF EventsOut!Next

LEMMA ServerStep ==
    ASSUME ServerParameters, ServerInv, [EventsOut!Next]_EventsOut!eventsServerVars
    PROVE  ServerInv'
<1>1. CASE EventsOut!Next
  BY <1>1, ServerTyped, ServerFresh, ServerCloses DEF ServerInv
<1>2. CASE UNCHANGED EventsOut!eventsServerVars
  BY <1>2 DEF ServerInv, EventsOut!eventsServerVars, EventsOut!world, EventsOut!model, EventsOut!history,
              EventsOut!TypeOK, Fresh, EventsOut!ExpiredIsClosed
<1> QED
  BY <1>1, <1>2

-----------------------------------------------------------------------------
(* FeedCurrent *)

\* What FeedCurrent says of a connection to which q is to be sent, and told has been
Current(q, sources, view, commands, now_) ==
    /\ \A s \in sources : Tells(q, s, view[s]) = now_[s]
    /\ view[Health] + Cardinality(Where(q, Health)) = commands

LEMMA FeedTerms ==
    /\ EventsOut!FeedCurrent <=>
         \A c \in Connection : grain[c].there /\ wire[c] = "open" =>
            Current(outgoing[c] \o grain[c].events, grain[c].sources \ overtaken[c], sent[c], asked[c], state)
    /\ EventsOut!FeedCurrent' <=>
         \A c \in Connection : grain'[c].there /\ wire'[c] = "open" =>
            Current(outgoing'[c] \o grain'[c].events, grain'[c].sources \ overtaken'[c], sent'[c], asked'[c], state')
<1>1. \A S : EventsOut!Cardinality(S) = Cardinality(S)
  BY SameOperators
<1>2. /\ \A c, x : EventsOut!About(c, x) = Where(outgoing[c] \o grain[c].events, x)
      /\ \A c, x : EventsOut!About(c, x)' = Where(outgoing'[c] \o grain'[c].events, x)
  BY DEF EventsOut!About, EventsOut!Unsent, Where
<1>3. /\ \A c, s : EventsOut!ToldLast(c, s) = Tells(outgoing[c] \o grain[c].events, s, sent[c][s])
      /\ \A c, s : EventsOut!ToldLast(c, s)' = Tells(outgoing'[c] \o grain'[c].events, s, sent'[c][s])
  BY DEF EventsOut!ToldLast, EventsOut!About, EventsOut!Unsent, Where, Tells
<1> QED
  BY <1>1, <1>2, <1>3 DEF EventsOut!FeedCurrent, EventsOut!Connected, Current

\* A message more to be sent: the last about its source, or an answer
LEMMA CurrentAppend ==
    ASSUME NEW p \in Seq(EventsOut!Event), NEW q \in Seq(EventsOut!Event), NEW e \in EventsOut!Event, NEW view, NEW x
    PROVE  /\ Tells(p \o Append(q, e), x, view) = IF e[1] = x THEN e[2] ELSE Tells(p \o q, x, view)
           /\ Cardinality(Where(p \o Append(q, e), x))
                = Cardinality(Where(p \o q, x)) + (IF e[1] = x THEN 1 ELSE 0)
<1>1. p \o Append(q, e) = (p \o q) \o <<e>> /\ p \o q \in Seq(EventsOut!Event)
  OBVIOUS
<1>2. <<e>> \in Seq(EventsOut!Event)
  BY SingleFacts
<1> DEFINE u == p \o q
           w == <<e>>
<1>3. u \in Seq(EventsOut!Event) /\ w \in Seq(EventsOut!Event)
  BY <1>1, <1>2
<1> HIDE DEF u, w
<1>4. /\ Tells(u \o w, x, view) = Tells(w, x, Tells(u, x, view))
      /\ Cardinality(Where(u \o w, x)) = Cardinality(Where(u, x)) + Cardinality(Where(w, x))
  BY <1>3, TellsConcat, CountConcat
<1> QED
  BY <1>1, <1>4, SingleFacts DEF u, w

\* The first message is sent.
LEMMA CurrentHead ==
    ASSUME NEW p \in Seq(EventsOut!Event), p # <<>>, NEW q \in Seq(EventsOut!Event), NEW view, NEW x
    PROVE  /\ Head(p) \in EventsOut!Event /\ Tail(p) \o q \in Seq(EventsOut!Event)
           /\ Tells(p \o q, x, view) = Tells(Tail(p) \o q, x, IF Head(p)[1] = x THEN Head(p)[2] ELSE view)
           /\ Cardinality(Where(p \o q, x))
                = Cardinality(Where(Tail(p) \o q, x)) + (IF Head(p)[1] = x THEN 1 ELSE 0)
           /\ Cardinality(Where(Tail(p) \o q, x)) \in Nat
<1>1. Head(p) \in EventsOut!Event /\ Tail(p) \o q \in Seq(EventsOut!Event) /\ p \o q = <<Head(p)>> \o (Tail(p) \o q)
  OBVIOUS
<1>2. <<Head(p)>> \in Seq(EventsOut!Event)
  BY <1>1, SingleFacts
<1> DEFINE w == <<Head(p)>>
           u == Tail(p) \o q
<1>3. u \in Seq(EventsOut!Event) /\ w \in Seq(EventsOut!Event) /\ p \o q = w \o u
  BY <1>1, <1>2
<1> HIDE DEF u, w
<1>4. /\ Tells(w \o u, x, view) = Tells(u, x, Tells(w, x, view))
      /\ Cardinality(Where(w \o u, x)) = Cardinality(Where(w, x)) + Cardinality(Where(u, x))
  BY <1>3, TellsConcat, CountConcat
<1>5. Cardinality(Where(Tail(p) \o q, x)) \in Nat
  BY <1>1, WhereFacts
<1>6. /\ Cardinality(Where(<<Head(p)>>, x)) = IF Head(p)[1] = x THEN 1 ELSE 0
      /\ Tells(<<Head(p)>>, x, view) = IF Head(p)[1] = x THEN Head(p)[2] ELSE view
  BY <1>1, SingleFacts
<1> QED
  BY <1>1, <1>3, <1>4, <1>5, <1>6 DEF u, w

\* A subscription command keeps FeedCurrent: a source of the old subscription with
\* messages that wait is told by these as before, and one without by its sync event.
LEMMA FeedSubscription ==
    ASSUME ServerParameters, EventsOut!TypeOK, NEW c \in Connection, NEW sources \in SUBSET Source,
           Current(outgoing[c] \o grain[c].events, grain[c].sources \ overtaken[c], sent[c], asked[c], state),
           EventsOut!SubscriptionCommand(c, sources)
    PROVE  Current(outgoing'[c] \o grain'[c].events, grain'[c].sources \ overtaken'[c], sent'[c], asked'[c], state')
<1> DEFINE p == outgoing[c]
           q == grain[c].events
           y == EventsOut!Sync(sources)
<1>1. p \in Seq(EventsOut!Event) /\ q \in Seq(EventsOut!Event)
  BY DEF EventsOut!TypeOK
<1>2. y \in Seq(EventsOut!Event) /\ y \o q \in Seq(EventsOut!Event)
  BY <1>1, SyncFacts
<1>3. /\ outgoing'[c] \o grain'[c].events = p \o (y \o q)
      /\ grain'[c].sources = sources
      /\ overtaken'[c] = {s \in sources : IF s \in grain[c].sources THEN s \in overtaken[c] ELSE EventsOut!Waits(c, s)}
      /\ sent'[c] = sent[c] /\ asked'[c] = asked[c] /\ state' = state
  BY DEF EventsOut!SubscriptionCommand, EventsOut!TypeOK, EventsOut!Resynced, EventsOut!world
<1>4. \A s : ~EventsOut!Waits(c, s) => Where(q, s) = {}
  <2> TAKE s
  <2>1. \A n \in DOMAIN q : q[n] \in EventsOut!Range(q)
    BY DEF EventsOut!Range
  <2> QED
    BY <2>1 DEF EventsOut!Waits, Where
<1> HIDE DEF p, q, y
<1>5. ASSUME NEW x, NEW v
      PROVE  /\ Tells(p \o (y \o q), x, v) = Tells(q, x, Tells(y, x, Tells(p, x, v)))
             /\ Tells(p \o q, x, v) = Tells(q, x, Tells(p, x, v))
             /\ Cardinality(Where(p \o (y \o q), x))
                  = Cardinality(Where(p, x)) + (Cardinality(Where(y, x)) + Cardinality(Where(q, x)))
             /\ Cardinality(Where(p \o q, x)) = Cardinality(Where(p, x)) + Cardinality(Where(q, x))
             /\ Cardinality(Where(q, x)) \in Nat
  <2> DEFINE u == y \o q
  <2>1. u \in Seq(EventsOut!Event)
    BY <1>2
  <2>2. Tells(u, x, Tells(p, x, v)) = Tells(q, x, Tells(y, x, Tells(p, x, v)))
    BY <1>1, <1>2, TellsConcat
  <2> HIDE DEF u
  <2>3. /\ Tells(p \o u, x, v) = Tells(u, x, Tells(p, x, v))
        /\ Tells(p \o q, x, v) = Tells(q, x, Tells(p, x, v))
    BY <1>1, <2>1, TellsConcat
  <2>4. Cardinality(Where(p \o u, x)) = Cardinality(Where(p, x)) + Cardinality(Where(u, x))
    BY <1>1, <2>1, CountConcat
  <2>5. Cardinality(Where(y \o q, x)) = Cardinality(Where(y, x)) + Cardinality(Where(q, x))
    BY <1>1, <1>2, CountConcat
  <2>6. Cardinality(Where(p \o q, x)) = Cardinality(Where(p, x)) + Cardinality(Where(q, x))
    BY <1>1, CountConcat
  <2> QED
    BY <1>1, <2>2, <2>3, <2>4, <2>5, <2>6, WhereFacts DEF u
<1>6. ASSUME NEW s \in sources, s \notin overtaken'[c]
      PROVE  Tells(p \o (y \o q), s, sent[c][s]) = state[s]
  <2>1. \A v : Tells(y, s, v) = state[s]
    BY SyncFacts DEF y
  <2>2. CASE Where(q, s) = {}
    <3>1. \A v : Tells(q, s, v) = v
      BY <1>1, <2>2, TellsFacts
    <3> QED
      BY <1>5, <2>1, <3>1
  <2>3. CASE Where(q, s) # {}
    <3>1. s \in grain[c].sources \ overtaken[c]
      BY <1>3, <1>4, <1>6, <2>3
    <3>2. Tells(p \o q, s, sent[c][s]) = state[s]
      BY <3>1 DEF Current, p, q
    <3>3. PICK n \in Where(q, s) : \A m \in Where(q, s) : m <= n
      BY <1>1, <2>3, TellsFacts
    <3>4. \A v : Tells(q, s, v) = q[n][2]
      BY <1>1, <3>3, TellsFacts
    <3> QED
      BY <1>5, <3>2, <3>4
  <2> QED
    BY <2>2, <2>3
<1>7. sent[c][Health] + Cardinality(Where(p \o (y \o q), Health)) = asked[c]
  <2>1. Cardinality(Where(y, Health)) = 0
    BY SyncFacts DEF y
  <2>2. sent[c][Health] + Cardinality(Where(p \o q, Health)) = asked[c]
    BY DEF Current, p, q
  <2> QED
    BY <1>5, <2>1, <2>2
<1> QED
  BY <1>3, <1>6, <1>7 DEF Current

\* What Current needs to know of a connection
LEMMA CurrentTyped ==
    ASSUME ServerParameters, EventsOut!TypeOK, NEW c \in Connection
    PROVE  /\ outgoing[c] \in Seq(EventsOut!Event) /\ grain[c].events \in Seq(EventsOut!Event)
           /\ grain[c].sources \in SUBSET Source /\ Health \notin grain[c].sources
           /\ sent[c] \in [Source \cup {Health} -> Int] /\ sent[c][Health] \in Int
           /\ outgoing[c] \o grain[c].events \in Seq(EventsOut!Event)
           /\ Cardinality(Where(outgoing[c] \o grain[c].events, Health)) \in Nat
<1>1. outgoing[c] \in Seq(EventsOut!Event) /\ grain[c].events \in Seq(EventsOut!Event)
  BY DEF EventsOut!TypeOK
<1>2. grain[c].sources \in SUBSET Source /\ Health \notin grain[c].sources
  BY DEF EventsOut!TypeOK, ServerParameters
<1>3. sent[c] \in [Source \cup {Health} -> Int]
  BY DEF EventsOut!TypeOK
<1>4. sent[c][Health] \in Int
  BY <1>3
<1>5. outgoing[c] \o grain[c].events \in Seq(EventsOut!Event)
  BY <1>1
<1> QED
  BY <1>1, <1>2, <1>3, <1>4, <1>5, WhereFacts

LEMMA FeedStep ==
    ASSUME ServerParameters, ServerInv, EventsOut!FeedCurrent, EventsOut!Next
    PROVE  EventsOut!FeedCurrent'
<1> DEFINE Now(c) == Current(outgoing[c] \o grain[c].events, grain[c].sources \ overtaken[c],
                             sent[c], asked[c], state)
           Then(c) == Current(outgoing'[c] \o grain'[c].events, grain'[c].sources \ overtaken'[c],
                              sent'[c], asked'[c], state')
           Same(c) == /\ outgoing'[c] \o grain'[c].events = outgoing[c] \o grain[c].events
                      /\ grain'[c].sources = grain[c].sources /\ grain'[c].there = grain[c].there
                      /\ overtaken'[c] = overtaken[c] /\ sent'[c] = sent[c] /\ asked'[c] = asked[c]
                      /\ state' = state /\ (wire'[c] = "open" => wire[c] = "open")
<1>1. EventsOut!TypeOK /\ Fresh /\ EventsOut!ExpiredIsClosed
  BY DEF ServerInv
<1>2. \A c \in Connection : grain[c].there /\ wire[c] = "open" => Now(c)
  BY FeedTerms
<1> SUFFICES ASSUME NEW c \in Connection, grain'[c].there, wire'[c] = "open"
             PROVE  Then(c)
  BY FeedTerms
<1>3. Same(c) => Then(c)
  BY <1>2
<1>4. /\ outgoing[c] \in Seq(EventsOut!Event) /\ grain[c].events \in Seq(EventsOut!Event)
      /\ grain[c].sources \in SUBSET Source /\ Health \notin grain[c].sources
      /\ sent[c] \in [Source \cup {Health} -> Int] /\ sent[c][Health] \in Int
      /\ Cardinality(Where(outgoing[c] \o grain[c].events, Health)) \in Nat
  BY <1>1, CurrentTyped
<1>5. /\ grain \in [Connection -> [there : BOOLEAN, sources : SUBSET Source,
                                   health : 0..now, events : Seq(EventsOut!Event)]]
      /\ outgoing \in [Connection -> Seq(EventsOut!Event)]
      /\ sent \in [Connection -> [Source \cup {Health} -> Int]]
      /\ asked \in [Connection -> 0..MaxBeats]
      /\ overtaken \in [Connection -> SUBSET Source]
      /\ wire \in [Connection -> {"none", "open", "closed"}]
  BY <1>1 DEF EventsOut!TypeOK
<1>6. ASSUME NEW e \in EventsOut!Event, NEW x, NEW v
      PROVE  /\ Tells(outgoing[c] \o Append(grain[c].events, e), x, v)
                  = IF e[1] = x THEN e[2] ELSE Tells(outgoing[c] \o grain[c].events, x, v)
             /\ Cardinality(Where(outgoing[c] \o Append(grain[c].events, e), x))
                  = Cardinality(Where(outgoing[c] \o grain[c].events, x)) + (IF e[1] = x THEN 1 ELSE 0)
  <2> DEFINE p == outgoing[c]
             q == grain[c].events
  <2>1. p \in Seq(EventsOut!Event) /\ q \in Seq(EventsOut!Event)
    BY <1>4
  <2> HIDE DEF p, q
  <2>2. /\ Tells(p \o Append(q, e), x, v) = IF e[1] = x THEN e[2] ELSE Tells(p \o q, x, v)
        /\ Cardinality(Where(p \o Append(q, e), x)) = Cardinality(Where(p \o q, x)) + (IF e[1] = x THEN 1 ELSE 0)
    <3>1. Tells(p \o Append(q, e), x, v) = IF e[1] = x THEN e[2] ELSE Tells(p \o q, x, v)
      BY <2>1, CurrentAppend
    <3>2. Cardinality(Where(p \o Append(q, e), x)) = Cardinality(Where(p \o q, x)) + (IF e[1] = x THEN 1 ELSE 0)
      BY <2>1, <3>1, CurrentAppend
    <3> QED
      BY <3>1, <3>2
  <2> QED
    BY <2>2 DEF p, q
<1>7. ASSUME NEW d \in Connection, EventsOut!Open(d)
      PROVE  Then(c)
  <2>1. CASE d # c
    <3>1. Same(c)
      BY <1>5, <1>7, <2>1 DEF EventsOut!Open, EventsOut!world, EventsOut!history
    <3> QED
      BY <1>3, <3>1
  <2>2. CASE d = c
    <3>1. wire[c] = "none"
      BY <1>7, <2>2 DEF EventsOut!Open
    <3>2. outgoing[c] = <<>> /\ sent[c][Health] = 0 /\ asked[c] = 0
      BY <1>1, <3>1 DEF Fresh
    <3>3. grain'[c].events = <<>> /\ grain'[c].sources = {}
      BY <1>5, <1>7, <2>2 DEF EventsOut!Open, EventsOut!NoGrain
    <3>4. outgoing' = outgoing /\ sent' = sent /\ asked' = asked
      BY <1>7 DEF EventsOut!Open, EventsOut!history
    <3>5. Where(outgoing'[c] \o grain'[c].events, Health) = {}
      <4>1. <<>> \o <<>> = <<>>
        OBVIOUS
      <4> QED
        BY <3>2, <3>3, <3>4, <4>1 DEF Where
    <3>6. sent'[c][Health] + Cardinality(Where(outgoing'[c] \o grain'[c].events, Health)) = asked'[c]
      <4>1. Cardinality(Where(outgoing'[c] \o grain'[c].events, Health)) = 0
        BY <3>5, FS_EmptySet
      <4> QED
        BY <3>2, <3>4, <4>1
    <3> QED
      BY <3>3, <3>6 DEF Current
  <2> QED
    BY <2>1, <2>2
<1>8. ASSUME NEW d \in Connection, EventsOut!Disconnect(d)
      PROVE  Then(c)
  <2>1. Same(c)
    BY <1>5, <1>8 DEF EventsOut!Disconnect, EventsOut!world, EventsOut!model, EventsOut!history
  <2> QED
    BY <1>3, <2>1
<1>9. ASSUME NEW d \in Connection, EventsOut!Close(d)
      PROVE  Then(c)
  <2>1. grain'[c] = grain[c]
    BY <1>5, <1>9 DEF EventsOut!Close, EventsOut!NoGrain, EventsOut!model
  <2>2. Same(c)
    BY <1>9, <2>1 DEF EventsOut!Close, EventsOut!world, EventsOut!history
  <2> QED
    BY <1>3, <2>2
<1>10. ASSUME NEW d \in Connection, EventsOut!HealthCommand(d)
      PROVE  Then(c)
  <2>1. CASE d # c
    <3>1. Same(c)
      BY <1>5, <1>10, <2>1 DEF EventsOut!HealthCommand, EventsOut!world
    <3> QED
      BY <1>3, <3>1
  <2>2. CASE d = c
    <3> DEFINE e == <<Health, 0>>
               q == outgoing[c] \o Append(grain[c].events, e)
    <3>1. /\ grain'[c].events = Append(grain[c].events, e) /\ grain'[c].sources = grain[c].sources
          /\ outgoing' = outgoing /\ overtaken' = overtaken /\ sent' = sent /\ asked'[c] = asked[c] + 1
          /\ state' = state /\ grain[c].there /\ wire[c] = "open"
      BY <1>5, <1>10, <2>2 DEF EventsOut!HealthCommand, EventsOut!Receives, EventsOut!world
    <3>2. e \in EventsOut!Event /\ e[1] = Health
      BY DEF EventsOut!Event
    <3> HIDE DEF e
    <3>3. \A s \in grain[c].sources \ overtaken[c] : Tells(q, s, sent[c][s]) = state[s]
      <4> TAKE s \in grain[c].sources \ overtaken[c]
      <4>1. Tells(q, s, sent[c][s]) = Tells(outgoing[c] \o grain[c].events, s, sent[c][s])
        BY <1>4, <1>6, <3>2
      <4> QED
        BY <1>2, <3>1, <4>1 DEF Current
    <3>4. Cardinality(Where(q, Health)) = Cardinality(Where(outgoing[c] \o grain[c].events, Health)) + 1
      BY <1>6, <3>2
    <3>5. sent[c][Health] + Cardinality(Where(q, Health)) = asked[c] + 1
      <4>1. sent[c][Health] + Cardinality(Where(outgoing[c] \o grain[c].events, Health)) = asked[c]
        BY <1>2, <3>1 DEF Current
      <4> HIDE DEF q
      <4> QED
        BY <1>4, <3>4, <4>1
    <3> QED
      BY <3>1, <3>3, <3>5 DEF Current
  <2> QED
    BY <2>1, <2>2
<1>11. ASSUME NEW d \in Connection, EventsOut!Send(d)
       PROVE  Then(c)
  <2>1. CASE d # c
    <3>1. Same(c)
      BY <1>5, <1>11, <2>1 DEF EventsOut!Send, EventsOut!world, EventsOut!model
    <3> QED
      BY <1>3, <3>1
  <2>2. CASE d = c
    <3> DEFINE p == outgoing[c]
               q == grain[c].events
               about == Head(p)[1]
               view == IF about = Health THEN sent[c][Health] + 1 ELSE Head(p)[2]
    <3>1. /\ grain' = grain /\ wire' = wire /\ overtaken' = overtaken /\ asked' = asked /\ state' = state
          /\ p # <<>> /\ outgoing'[c] = Tail(p)
      BY <1>5, <1>11, <2>2 DEF EventsOut!Send, EventsOut!model, EventsOut!world
    <3>2. sent'[c] = [sent[c] EXCEPT ![about] = view]
      BY <1>5, <1>11, <2>2, <3>1 DEF EventsOut!Send
    <3>3. Now(c)
      BY <1>2, <3>1
    <3> HIDE DEF view
    <3>4. \A x, v : /\ Head(p) \in EventsOut!Event
                    /\ Tells(p \o q, x, v) = Tells(Tail(p) \o q, x, IF about = x THEN Head(p)[2] ELSE v)
                    /\ Cardinality(Where(p \o q, x))
                         = Cardinality(Where(Tail(p) \o q, x)) + (IF about = x THEN 1 ELSE 0)
                    /\ Cardinality(Where(Tail(p) \o q, x)) \in Nat
      <4> TAKE x, v
      <4>1. p \in Seq(EventsOut!Event) /\ q \in Seq(EventsOut!Event)
        BY <1>4
      <4> HIDE DEF p, q
      <4> QED
        BY <3>1, <4>1, CurrentHead
    <3>5. about \in Source \cup {Health}
      BY <3>4 DEF EventsOut!Event
    <3>6. ASSUME NEW s \in grain[c].sources \ overtaken[c]
          PROVE  Tells(Tail(p) \o q, s, sent'[c][s]) = state[s]
      <4>1. s \in Source /\ s # Health
        BY <1>4
      <4>2. sent'[c][s] = IF about = s THEN Head(p)[2] ELSE sent[c][s]
        BY <1>4, <3>2, <3>5, <4>1 DEF view
      <4>3. Tells(p \o q, s, sent[c][s]) = state[s]
        BY <3>3 DEF Current
      <4> QED
        BY <3>4, <4>2, <4>3
    <3>7. sent'[c][Health] + Cardinality(Where(Tail(p) \o q, Health)) = asked[c]
      <4>1. sent'[c][Health] = sent[c][Health] + (IF about = Health THEN 1 ELSE 0)
        BY <1>4, <3>2, <3>5 DEF view
      <4>2. sent[c][Health] + Cardinality(Where(p \o q, Health)) = asked[c]
        BY <3>3 DEF Current
      <4>3. /\ Cardinality(Where(p \o q, Health))
                 = Cardinality(Where(Tail(p) \o q, Health)) + (IF about = Health THEN 1 ELSE 0)
            /\ Cardinality(Where(Tail(p) \o q, Health)) \in Nat
        BY <3>4
      <4> HIDE DEF p, q, about
      <4> QED
        BY <1>4, <4>1, <4>2, <4>3
    <3> QED
      BY <3>1, <3>6, <3>7 DEF Current
  <2> QED
    BY <2>1, <2>2
<1>12. ASSUME NEW d \in Connection, NEW sources \in SUBSET Source, EventsOut!SubscriptionCommand(d, sources)
       PROVE  Then(c)
  <2>1. CASE d # c
    <3>1. Same(c)
      BY <1>5, <1>12, <2>1 DEF EventsOut!SubscriptionCommand, EventsOut!world
    <3> QED
      BY <1>3, <3>1
  <2>2. CASE d = c
    <3>1. Now(c)
      BY <1>2, <1>12, <2>2 DEF EventsOut!SubscriptionCommand, EventsOut!Receives
    <3> QED
      BY <1>1, <1>12, <2>2, <3>1, FeedSubscription
  <2> QED
    BY <2>1, <2>2
<1>13. ASSUME NEW t \in Source, EventsOut!Change(t)
       PROVE  Then(c)
  <2>1. /\ outgoing' = outgoing /\ sent' = sent /\ asked' = asked /\ wire' = wire
        /\ overtaken'[c] = overtaken[c] \ {t} /\ grain'[c].sources = grain[c].sources
        /\ grain[c].there
    BY <1>5, <1>13 DEF EventsOut!Change
  <2>2. Now(c)
    BY <1>2, <2>1
  <2>3. \A s \in Source : state'[s] = IF s = t THEN state[t] + 1 ELSE state[s]
    BY <1>1, <1>13 DEF EventsOut!Change, EventsOut!TypeOK
  <2>4. CASE t \in grain[c].sources
    <3> DEFINE e == <<t, state[t] + 1>>
               q == outgoing[c] \o Append(grain[c].events, e)
    <3>1. grain'[c].events = Append(grain[c].events, e)
      BY <1>5, <1>13, <2>1, <2>4 DEF EventsOut!Change
    <3>2. e \in EventsOut!Event /\ e[1] = t /\ e[2] = state[t] + 1
      <4>1. state[t] + 1 \in 0..MaxState
        BY <1>1, <1>13 DEF EventsOut!Change, EventsOut!TypeOK, ServerParameters
      <4> QED
        BY <4>1 DEF EventsOut!Event
    <3> HIDE DEF e
    <3>3. ASSUME NEW s \in grain[c].sources \ overtaken'[c]
          PROVE  Tells(q, s, sent[c][s]) = state'[s]
      <4>1. Tells(q, s, sent[c][s])
              = IF t = s THEN state[t] + 1 ELSE Tells(outgoing[c] \o grain[c].events, s, sent[c][s])
        BY <1>6, <3>2
      <4>2. t # s => Tells(outgoing[c] \o grain[c].events, s, sent[c][s]) = state[s]
        BY <2>1, <2>2 DEF Current
      <4> QED
        BY <1>4, <2>3, <4>1, <4>2
    <3>4. Cardinality(Where(q, Health)) = Cardinality(Where(outgoing[c] \o grain[c].events, Health))
      <4>1. Cardinality(Where(q, Health)) = Cardinality(Where(outgoing[c] \o grain[c].events, Health)) + 0
        BY <1>6, <3>2 DEF ServerParameters
      <4> HIDE DEF q
      <4> QED
        BY <1>4, <4>1
    <3> QED
      BY <2>1, <2>2, <3>1, <3>3, <3>4 DEF Current
  <2>5. CASE t \notin grain[c].sources
    <3>1. grain'[c].events = grain[c].events
      BY <1>5, <1>13, <2>5 DEF EventsOut!Change
    <3>2. \A s \in grain[c].sources \ overtaken'[c] : s \in grain[c].sources \ overtaken[c] /\ state'[s] = state[s]
      BY <1>4, <2>1, <2>3, <2>5
    <3> QED
      BY <2>1, <2>2, <3>1, <3>2 DEF Current
  <2> QED
    BY <2>4, <2>5
<1>14. CASE EventsOut!Pass
  <2> DEFINE gone  == {d \in entries : ~grain[d].there}
             ready == {d \in entries \ gone : grain[d].events # <<>>}
  <2>1. /\ wire'[c] = IF c \in gone THEN "closed" ELSE wire[c]
        /\ outgoing'[c] = IF c \in ready THEN grain[c].events ELSE <<>>
        /\ grain'[c] = IF c \in ready THEN [grain[c] EXCEPT !.events = <<>>] ELSE grain[c]
        /\ outgoing[c] = <<>>
        /\ sent' = sent /\ asked' = asked /\ overtaken' = overtaken /\ state' = state
    BY <1>14 DEF EventsOut!Pass, EventsOut!world, EventsOut!history
  <2>2. wire[c] = "open" /\ c \in entries
    BY <1>1, <2>1 DEF EventsOut!ExpiredIsClosed
  <2>3. CASE c \in ready
    <3>1. /\ grain'[c].events = <<>> /\ grain'[c].sources = grain[c].sources
          /\ grain'[c].there = grain[c].there
      BY <1>5, <2>1, <2>3
    <3>2. outgoing'[c] \o grain'[c].events = outgoing[c] \o grain[c].events
      <4>1. grain[c].events \o <<>> = <<>> \o grain[c].events
        BY <1>4
      <4> QED
        BY <2>1, <2>3, <3>1, <4>1
    <3>3. Same(c)
      BY <2>1, <2>2, <3>1, <3>2
    <3> QED
      BY <1>3, <3>3
  <2>4. CASE c \notin ready
    <3>1. grain'[c] = grain[c] /\ outgoing'[c] = outgoing[c]
      BY <2>1, <2>4
    <3>2. Same(c)
      BY <2>1, <2>2, <3>1
    <3> QED
      BY <1>3, <3>2
  <2> QED
    BY <2>3, <2>4
<1>15. CASE EventsOut!ExpiryErase
  <2>1. grain'[c] = grain[c]
    BY <1>15 DEF EventsOut!ExpiryErase, EventsOut!NoGrain
  <2>2. Same(c)
    BY <1>15, <2>1 DEF EventsOut!ExpiryErase, EventsOut!world, EventsOut!history
  <2> QED
    BY <1>3, <2>2
<1>16. CASE EventsOut!Enable \/ EventsOut!ExpiryCheck \/ EventsOut!Tick
  <2>1. Same(c)
    BY <1>16 DEF EventsOut!Enable, EventsOut!ExpiryCheck, EventsOut!Tick, EventsOut!world, EventsOut!model, EventsOut!history
  <2> QED
    BY <1>3, <2>1
<1> QED
  BY <1>7, <1>8, <1>9, <1>10, <1>11, <1>12, <1>13, <1>14, <1>15, <1>16 DEF EventsOut!Next

-----------------------------------------------------------------------------
(* The theorems of EventsServer *)

LEMMA ServerAlways ==
    ASSUME ServerParameters
    PROVE  EventsOut!Spec => [](ServerInv /\ EventsOut!FeedCurrent)
<1>1. EventsOut!Init => ServerInv /\ EventsOut!FeedCurrent
  BY ServerInit
<1>2. ServerInv /\ EventsOut!FeedCurrent /\ [EventsOut!Next]_EventsOut!eventsServerVars => (ServerInv /\ EventsOut!FeedCurrent)'
  <2> SUFFICES ASSUME ServerInv, EventsOut!FeedCurrent, [EventsOut!Next]_EventsOut!eventsServerVars
               PROVE  ServerInv' /\ EventsOut!FeedCurrent'
    OBVIOUS
  <2>1. ServerInv'
    BY ServerStep
  <2>2. CASE EventsOut!Next
    BY <2>1, <2>2, FeedStep
  <2>3. CASE UNCHANGED EventsOut!eventsServerVars
    BY <2>1, <2>3, FeedTerms DEF EventsOut!eventsServerVars, EventsOut!world, EventsOut!model, EventsOut!history
  <2> QED
    BY <2>1, <2>2, <2>3
<1> QED
  BY <1>1, <1>2, PTL DEF EventsOut!Spec

\* The grains, queues and histories of the events server have the form that its handlers and
\* threads give them; a socket is only closed or to be closed where it was made.
THEOREM ServerTypeCorrect ==
    ASSUME ServerParameters
    PROVE  EventsOut!Spec => []EventsOut!TypeOK
<1>1. ServerInv => EventsOut!TypeOK
  BY DEF ServerInv
<1> QED
  BY <1>1, ServerAlways, PTL

\* Whatever the handlers put into a grain while the sending thread sends what it has taken:
\* the last message about a source that is subscribed to tells its state, unless it is
\* overtaken, and every health command has its answer.
THEOREM ServerFeedCurrent ==
    ASSUME ServerParameters
    PROVE  EventsOut!Spec => []EventsOut!FeedCurrent
BY ServerAlways, PTL

\* A connection that is open is known, and one that has expired is closed by the sending thread.
THEOREM ServerExpiredIsClosed ==
    ASSUME ServerParameters
    PROVE  EventsOut!Spec => []EventsOut!ExpiredIsClosed
<1>1. ServerInv => EventsOut!ExpiredIsClosed
  BY DEF ServerInv
<1> QED
  BY <1>1, ServerAlways, PTL

\* The expiry thread gives up no connection that was not silent for the interval when it has
\* the exclusive lock.
THEOREM ServerNoEarlyExpiry ==
    ASSUME ServerParameters
    PROVE  EventsOut!Spec => EventsOut!NoEarlyExpiry
<1>1. ServerInv /\ [EventsOut!Next]_EventsOut!eventsServerVars
        => [EventsOut!SilentWhenExpired]_EventsOut!eventsServerVars
  <2> SUFFICES ASSUME ServerInv, EventsOut!Next, NEW c \in Connection,
                      expiry, ~expiry', grain[c].there, ~grain'[c].there
               PROVE  now - grain[c].health > Interval
    BY DEF EventsOut!SilentWhenExpired
  <2>1. CASE EventsOut!ExpiryErase
    <3>1. c \in EventsOut!Expired
      BY <2>1 DEF EventsOut!ExpiryErase
    <3>2. grain[c].health \in Nat /\ now \in Nat /\ Interval \in Nat
      BY DEF ServerInv, EventsOut!TypeOK, ServerParameters
    <3>3. grain[c].health < now - Interval
      BY <3>1 DEF EventsOut!Expired
    <3> QED
      BY <3>2, <3>3
  <2>2. CASE ~EventsOut!ExpiryErase
    <3>1. expiry' = expiry
      BY <2>2 DEF EventsOut!Next, EventsOut!Open, EventsOut!Disconnect, EventsOut!Close, EventsOut!HealthCommand, EventsOut!Send,
                  EventsOut!SubscriptionCommand, EventsOut!Change, EventsOut!Enable, EventsOut!Pass, EventsOut!ExpiryCheck,
                  EventsOut!Tick
    <3> QED
      BY <3>1
  <2> QED
    BY <2>1, <2>2
<1> QED
  BY <1>1, ServerAlways, PTL DEF EventsOut!Spec, EventsOut!NoEarlyExpiry

=============================================================================
