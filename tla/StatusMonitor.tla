---------------------------- MODULE StatusMonitor ----------------------------
(***************************************************************************)
(* The BCP-008 status monitors of the control protocol: the functions that *)
(* set, activate, deactivate and reset them                                *)
(* (nmos/control_protocol_utils.cpp), and the thread that reports pending  *)
(* statuses when they are due (nmos/control_protocol_behaviour.cpp).       *)
(*                                                                         *)
(* The functions are called with the model's mutex held, and the thread    *)
(* holds it between its waits: each is one action.                         *)
(*                                                                         *)
(* Abstracted: status messages, which follow the statuses; the events that *)
(* the changes of a property insert; the source of synchronisation.        *)
(***************************************************************************)
EXTENDS Integers, FiniteSetsExt

CONSTANTS
    Monitor,        \* oids of the monitors there may be
    Domain,         \* the domains of a monitor
    ActiveDomain,   \* those with statuses on activation and deactivation
    OptionalDomain, \* those with an ignored_status, not_used
    Delay,          \* the statusReportingDelay of each monitor
    MaxNow,         \* bound: the clock stops here
    MaxReports,     \* bound: statuses set by the application
    MaxRequests     \* bound: activations, resets, and changes of the monitors

VARIABLES
    now,        \* steady_clock, in seconds
    present,    \* the monitors in the device model
    mon,        \* the properties of each monitor
    flag,       \* monitor_status_pending
    thread,     \* what the thread does: "waiting", "sleeping" or "terminated"
    wakeAt,     \* when it wakes, if it is sleeping
    scanned,    \* the monitors it has collected
    last,       \* history: the latest status given to each domain
    reports,    \* the statuses set so far
    requests    \* and the requests

statusMonitorVars == <<now, present, mon, flag, thread, wakeAt, scanned, last, reports, requests>>

\* inactive or not_used, healthy, partially unhealthy, unhealthy
Status == 0..3

\* The status of a domain of a monitor just made.
FirstStatus == [d \in Domain |-> IF d \in ActiveDomain \cup OptionalDomain THEN 0 ELSE 1]

\* update_monitor_overall_status: inactive if any domain is, or else the worst
\* of the statuses that are not ignored.
OverallStatus(status) ==
    IF \E d \in ActiveDomain : status[d] = 0
    THEN 0
    ELSE LET counted == {d \in Domain : d \notin OptionalDomain \/ status[d] # 0}
         IN  IF counted = {} THEN 1 ELSE Max({status[d] : d \in counted})

FirstMonitor ==
    [status      |-> FirstStatus,
     overall     |-> 0,
     pending     |-> FirstStatus,                   \* .._status_pending
     received    |-> [d \in Domain |-> 0],          \* .._pending_received_time
     transitions |-> [d \in Domain |-> 0],          \* .._transition_counter
     activation  |-> 0]                             \* monitor_activation_time

Init ==
    /\ now = 1
    /\ present = Monitor
    /\ mon = [m \in Monitor |-> FirstMonitor]
    /\ flag = FALSE
    /\ thread = "waiting" /\ wakeAt = 0 /\ scanned = {}
    /\ last = [m \in Monitor |-> FirstStatus]
    /\ reports = 0 /\ requests = 0

\* The application may report the status of a domain: for one with an
\* activation status, when the monitor is not inactive.
MayReport(m, d, s) ==
    /\ m \in present /\ reports < MaxReports
    /\ s = 0 => d \in OptionalDomain
    /\ d \in ActiveDomain => mon[m].overall # 0

\* set_monitor_status_internal, for each of the domains that are given one
Apply(r, given) ==
    LET status == [d \in Domain |-> IF d \in DOMAIN given THEN given[d] ELSE r.status[d]]
    IN  [r EXCEPT !.status      = status,
                  !.overall     = OverallStatus(status),
                  !.received    = [d \in Domain |-> IF d \in DOMAIN given THEN 0 ELSE @[d]],
                  !.transitions = [d \in Domain |->
                                     IF status[d] > 1 /\ status[d] > r.status[d] THEN @[d] + 1 ELSE @[d]]]

One(d, s) == [e \in {d} |-> s]

\* Does a new status take effect at once: to or from inactive, or less healthy
\* after the initial activation state?
Immediate(m, d, s) ==
    \/ s = 0
    \/ mon[m].status[d] = 0
    \/ s > mon[m].status[d] /\ now > mon[m].activation + Delay[m]

Reported(m, d, s) ==
    /\ last' = [last EXCEPT ![m][d] = s]
    /\ reports' = reports + 1
    /\ UNCHANGED <<now, present, thread, wakeAt, scanned, requests>>

\* set_monitor_status, of a status that has not changed: only what was pending
\* is cancelled
SameStatus(m, d, s) ==
    /\ MayReport(m, d, s)
    /\ s = mon[m].status[d]
    /\ mon' = [mon EXCEPT ![m].received[d] = 0]
    /\ UNCHANGED flag
    /\ Reported(m, d, s)

\* of one that takes effect immediately
StatusNow(m, d, s) ==
    /\ MayReport(m, d, s)
    /\ s # mon[m].status[d] /\ Immediate(m, d, s)
    /\ mon' = [mon EXCEPT ![m] = Apply(@, One(d, s))]
    /\ UNCHANGED flag
    /\ Reported(m, d, s)

\* of one that is becoming more healthy, or comes in the initial activation state
StatusLater(m, d, s) ==
    /\ MayReport(m, d, s)
    /\ s # mon[m].status[d] /\ ~Immediate(m, d, s)
    /\ mon' = [mon EXCEPT ![m].received[d] = IF @ = 0 THEN now ELSE @,
                          ![m].pending[d]  = s]
    /\ flag' = TRUE
    /\ Reported(m, d, s)

Request(m) ==
    /\ m \in present
    /\ requests < MaxRequests /\ requests' = requests + 1
    /\ UNCHANGED <<now, flag, thread, wakeAt, scanned, reports>>

\* activate_monitor; autoResetMonitor is a property of the monitor
Activate(m, autoReset) ==
    /\ Request(m)
    /\ LET active == Apply(mon[m], [d \in ActiveDomain |-> 1])
       IN  mon' = [mon EXCEPT ![m] = [active EXCEPT !.activation  = now,
                                                    !.transitions = IF autoReset THEN [d \in Domain |-> 0] ELSE @]]
    /\ last' = [last EXCEPT ![m] = [d \in Domain |-> IF d \in ActiveDomain THEN 1 ELSE @[d]]]
    /\ UNCHANGED present

\* deactivate_monitor
Deactivate(m) ==
    /\ Request(m)
    /\ mon' = [mon EXCEPT ![m] = [Apply(@, [d \in ActiveDomain |-> 0]) EXCEPT !.activation = 0]]
    /\ last' = [last EXCEPT ![m] = [d \in Domain |-> IF d \in ActiveDomain THEN 0 ELSE @[d]]]
    /\ UNCHANGED present

\* reset_monitor, a method called by a controller
ResetMonitor(m) ==
    /\ Request(m)
    /\ mon' = [mon EXCEPT ![m].transitions = [d \in Domain |-> 0]]
    /\ UNCHANGED <<present, last>>

\* A bulk restore in rebuild mode removes a monitor from its block ...
Remove(m) ==
    /\ Request(m)
    /\ present' = present \ {m}
    /\ mon' = [mon EXCEPT ![m] = FirstMonitor]
    /\ last' = [last EXCEPT ![m] = FirstStatus]

\* ... or adds one.
Add(m) ==
    /\ m \notin present
    /\ requests < MaxRequests /\ requests' = requests + 1
    /\ present' = present \cup {m}
    /\ UNCHANGED <<now, mon, flag, thread, wakeAt, scanned, last, reports>>

\* When the pending statuses of some monitors are due.
Thresholds(properties, monitors) ==
    LET pending == {p \in monitors \X Domain : properties[p[1]].received[p[2]] > 0}
    IN  {properties[p[1]].received[p[2]] + Delay[p[1]] : p \in pending}

\* The thread looks for the minimum delay, and waits for it; when nothing is
\* pending it clears the flag, and waits for that.  It reads the properties of
\* each monitor it collected: those of one removed since are null, and the
\* exception leaves the thread.
SleepFor(properties, monitors) ==
    LET due == Thresholds(properties, monitors)
    IN  IF due = {}
        THEN thread' = "waiting" /\ flag' = FALSE /\ wakeAt' = 0
        ELSE thread' = "sleeping" /\ flag' = flag /\ wakeAt' = Max({Min(due), now})

Terminate == thread' = "terminated" /\ UNCHANGED <<mon, flag, wakeAt>>

\* The thread is woken by the flag, and collects the monitors.
Wake ==
    /\ thread = "waiting" /\ flag
    /\ scanned' = present
    /\ SleepFor(mon, present)
    /\ UNCHANGED <<now, present, mon, last, reports, requests>>

\* What is pending and due by now
DueStatuses(m) ==
    LET due == {d \in Domain : mon[m].received[d] > 0 /\ now >= mon[m].received[d] + Delay[m]}
    IN  [d \in due |-> mon[m].pending[d]]

\* Mistaken: the flag is cleared after the first pass.
WaitOverOnce ==
    /\ thread = "sleeping" /\ now >= wakeAt
    /\ scanned \subseteq present
    /\ mon' = [m \in Monitor |-> IF m \in scanned THEN Apply(mon[m], DueStatuses(m)) ELSE mon[m]]
    /\ thread' = "waiting" /\ flag' = FALSE /\ wakeAt' = 0
    /\ UNCHANGED <<now, present, scanned, last, reports, requests>>

\* Its wait is over, and the thread applies what is due.
WaitOver ==
    /\ thread = "sleeping" /\ now >= wakeAt
    /\ scanned \subseteq present
    /\ mon' = [m \in Monitor |-> IF m \in scanned THEN Apply(mon[m], DueStatuses(m)) ELSE mon[m]]
    /\ SleepFor(mon', scanned)
    /\ UNCHANGED <<now, present, scanned, last, reports, requests>>

\* Its wait is over, and a monitor that it collected is gone.
MonitorGone ==
    /\ thread = "sleeping" /\ now >= wakeAt
    /\ ~(scanned \subseteq present)
    /\ Terminate
    /\ UNCHANGED <<now, present, scanned, last, reports, requests>>

Tick ==
    /\ now < MaxNow /\ now' = now + 1
    /\ UNCHANGED <<present, mon, flag, thread, wakeAt, scanned, last, reports, requests>>

Next ==
    \/ \E m \in Monitor, d \in Domain, s \in Status :
         SameStatus(m, d, s) \/ StatusNow(m, d, s) \/ StatusLater(m, d, s)
    \/ \E m \in Monitor :
         \/ \E autoReset \in BOOLEAN : Activate(m, autoReset)
         \/ Deactivate(m) \/ ResetMonitor(m) \/ Remove(m) \/ Add(m)
    \/ Wake \/ WaitOver \/ MonitorGone
    \/ Tick

Spec == Init /\ [][Next]_statusMonitorVars

-----------------------------------------------------------------------------

\* The types of the variables.
TypeOK ==
    /\ now \in 1..MaxNow /\ wakeAt \in 0..(MaxNow + Max({Delay[m] : m \in Monitor}))
    /\ present \subseteq Monitor /\ scanned \subseteq Monitor
    /\ mon \in [Monitor -> [status      : [Domain -> Status],
                            overall     : Status,
                            pending     : [Domain -> Status],
                            received    : [Domain -> 0..MaxNow],
                            transitions : [Domain -> 0..MaxReports],
                            activation  : 0..MaxNow]]
    /\ flag \in BOOLEAN
    /\ thread \in {"waiting", "sleeping", "terminated"}
    /\ last \in [Monitor -> [Domain -> Status]]
    /\ reports \in 0..MaxReports /\ requests \in 0..MaxRequests

\* The latest status given to each domain, by the application or by an
\* activation, is the one reported, or it is pending and will be: the thread has
\* been told, and if it sleeps it wakes no later than the longest delay after
\* the status was received, whichever monitor it sleeps for.  (A monitor added
\* since it collected them is not served until the flag is set again.)
NothingLost ==
    \A m \in present, d \in Domain :
        /\ last[m][d] = IF mon[m].received[d] > 0 THEN mon[m].pending[d] ELSE mon[m].status[d]
        /\ mon[m].received[d] > 0 /\ thread # "terminated" /\ m \in scanned =>
             /\ flag
             /\ thread = "sleeping" =>
                  wakeAt <= Max({now} \cup {mon[m].received[d] + Delay[k] : k \in Monitor})

Worsens(d) ==
    \E m \in Monitor :
        /\ mon'[m].status[d] > 1 /\ mon'[m].status[d] > mon[m].status[d]
        /\ mon[m].activation > 0 /\ now < mon[m].activation + Delay[m]

\* After the activation of a monitor, no domain with an activation status turns
\* unhealthy before statusReportingDelay, whatever was reported before or since.
HealthyWhileActivating == \A d \in ActiveDomain : ~Worsens(d)

DelaysAfterActivation == [][HealthyWhileActivating]_statusMonitorVars

\* "after activation, as long as the monitor isn't being deactivated, it MUST
\* delay the reporting of non Healthy states for the duration specified by
\* statusReportingDelay": in every domain.
HealthyInEveryDomain ==
    \A d \in Domain : (\A m \in Monitor : mon[m].status[d] > 0) => ~Worsens(d)

DelaysEveryDomain == [][HealthyInEveryDomain]_statusMonitorVars

\* The thread outlives the removal of the monitors that it collected.
ThreadSurvives == thread # "terminated"

=============================================================================
