-------------------------- MODULE CompositionProofs --------------------------
(***************************************************************************)
(* The safety of the parts of Services together, for all values of its     *)
(* constants: what the modules of proofs show of each module is true of    *)
(* the part that is an instance of it.  The modules of proofs have         *)
(* instances of their own, of which they prove it; here they are given the *)
(* variables of Services, their definitions are shown to be the same, and  *)
(* a behaviour of Services that has chosen a part to be a behaviour of     *)
(* that part.                                                              *)
(***************************************************************************)
EXTENDS Services, Sequences, FiniteSetTheorems, TLAPS

\* What is proved of the events WebSocket, of the client of authorization servers, of the
\* status monitors, the System API, OCSP, the issuers of tokens and of DNS-SD
P == INSTANCE ServicesProofs WITH
       None <- Nobody, Valid <- ValidData,
       now <- v1, present <- v2, mon <- v3, flag <- v4, thread <- v5, wakeAt <- v6, scanned <- v7,
       last <- v8, reports <- v9, requests <- v10,
       mode <- v2, at <- v5, services <- v3, client <- v1, known <- v8, failed <- v4, fetch <- v6,
       told <- v9, answer <- v10, blamed <- v7,
       base <- v8, files <- v9, certs <- v10, cached <- v11,
       fetching <- v2, issuer <- v3, metadata <- v4, keys <- v1, made <- v6, current <- v7,
       target <- v8, got <- v9, refused <- v10, since <- v11,
       settings <- v8, asked <- v7, server <- v9, clients <- v10, file <- v11, lapsed <- v12,
       registered <- v13, token <- v14, held <- v15, flow <- v16, state <- v6, flows <- v17,
       callback <- v18, waking <- v19, count <- v5,
       method <- v1, place <- v2, domain <- v3, browses <- v4, enough <- v5, results <- v6,
       replies <- v7, elapsed <- v8, first <- v9, linked <- v10, canceled <- v11, outcome <- v12,
       list <- v13, foreign <- v14,
       params <- v2, subscriptions <- v3, connections <- v4, heard <- v6, closing <- v7,
       chain <- v8, activating <- v9, holder <- v10, readers <- v11,
       enabled <- v2, wire <- v3, notice <- v4, entries <- v5, grain <- v8, updated <- v9,
       notified <- v10, outgoing <- v11, wake <- v12, expiry <- v13, sent <- v14,
       received <- v15, overtaken <- v16

-----------------------------------------------------------------------------
(* What is proved of Paging and Transport.  QueryWs and Connection, beside *)
(* which they are proved, have nothing here that they are about.           *)

Any(s, v) == TRUE

Q == INSTANCE QueryProofs WITH
       Resource <- {}, Value <- {}, Null <- 0, Subscription <- {0}, Persistent <- {},
       Match <- Any, Conn <- {}, Limit <- 1, MaxEvents <- 0,
       content <- v1, subscription <- v1, forever <- v1, grains <- v1, grain <- v1, flow <- v1,
       events <- v1, recent <- v1, websockets <- v1, link <- v1, sender <- v1, outbox <- v1,
       fresh <- v1, armed <- v1, signalled <- v1, view <- v1,
       Limits <- PageLimits,
       clock <- v1, there <- v2, created <- v3, updated <- v4, client <- v5

C == INSTANCE ConnectionProofs WITH
       Resource <- {}, Bodies <- {}, MaxItems <- 0, MaxRequests <- 0, MaxStarved <- 0,
       body <- v1, pc <- v1, pos <- v1, results <- v1, holder <- v1, due <- v1, fresh <- v1,
       armed <- v1, signalled <- v1, starved <- v1,
       Null <- Nobody,
       endpoint <- v1, staged <- v2, active <- v3, subscription <- v4, transportfile <- v5,
       reader <- v6, accepted <- v7, count <- v8

\* They have what their modules assume.
LEMMA QueryWsAssumption ==
    /\ Q!IsFiniteSet({})
    /\ {0} # {}
    /\ 0 \notin {}
    /\ {} \subseteq {0}
    /\ 1 \in Nat \ {0}
    /\ 0 \in Nat
    /\ \A s \in {0}, v \in {} : Any(s, v) \in BOOLEAN
<1>1. Q!IsFiniteSet({})
  BY FS_EmptySet DEF IsFiniteSet, Q!IsFiniteSet
<1> QED
  BY <1>1

LEMMA ConnectionAssumption ==
    /\ {} \subseteq Seq([res : {}, kind : C!Kinds])
    /\ 0 \in Nat
    /\ \A b \in {} : Len(b) \in 1..0
    /\ 0 \in Nat
    /\ 0 \in 0..0
OBVIOUS

-----------------------------------------------------------------------------
(* The constants *)

\* Each part has the constants that its proofs ask for.
LEMMA Parameters ==
    /\ P!ServerParameters
    /\ P!ClientParameters
    /\ P!AuthParameters
    /\ P!Delays
    /\ P!SystemParameters
    /\ P!OcspParameters
    /\ P!IssuersParameters
    /\ P!SearchParameters
    /\ Q!PageParameters
    /\ C!TransportParameters
<1>1. P!ServerParameters
  BY ServicesAssumption DEF P!ServerParameters, IsFiniteSet, P!IsFiniteSet
<1>2. P!ClientParameters
  BY ServicesAssumption DEF P!ClientParameters
<1>3. P!AuthParameters
  BY ServicesAssumption DEF P!AuthParameters, IsFiniteSet, P!IsFiniteSet
<1>4. P!Delays
  BY ServicesAssumption DEF P!Delays
<1>5. P!SystemParameters
  BY ServicesAssumption DEF P!SystemParameters
<1>6. P!OcspParameters
  BY ServicesAssumption DEF P!OcspParameters
<1>7. P!IssuersParameters
  BY ServicesAssumption DEF P!IssuersParameters
<1>8. P!SearchParameters
  BY ServicesAssumption DEF P!SearchParameters
<1>9. Q!PageParameters
  BY ServicesAssumption DEF Q!PageParameters, IsFiniteSet, Q!IsFiniteSet
<1>10. C!TransportParameters
  BY ServicesAssumption DEF C!TransportParameters, Endpoints!ValuesDistinct,
      C!Endpoints!ValuesDistinct, Endpoints!EndpointsMade, C!Endpoints!EndpointsMade,
      Endpoints!FilesParsed, C!Endpoints!FilesParsed, Endpoints!IsSequence,
      C!Endpoints!IsSequence, Endpoints!ToSet, C!Endpoints!ToSet
<1> QED
  BY <1>1, <1>2, <1>3, <1>4, <1>5, <1>6, <1>7, <1>8, <1>9, <1>10

-----------------------------------------------------------------------------
(* Instances with the same variables have the same definitions *)

\* EventsServer
LEMMA SameEventsOut ==
    /\ EventsOut!Init = P!EventsOut!Init
    /\ EventsOut!Next = P!EventsOut!Next
    /\ EventsOut!eventsServerVars = P!EventsOut!eventsServerVars
    /\ EventsOut!TypeOK = P!EventsOut!TypeOK
    /\ EventsOut!FeedCurrent = P!EventsOut!FeedCurrent
    /\ EventsOut!ExpiredIsClosed = P!EventsOut!ExpiredIsClosed
    /\ EventsOut!SilentWhenExpired = P!EventsOut!SilentWhenExpired
<1>1. EventsOut!Init = P!EventsOut!Init
  BY DEF EventsOut!Init, P!EventsOut!Init, EventsOut!NoGrain, P!EventsOut!NoGrain,
      EventsOut!Untold, P!EventsOut!Untold
<1>2. EventsOut!Next = P!EventsOut!Next
  BY DEF EventsOut!Next, P!EventsOut!Next, EventsOut!Open, P!EventsOut!Open,
      EventsOut!Disconnect, P!EventsOut!Disconnect, EventsOut!Close, P!EventsOut!Close,
      EventsOut!HealthCommand, P!EventsOut!HealthCommand, EventsOut!Send, P!EventsOut!Send,
      EventsOut!SubscriptionCommand, P!EventsOut!SubscriptionCommand, EventsOut!Change,
      P!EventsOut!Change, EventsOut!Enable, P!EventsOut!Enable, EventsOut!Pass,
      P!EventsOut!Pass, EventsOut!ExpiryCheck, P!EventsOut!ExpiryCheck, EventsOut!ExpiryErase,
      P!EventsOut!ExpiryErase, EventsOut!Tick, P!EventsOut!Tick, EventsOut!Validate,
      P!EventsOut!Validate, EventsOut!NoGrain, P!EventsOut!NoGrain, EventsOut!Notify,
      P!EventsOut!Notify, EventsOut!world, P!EventsOut!world, EventsOut!history,
      P!EventsOut!history, EventsOut!model, P!EventsOut!model, EventsOut!Receives,
      P!EventsOut!Receives, EventsOut!Resynced, P!EventsOut!Resynced, EventsOut!Waits,
      P!EventsOut!Waits, EventsOut!LeastHealth, P!EventsOut!LeastHealth, EventsOut!Expired,
      P!EventsOut!Expired, EventsOut!Connected, P!EventsOut!Connected, EventsOut!Min,
      P!EventsOut!Min, EventsOut!Sync, P!EventsOut!Sync, EventsOut!Range, P!EventsOut!Range,
      EventsOut!SetToSeq, P!EventsOut!SetToSeq, EventsOut!IsInjective, P!EventsOut!IsInjective,
      EventsOut!Cardinality, P!EventsOut!Cardinality
<1>3. EventsOut!eventsServerVars = P!EventsOut!eventsServerVars
  BY DEF EventsOut!eventsServerVars, P!EventsOut!eventsServerVars, EventsOut!world,
      P!EventsOut!world, EventsOut!model, P!EventsOut!model, EventsOut!history,
      P!EventsOut!history
<1>4. EventsOut!TypeOK = P!EventsOut!TypeOK
  BY DEF EventsOut!TypeOK, P!EventsOut!TypeOK, EventsOut!Event, P!EventsOut!Event
<1>5. EventsOut!FeedCurrent = P!EventsOut!FeedCurrent
  BY DEF EventsOut!FeedCurrent, P!EventsOut!FeedCurrent, EventsOut!Connected,
      P!EventsOut!Connected, EventsOut!ToldLast, P!EventsOut!ToldLast, EventsOut!About,
      P!EventsOut!About, EventsOut!Unsent, P!EventsOut!Unsent, EventsOut!Cardinality,
      P!EventsOut!Cardinality
<1>6. EventsOut!ExpiredIsClosed = P!EventsOut!ExpiredIsClosed
  BY DEF EventsOut!ExpiredIsClosed, P!EventsOut!ExpiredIsClosed
<1>7. EventsOut!SilentWhenExpired = P!EventsOut!SilentWhenExpired
  BY DEF EventsOut!SilentWhenExpired, P!EventsOut!SilentWhenExpired
<1> QED
  BY <1>1, <1>2, <1>3, <1>4, <1>5, <1>6, <1>7

\* EventsClient
LEMMA SameEventsIn ==
    /\ EventsIn!Init = P!EventsIn!Init
    /\ EventsIn!Next = P!EventsIn!Next
    /\ EventsIn!eventsClientVars = P!EventsIn!eventsClientVars
    /\ EventsIn!TypeOK = P!EventsIn!TypeOK
    /\ EventsIn!ActiveIsConnected = P!EventsIn!ActiveIsConnected
    /\ EventsIn!SourcesRequested = P!EventsIn!SourcesRequested
<1>1. EventsIn!Init = P!EventsIn!Init
  BY DEF EventsIn!Init, P!EventsIn!Init, EventsIn!Off, P!EventsIn!Off, EventsIn!NotSubscribed,
      P!EventsIn!NotSubscribed, EventsIn!None, P!EventsIn!None, EventsIn!Client,
      P!EventsIn!Client, EventsIn!NoChain, P!EventsIn!NoChain, EventsIn!Idle, P!EventsIn!Idle
<1>2. EventsIn!Next = P!EventsIn!Next
  BY DEF EventsIn!Next, P!EventsIn!Next, EventsIn!Subscribe, P!EventsIn!Subscribe,
      EventsIn!Params, P!EventsIn!Params, EventsIn!Activate, P!EventsIn!Activate,
      EventsIn!Client, P!EventsIn!Client, EventsIn!OldSucceeds, P!EventsIn!OldSucceeds,
      EventsIn!OldFails, P!EventsIn!OldFails, EventsIn!Connect, P!EventsIn!Connect,
      EventsIn!Connected, P!EventsIn!Connected, EventsIn!ConnectFails, P!EventsIn!ConnectFails,
      EventsIn!Command, P!EventsIn!Command, EventsIn!Break, P!EventsIn!Break,
      EventsIn!CloseCompletes, P!EventsIn!CloseCompletes, EventsIn!MessageReceived,
      P!EventsIn!MessageReceived, EventsIn!MessageHandled, P!EventsIn!MessageHandled,
      EventsIn!CloseHandler, P!EventsIn!CloseHandler, EventsIn!UserClose, P!EventsIn!UserClose,
      EventsIn!NotSubscribed, P!EventsIn!NotSubscribed, EventsIn!Leaves, P!EventsIn!Leaves,
      EventsIn!None, P!EventsIn!None, EventsIn!Subscribed, P!EventsIn!Subscribed,
      EventsIn!Sources, P!EventsIn!Sources, EventsIn!Closed, P!EventsIn!Closed, EventsIn!Idle,
      P!EventsIn!Idle, EventsIn!Off, P!EventsIn!Off, EventsIn!To, P!EventsIn!To, EventsIn!locks,
      P!EventsIn!locks, EventsIn!ReceiversOf, P!EventsIn!ReceiversOf
<1>3. EventsIn!eventsClientVars = P!EventsIn!eventsClientVars
  BY DEF EventsIn!eventsClientVars, P!EventsIn!eventsClientVars, EventsIn!locks,
      P!EventsIn!locks
<1>4. EventsIn!TypeOK = P!EventsIn!TypeOK
  BY DEF EventsIn!TypeOK, P!EventsIn!TypeOK, EventsIn!Params, P!EventsIn!Params,
      EventsIn!NotSubscribed, P!EventsIn!NotSubscribed, EventsIn!Client, P!EventsIn!Client,
      EventsIn!None, P!EventsIn!None, EventsIn!Idle, P!EventsIn!Idle, EventsIn!Off,
      P!EventsIn!Off
<1>5. EventsIn!ActiveIsConnected = P!EventsIn!ActiveIsConnected
  BY DEF EventsIn!ActiveIsConnected, P!EventsIn!ActiveIsConnected, EventsIn!None,
      P!EventsIn!None
<1>6. EventsIn!SourcesRequested = P!EventsIn!SourcesRequested
  BY DEF EventsIn!SourcesRequested, P!EventsIn!SourcesRequested, EventsIn!None, P!EventsIn!None,
      EventsIn!Commanding, P!EventsIn!Commanding, EventsIn!Failed, P!EventsIn!Failed,
      EventsIn!Sources, P!EventsIn!Sources, EventsIn!Client, P!EventsIn!Client,
      EventsIn!Subscribed, P!EventsIn!Subscribed
<1> QED
  BY <1>1, <1>2, <1>3, <1>4, <1>5, <1>6

\* Authorization
LEMMA SameAuth ==
    /\ Auth!Init = P!Auth!Init
    /\ Auth!Next = P!Auth!Next
    /\ Auth!authorizationVars = P!Auth!authorizationVars
    /\ Auth!TypeOK = P!Auth!TypeOK
    /\ Auth!SelectedServer = P!Auth!SelectedServer
    /\ Auth!OnlyWhenNeeded = P!Auth!OnlyWhenNeeded
<1>1. Auth!Init = P!Auth!Init
  BY DEF Auth!Init, P!Auth!Init, Auth!Settings, P!Auth!Settings, Auth!None, P!Auth!None,
      Auth!NoCallback, P!Auth!NoCallback
<1>2. Auth!Next = P!Auth!Next
  BY DEF Auth!Next, P!Auth!Next, Auth!Behaviour, P!Auth!Behaviour, Auth!Callback,
      P!Auth!Callback, Auth!SecretExpires, P!Auth!SecretExpires, Auth!TokenExpires,
      P!Auth!TokenExpires, Auth!Restart, P!Auth!Restart, Auth!Discover, P!Auth!Discover,
      Auth!DiscoverNone, P!Auth!DiscoverNone, Auth!RequestMetadata, P!Auth!RequestMetadata,
      Auth!MetadataFails, P!Auth!MetadataFails, Auth!MetadataReceived, P!Auth!MetadataReceived,
      Auth!OpenidKnown, P!Auth!OpenidKnown, Auth!OpenidFails, P!Auth!OpenidFails,
      Auth!Registered, P!Auth!Registered, Auth!RegistrationFails, P!Auth!RegistrationFails,
      Auth!StartFlow, P!Auth!StartFlow, Auth!Wake, P!Auth!Wake, Auth!FlowSucceeds,
      P!Auth!FlowSucceeds, Auth!FlowFails, P!Auth!FlowFails, Auth!FlowWaits, P!Auth!FlowWaits,
      Auth!StartOperation, P!Auth!StartOperation, Auth!KeysReceived, P!Auth!KeysReceived,
      Auth!TokenReceived, P!Auth!TokenReceived, Auth!OperationFails, P!Auth!OperationFails,
      Auth!Redirected, P!Auth!Redirected, Auth!Rejects, P!Auth!Rejects, Auth!Exchanges,
      P!Auth!Exchanges, Auth!TokenExchanged, P!Auth!TokenExchanged, Auth!Finishes,
      P!Auth!Finishes, Auth!ExchangeFails, P!Auth!ExchangeFails, Auth!Replies, P!Auth!Replies,
      Auth!tokens, P!Auth!tokens, Auth!redirection, P!Auth!redirection, Auth!None, P!Auth!None,
      Auth!client, P!Auth!client, Auth!Loaded, P!Auth!Loaded, Auth!NoCallback,
      P!Auth!NoCallback, Auth!Discoverable, P!Auth!Discoverable, Auth!RemainingServices,
      P!Auth!RemainingServices, Auth!Current, P!Auth!Current, Auth!Locked, P!Auth!Locked,
      Auth!Grant, P!Auth!Grant, Auth!GivesUp, P!Auth!GivesUp, Auth!InOperation,
      P!Auth!InOperation, Auth!Distinct, P!Auth!Distinct, Auth!TokenIsBad, P!Auth!TokenIsBad,
      Auth!Cardinality, P!Auth!Cardinality
<1>3. Auth!authorizationVars = P!Auth!authorizationVars
  BY DEF Auth!authorizationVars, P!Auth!authorizationVars, Auth!client, P!Auth!client,
      Auth!tokens, P!Auth!tokens, Auth!redirection, P!Auth!redirection
<1>4. Auth!TypeOK = P!Auth!TypeOK
  BY DEF Auth!TypeOK, P!Auth!TypeOK, Auth!Settings, P!Auth!Settings, Auth!Modes, P!Auth!Modes,
      Auth!Discoverable, P!Auth!Discoverable, Auth!None, P!Auth!None, Auth!Distinct,
      P!Auth!Distinct, Auth!Cardinality, P!Auth!Cardinality
<1>5. Auth!SelectedServer = P!Auth!SelectedServer
  BY DEF Auth!SelectedServer, P!Auth!SelectedServer
<1>6. Auth!OnlyWhenNeeded = P!Auth!OnlyWhenNeeded
  BY DEF Auth!OnlyWhenNeeded, P!Auth!OnlyWhenNeeded
<1> QED
  BY <1>1, <1>2, <1>3, <1>4, <1>5, <1>6

\* StatusMonitor
LEMMA SameMonitors ==
    /\ Monitors!Init = P!Init
    /\ Monitors!Next = P!Next
    /\ Monitors!statusMonitorVars = P!statusMonitorVars
    /\ Monitors!TypeOK = P!TypeOK
    /\ Monitors!NothingLost = P!NothingLost
    /\ Monitors!HealthyWhileActivating = P!HealthyWhileActivating
<1>1. Monitors!Init = P!Init
  BY DEF Monitors!Init, P!Init, Monitors!FirstMonitor, P!FirstMonitor, Monitors!FirstStatus,
      P!FirstStatus
<1>2. Monitors!Next = P!Next
  BY DEF Monitors!Next, P!Next, Monitors!Status, P!Status, Monitors!SameStatus, P!SameStatus,
      Monitors!StatusNow, P!StatusNow, Monitors!StatusLater, P!StatusLater, Monitors!Activate,
      P!Activate, Monitors!Deactivate, P!Deactivate, Monitors!ResetMonitor, P!ResetMonitor,
      Monitors!Remove, P!Remove, Monitors!Add, P!Add, Monitors!Wake, P!Wake, Monitors!WaitOver,
      P!WaitOver, Monitors!MonitorGone, P!MonitorGone, Monitors!Tick, P!Tick,
      Monitors!MayReport, P!MayReport, Monitors!Reported, P!Reported, Monitors!Immediate,
      P!Immediate, Monitors!Apply, P!Apply, Monitors!One, P!One, Monitors!Request, P!Request,
      Monitors!FirstMonitor, P!FirstMonitor, Monitors!FirstStatus, P!FirstStatus,
      Monitors!SleepFor, P!SleepFor, Monitors!DueStatuses, P!DueStatuses, Monitors!Terminate,
      P!Terminate, Monitors!OverallStatus, P!OverallStatus, Monitors!Thresholds, P!Thresholds,
      Monitors!Max, P!Max, Monitors!Min, P!Min
<1>3. Monitors!statusMonitorVars = P!statusMonitorVars
  BY DEF Monitors!statusMonitorVars, P!statusMonitorVars
<1>4. Monitors!TypeOK = P!TypeOK
  BY DEF Monitors!TypeOK, P!TypeOK, Monitors!Max, P!Max, Monitors!Status, P!Status
<1>5. Monitors!NothingLost = P!NothingLost
  BY DEF Monitors!NothingLost, P!NothingLost, Monitors!Max, P!Max
<1>6. Monitors!HealthyWhileActivating = P!HealthyWhileActivating
  BY DEF Monitors!HealthyWhileActivating, P!HealthyWhileActivating, Monitors!Worsens, P!Worsens
<1> QED
  BY <1>1, <1>2, <1>3, <1>4, <1>5, <1>6

\* SystemBehaviour
LEMMA SameSystem ==
    /\ System!Init = P!System!Init
    /\ System!Next = P!System!Next
    /\ System!systemVars = P!System!systemVars
    /\ System!TypeOK = P!System!TypeOK
    /\ System!SelectedFirst = P!System!SelectedFirst
    /\ System!ToldIsCurrent = P!System!ToldIsCurrent
<1>1. System!Init = P!System!Init
  BY DEF System!Init, P!System!Init, System!Nothing, P!System!Nothing
<1>2. System!Next = P!System!Next
  BY DEF System!Next, P!System!Next, System!Discover, P!System!Discover,
      System!BackgroundDiscovery, P!System!BackgroundDiscovery, System!Start, P!System!Start,
      System!GiveUp, P!System!GiveUp, System!SelectNext, P!System!SelectNext, System!Leave,
      P!System!Leave, System!IntervalOver, P!System!IntervalOver, System!Received,
      P!System!Received, System!Fails, P!System!Fails, System!Lists, P!System!Lists,
      System!Nothing, P!System!Nothing, System!FirstStep, P!System!FirstStep, System!Changed,
      P!System!Changed, System!Distinct, P!System!Distinct
<1>3. System!systemVars = P!System!systemVars
  BY DEF System!systemVars, P!System!systemVars
<1>4. System!TypeOK = P!System!TypeOK
  BY DEF System!TypeOK, P!System!TypeOK, System!Lists, P!System!Lists, System!Known,
      P!System!Known, System!Distinct, P!System!Distinct
<1>5. System!SelectedFirst = P!System!SelectedFirst
  BY DEF System!SelectedFirst, P!System!SelectedFirst
<1>6. System!ToldIsCurrent = P!System!ToldIsCurrent
  BY DEF System!ToldIsCurrent, P!System!ToldIsCurrent, System!Nothing, P!System!Nothing
<1> QED
  BY <1>1, <1>2, <1>3, <1>4, <1>5, <1>6

\* OcspBehaviour
LEMMA SameOcsp ==
    /\ Ocsp!Init = P!Ocsp!Init
    /\ Ocsp!Next = P!Ocsp!Next
    /\ Ocsp!ocspVars = P!Ocsp!ocspVars
    /\ Ocsp!TypeOK = P!Ocsp!TypeOK
    /\ Ocsp!SelectedFirst = P!Ocsp!SelectedFirst
    /\ Ocsp!CachedIsCurrent = P!Ocsp!CachedIsCurrent
<1>1. Ocsp!Init = P!Ocsp!Init
  BY DEF Ocsp!Init, P!Ocsp!Init
<1>2. Ocsp!Next = P!Ocsp!Next
  BY DEF Ocsp!Next, P!Ocsp!Next, Ocsp!Load, P!Ocsp!Load, Ocsp!Start, P!Ocsp!Start, Ocsp!GiveUp,
      P!Ocsp!GiveUp, Ocsp!SelectNext, P!Ocsp!SelectNext, Ocsp!Leave, P!Ocsp!Leave,
      Ocsp!IntervalOver, P!Ocsp!IntervalOver, Ocsp!Received, P!Ocsp!Received, Ocsp!Fails,
      P!Ocsp!Fails, Ocsp!Renew, P!Ocsp!Renew, Ocsp!Lists, P!Ocsp!Lists, Ocsp!Ask, P!Ocsp!Ask,
      Ocsp!Distinct, P!Ocsp!Distinct
<1>3. Ocsp!ocspVars = P!Ocsp!ocspVars
  BY DEF Ocsp!ocspVars, P!Ocsp!ocspVars
<1>4. Ocsp!TypeOK = P!Ocsp!TypeOK
  BY DEF Ocsp!TypeOK, P!Ocsp!TypeOK, Ocsp!Lists, P!Ocsp!Lists, Ocsp!Distinct, P!Ocsp!Distinct
<1>5. Ocsp!SelectedFirst = P!Ocsp!SelectedFirst
  BY DEF Ocsp!SelectedFirst, P!Ocsp!SelectedFirst
<1>6. Ocsp!CachedIsCurrent = P!Ocsp!CachedIsCurrent
  BY DEF Ocsp!CachedIsCurrent, P!Ocsp!CachedIsCurrent
<1> QED
  BY <1>1, <1>2, <1>3, <1>4, <1>5, <1>6

\* TokenIssuers
LEMMA SameIssuers ==
    /\ Issuers!Init = P!Issuers!Init
    /\ Issuers!Next = P!Issuers!Next
    /\ Issuers!issuersVars = P!Issuers!issuersVars
    /\ Issuers!TypeOK = P!Issuers!TypeOK
    /\ Issuers!RefetchTriggered = P!Issuers!RefetchTriggered
<1>1. Issuers!Init = P!Issuers!Init
  BY DEF Issuers!Init, P!Issuers!Init
<1>2. Issuers!Next = P!Issuers!Next
  BY DEF Issuers!Next, P!Issuers!Next, Issuers!Refuse, P!Issuers!Refuse, Issuers!Flag,
      P!Issuers!Flag, Issuers!Notify, P!Issuers!Notify, Issuers!RefuseWs, P!Issuers!RefuseWs,
      Issuers!Rotate, P!Issuers!Rotate, Issuers!Wait, P!Issuers!Wait, Issuers!Take,
      P!Issuers!Take, Issuers!MetadataReceived, P!Issuers!MetadataReceived,
      Issuers!MetadataFails, P!Issuers!MetadataFails, Issuers!StartKeys, P!Issuers!StartKeys,
      Issuers!KeysSent, P!Issuers!KeysSent, Issuers!KeysStored, P!Issuers!KeysStored,
      Issuers!Return, P!Issuers!Return, Issuers!Poll, P!Issuers!Poll, Issuers!NoMatchingKeys,
      P!Issuers!NoMatchingKeys, Issuers!Wake, P!Issuers!Wake
<1>3. Issuers!issuersVars = P!Issuers!issuersVars
  BY DEF Issuers!issuersVars, P!Issuers!issuersVars
<1>4. Issuers!TypeOK = P!Issuers!TypeOK
  BY DEF Issuers!TypeOK, P!Issuers!TypeOK, Issuers!Places, P!Issuers!Places
<1>5. Issuers!RefetchTriggered = P!Issuers!RefetchTriggered
  BY DEF Issuers!RefetchTriggered, P!Issuers!RefetchTriggered
<1> QED
  BY <1>1, <1>2, <1>3, <1>4, <1>5

\* Discovery
LEMMA SameSearch ==
    /\ Search!Init = P!Search!Init
    /\ Search!Next = P!Search!Next
    /\ Search!discoveryVars = P!Search!discoveryVars
    /\ Search!TypeOK = P!Search!TypeOK
    /\ Search!Patient = P!Search!Patient
    /\ Search!BestFirst = P!Search!BestFirst
<1>1. Search!Init = P!Search!Init
  BY DEF Search!Init, P!Search!Init, Search!NoType, P!Search!NoType
<1>2. Search!Next = P!Search!Next
  BY DEF Search!Next, P!Search!Next, Search!Types, P!Search!Types, Search!Skip, P!Search!Skip,
      Search!Resolve, P!Search!Resolve, Search!ResolveFails, P!Search!ResolveFails,
      Search!EndBrowse, P!Search!EndBrowse, Search!First, P!Search!First, Search!Tick,
      P!Search!Tick, Search!Cancel, P!Search!Cancel, Search!Complete, P!Search!Complete,
      Search!CompleteCanceled, P!Search!CompleteCanceled, Search!Told, P!Search!Told,
      Search!HadEnough, P!Search!HadEnough, Search!ReplyTimeout, P!Search!ReplyTimeout,
      Search!NoType, P!Search!NoType, Search!Found, P!Search!Found, Search!HasFallback,
      P!Search!HasFallback, Search!Browse, P!Search!Browse, Search!Sorted, P!Search!Sorted,
      Search!BestOf, P!Search!BestOf, Search!Less, P!Search!Less, Search!Cardinality,
      P!Search!Cardinality
<1>3. Search!discoveryVars = P!Search!discoveryVars
  BY DEF Search!discoveryVars, P!Search!discoveryVars
<1>4. Search!TypeOK = P!Search!TypeOK
  BY DEF Search!TypeOK, P!Search!TypeOK, Search!Types, P!Search!Types, Search!NoType,
      P!Search!NoType
<1>5. Search!Patient = P!Search!Patient
  BY DEF Search!Patient, P!Search!Patient, Search!Types, P!Search!Types, Search!NoType,
      P!Search!NoType
<1>6. Search!BestFirst = P!Search!BestFirst
  BY DEF Search!BestFirst, P!Search!BestFirst, Search!Resolved, P!Search!Resolved, Search!Types,
      P!Search!Types, Search!Less, P!Search!Less
<1> QED
  BY <1>1, <1>2, <1>3, <1>4, <1>5, <1>6

\* Paging
LEMMA SamePages ==
    /\ Pages!Init = Q!Pages!Init
    /\ Pages!Next = Q!Pages!Next
    /\ Pages!pagingVars = Q!Pages!pagingVars
    /\ Pages!TypeOK = Q!Pages!TypeOK
    /\ Pages!UniqueTimes = Q!Pages!UniqueTimes
    /\ Pages!NothingMissed = Q!Pages!NothingMissed
    /\ Pages!Repeatable = Q!Pages!Repeatable
<1>1. Pages!Init = Q!Pages!Init
  BY DEF Pages!Init, Q!Pages!Init
<1>2. Pages!Next = Q!Pages!Next
  BY DEF Pages!Next, Q!Pages!Next, Pages!Insert, Q!Pages!Insert, Pages!Modify, Q!Pages!Modify,
      Pages!Erase, Q!Pages!Erase, Pages!Forget, Q!Pages!Forget, Pages!Tick, Q!Pages!Tick,
      Pages!GetLast, Q!Pages!GetLast, Pages!GetNext, Q!Pages!GetNext, Pages!GetPrev,
      Q!Pages!GetPrev, Pages!NextTime, Q!Pages!NextTime, Pages!LastPage, Q!Pages!LastPage,
      Pages!Until, Q!Pages!Until, Pages!Cursor, Q!Pages!Cursor, Pages!FirstPage,
      Q!Pages!FirstPage, Pages!Told, Q!Pages!Told, Pages!MostRecent, Q!Pages!MostRecent,
      Pages!Matching, Q!Pages!Matching, Pages!Newest, Q!Pages!Newest, Pages!Greatest,
      Q!Pages!Greatest, Pages!Oldest, Q!Pages!Oldest, Pages!Known, Q!Pages!Known,
      Pages!Cardinality, Q!Pages!Cardinality
<1>3. Pages!pagingVars = Q!Pages!pagingVars
  BY DEF Pages!pagingVars, Q!Pages!pagingVars
<1>4. Pages!TypeOK = Q!Pages!TypeOK
  BY DEF Pages!TypeOK, Q!Pages!TypeOK
<1>5. Pages!UniqueTimes = Q!Pages!UniqueTimes
  BY DEF Pages!UniqueTimes, Q!Pages!UniqueTimes, Pages!Known, Q!Pages!Known
<1>6. Pages!NothingMissed = Q!Pages!NothingMissed
  BY DEF Pages!NothingMissed, Q!Pages!NothingMissed, Pages!Matching, Q!Pages!Matching,
      Pages!Cursor, Q!Pages!Cursor
<1>7. Pages!Repeatable = Q!Pages!Repeatable
  BY DEF Pages!Repeatable, Q!Pages!Repeatable, Pages!LastPage, Q!Pages!LastPage, Pages!Until,
      Q!Pages!Until, Pages!FirstPage, Q!Pages!FirstPage, Pages!Matching, Q!Pages!Matching,
      Pages!Newest, Q!Pages!Newest, Pages!Greatest, Q!Pages!Greatest, Pages!MostRecent,
      Q!Pages!MostRecent, Pages!Oldest, Q!Pages!Oldest, Pages!Cursor, Q!Pages!Cursor,
      Pages!Known, Q!Pages!Known, Pages!Cardinality, Q!Pages!Cardinality
<1> QED
  BY <1>1, <1>2, <1>3, <1>4, <1>5, <1>6, <1>7

\* Transport
LEMMA SameEndpoints ==
    /\ Endpoints!Init = C!Endpoints!Init
    /\ Endpoints!Next = C!Endpoints!Next
    /\ Endpoints!vars = C!Endpoints!vars
    /\ Endpoints!TypeOK = C!Endpoints!TypeOK
    /\ Endpoints!LegsKept = C!Endpoints!LegsKept
    /\ Endpoints!ActiveResolved = C!Endpoints!ActiveResolved
    /\ Endpoints!PatchHolds = C!Endpoints!PatchHolds
    /\ Endpoints!ActiveAgrees = C!Endpoints!ActiveAgrees
    /\ Endpoints!InFlightHidden = C!Endpoints!InFlightHidden
    /\ Endpoints!RoutesAnswer = C!Endpoints!RoutesAnswer
<1>1. ASSUME NEW e
      PROVE  Endpoints!Made(e) = C!Endpoints!Made(e)
  BY DEF Endpoints!Made, C!Endpoints!Made, Endpoints!RtpSender, C!Endpoints!RtpSender,
      Endpoints!RtpReceiver, C!Endpoints!RtpReceiver, Endpoints!WebSocketParams,
      C!Endpoints!WebSocketParams, Endpoints!MqttParams, C!Endpoints!MqttParams,
      Endpoints!MxlParams, C!Endpoints!MxlParams, Endpoints!With, C!Endpoints!With,
      Endpoints!Fixed, C!Endpoints!Fixed
<1>2. ASSUME NEW e, NEW leg, NEW params
      PROVE  Endpoints!Resolved(e, leg, params) = C!Endpoints!Resolved(e, leg, params)
  BY DEF Endpoints!Resolved, C!Endpoints!Resolved, Endpoints!RtpDefaults,
      C!Endpoints!RtpDefaults, Endpoints!Resolve, C!Endpoints!Resolve, Endpoints!Host,
      C!Endpoints!Host, Endpoints!Fixed, C!Endpoints!Fixed, Endpoints!CopyOf,
      C!Endpoints!CopyOf, Endpoints!NextTo, C!Endpoints!NextTo, Endpoints!Last, C!Endpoints!Last
<1>3. Endpoints!Init = C!Endpoints!Init
  BY <1>1, <1>2 DEF Endpoints!Init, C!Endpoints!Init
<1>4. Endpoints!Activating = C!Endpoints!Activating
  BY <1>2 DEF Endpoints!Activating, C!Endpoints!Activating
<1>5. ASSUME NEW e, NEW legs
      PROVE  Endpoints!Valid(e, legs) = C!Endpoints!Valid(e, legs)
  BY DEF Endpoints!Valid, C!Endpoints!Valid, Endpoints!Wrong, C!Endpoints!Wrong,
      Endpoints!Constraints, C!Endpoints!Constraints, Endpoints!Allows, C!Endpoints!Allows,
      Endpoints!AutoParameters, C!Endpoints!AutoParameters, Endpoints!NullParameters,
      C!Endpoints!NullParameters, Endpoints!Made, C!Endpoints!Made, Endpoints!HostParameter,
      C!Endpoints!HostParameter, Endpoints!ToSet, C!Endpoints!ToSet, Endpoints!RtpSender,
      C!Endpoints!RtpSender, Endpoints!RtpReceiver, C!Endpoints!RtpReceiver,
      Endpoints!WebSocketParams, C!Endpoints!WebSocketParams, Endpoints!MqttParams,
      C!Endpoints!MqttParams, Endpoints!MxlParams, C!Endpoints!MxlParams, Endpoints!With,
      C!Endpoints!With, Endpoints!Fixed, C!Endpoints!Fixed
<1>6. ASSUME NEW patch, NEW version
      PROVE  Endpoints!Stage(patch, version) = C!Endpoints!Stage(patch, version)
  BY <1>5 DEF Endpoints!Stage, C!Endpoints!Stage, Endpoints!Conforms, C!Endpoints!Conforms,
      Endpoints!Permitted, C!Endpoints!Permitted, Endpoints!Parsed, C!Endpoints!Parsed,
      Endpoints!Mergeable, C!Endpoints!Mergeable, Endpoints!Patched, C!Endpoints!Patched,
      Endpoints!AutoParameters, C!Endpoints!AutoParameters, Endpoints!FileLegs,
      C!Endpoints!FileLegs, Endpoints!WithFile, C!Endpoints!WithFile, Endpoints!Merge,
      C!Endpoints!Merge, Endpoints!Front, C!Endpoints!Front, Endpoints!With, C!Endpoints!With
<1>7. Endpoints!Activate = C!Endpoints!Activate /\ Endpoints!Indescribable =
      C!Endpoints!Indescribable
  BY <1>4 DEF Endpoints!Activate, C!Endpoints!Activate, Endpoints!Indescribable,
      C!Endpoints!Indescribable, Endpoints!Pending, C!Endpoints!Pending, Endpoints!Described,
      C!Endpoints!Described, Endpoints!Subscription, C!Endpoints!Subscription, Endpoints!Over,
      C!Endpoints!Over
<1>8. Endpoints!Next = C!Endpoints!Next
  BY <1>6, <1>7 DEF Endpoints!Next, C!Endpoints!Next, Endpoints!Version, C!Endpoints!Version,
      Endpoints!Unresolved, C!Endpoints!Unresolved, Endpoints!Finish, C!Endpoints!Finish,
      Endpoints!GetWaits, C!Endpoints!GetWaits, Endpoints!GetStaged, C!Endpoints!GetStaged,
      Endpoints!GetTimeout, C!Endpoints!GetTimeout, Endpoints!GetDone, C!Endpoints!GetDone,
      Endpoints!Pending, C!Endpoints!Pending, Endpoints!Over, C!Endpoints!Over
<1>9. Endpoints!vars = C!Endpoints!vars
  BY DEF Endpoints!vars, C!Endpoints!vars
<1>10. Endpoints!TypeOK = C!Endpoints!TypeOK
  BY DEF Endpoints!TypeOK, C!Endpoints!TypeOK
<1>11. Endpoints!LegsKept = C!Endpoints!LegsKept
  BY DEF Endpoints!LegsKept, C!Endpoints!LegsKept, Endpoints!Made, C!Endpoints!Made,
      Endpoints!RtpSender, C!Endpoints!RtpSender, Endpoints!RtpReceiver,
      C!Endpoints!RtpReceiver, Endpoints!WebSocketParams, C!Endpoints!WebSocketParams,
      Endpoints!MqttParams, C!Endpoints!MqttParams, Endpoints!MxlParams, C!Endpoints!MxlParams,
      Endpoints!With, C!Endpoints!With, Endpoints!Fixed, C!Endpoints!Fixed
<1>12. Endpoints!ActiveResolved = C!Endpoints!ActiveResolved
  BY DEF Endpoints!ActiveResolved, C!Endpoints!ActiveResolved, Endpoints!Allows,
      C!Endpoints!Allows, Endpoints!Constraints, C!Endpoints!Constraints,
      Endpoints!NullParameters, C!Endpoints!NullParameters, Endpoints!Described,
      C!Endpoints!Described, Endpoints!Made, C!Endpoints!Made, Endpoints!ToSet,
      C!Endpoints!ToSet, Endpoints!HostParameter, C!Endpoints!HostParameter,
      Endpoints!RtpSender, C!Endpoints!RtpSender, Endpoints!RtpReceiver,
      C!Endpoints!RtpReceiver, Endpoints!WebSocketParams, C!Endpoints!WebSocketParams,
      Endpoints!MqttParams, C!Endpoints!MqttParams, Endpoints!MxlParams, C!Endpoints!MxlParams,
      Endpoints!With, C!Endpoints!With, Endpoints!Fixed, C!Endpoints!Fixed
<1>13. Endpoints!PatchHolds = C!Endpoints!PatchHolds
  BY DEF Endpoints!PatchHolds, C!Endpoints!PatchHolds
<1>14. Endpoints!ActiveAgrees = C!Endpoints!ActiveAgrees
  BY DEF Endpoints!ActiveAgrees, C!Endpoints!ActiveAgrees, Endpoints!Subscription,
      C!Endpoints!Subscription, Endpoints!Described, C!Endpoints!Described
<1>15. Endpoints!InFlightHidden = C!Endpoints!InFlightHidden
  BY DEF Endpoints!InFlightHidden, C!Endpoints!InFlightHidden
<1>16. Endpoints!RoutesAnswer = C!Endpoints!RoutesAnswer
  BY DEF Endpoints!RoutesAnswer, C!Endpoints!RoutesAnswer, Endpoints!Version,
      C!Endpoints!Version, Endpoints!Listed, C!Endpoints!Listed, Endpoints!Routes,
      C!Endpoints!Routes, Endpoints!Status, C!Endpoints!Status, Endpoints!Permitted,
      C!Endpoints!Permitted
<1> QED
  BY <1>3, <1>8, <1>9, <1>10, <1>11, <1>12, <1>13, <1>14, <1>15, <1>16

-----------------------------------------------------------------------------
(* A behaviour that has chosen a part is one of its specification *)

LEMMA EventsOutBehaves == Spec /\ part = "events server" => P!EventsOut!Spec
<1> DEFINE here == part = "events server"
<1>1. Init /\ here => P!EventsOut!Init
  BY SameEventsOut DEF Init
<1>2. [Next]_vars /\ here => [P!EventsOut!Next]_(P!EventsOut!eventsServerVars) /\ here'
  <2>1. Next /\ here => P!EventsOut!Next /\ here'
    BY SameEventsOut DEF Next
  <2>2. UNCHANGED vars /\ here => UNCHANGED P!EventsOut!eventsServerVars /\ here'
    BY SameEventsOut DEF vars, P!EventsOut!eventsServerVars, P!EventsOut!world,
        P!EventsOut!model, P!EventsOut!history
  <2> QED
    BY <2>1, <2>2
<1> QED
  BY <1>1, <1>2, PTL DEF Spec, P!EventsOut!Spec

LEMMA EventsInBehaves == Spec /\ part = "events client" => P!EventsIn!Spec
<1> DEFINE here == part = "events client"
<1>1. Init /\ here => P!EventsIn!Init
  BY SameEventsIn DEF Init
<1>2. [Next]_vars /\ here => [P!EventsIn!Next]_(P!EventsIn!eventsClientVars) /\ here'
  <2>1. Next /\ here => P!EventsIn!Next /\ here'
    BY SameEventsIn DEF Next
  <2>2. UNCHANGED vars /\ here => UNCHANGED P!EventsIn!eventsClientVars /\ here'
    BY SameEventsIn DEF vars, P!EventsIn!eventsClientVars, P!EventsIn!locks
  <2> QED
    BY <2>1, <2>2
<1> QED
  BY <1>1, <1>2, PTL DEF Spec, P!EventsIn!Spec

LEMMA AuthBehaves == Spec /\ part = "authorization" => P!Auth!Spec
<1> DEFINE here == part = "authorization"
<1>1. Init /\ here => P!Auth!Init
  BY SameAuth DEF Init
<1>2. [Next]_vars /\ here => [P!Auth!Next]_(P!Auth!authorizationVars) /\ here'
  <2>1. Next /\ here => P!Auth!Next /\ here'
    BY SameAuth DEF Next
  <2>2. UNCHANGED vars /\ here => UNCHANGED P!Auth!authorizationVars /\ here'
    BY SameAuth DEF vars, P!Auth!authorizationVars, P!Auth!client, P!Auth!tokens,
        P!Auth!redirection
  <2> QED
    BY <2>1, <2>2
<1> QED
  BY <1>1, <1>2, PTL DEF Spec, P!Auth!Spec

LEMMA MonitorsBehaves == Spec /\ part = "status monitors" => P!Spec
<1> DEFINE here == part = "status monitors"
<1>1. Init /\ here => P!Init
  BY SameMonitors DEF Init
<1>2. [Next]_vars /\ here => [P!Next]_(P!statusMonitorVars) /\ here'
  <2>1. Next /\ here => P!Next /\ here'
    BY SameMonitors DEF Next
  <2>2. UNCHANGED vars /\ here => UNCHANGED P!statusMonitorVars /\ here'
    BY SameMonitors DEF vars, P!statusMonitorVars
  <2> QED
    BY <2>1, <2>2
<1> QED
  BY <1>1, <1>2, PTL DEF Spec, P!Spec

LEMMA SystemBehaves == Spec /\ part = "system" => P!System!Spec
<1> DEFINE here == part = "system"
<1>1. Init /\ here => P!System!Init
  BY SameSystem DEF Init
<1>2. [Next]_vars /\ here => [P!System!Next]_(P!System!systemVars) /\ here'
  <2>1. Next /\ here => P!System!Next /\ here'
    BY SameSystem DEF Next
  <2>2. UNCHANGED vars /\ here => UNCHANGED P!System!systemVars /\ here'
    BY SameSystem DEF vars, P!System!systemVars
  <2> QED
    BY <2>1, <2>2
<1> QED
  BY <1>1, <1>2, PTL DEF Spec, P!System!Spec

LEMMA OcspBehaves == Spec /\ part = "ocsp" => P!Ocsp!Spec
<1> DEFINE here == part = "ocsp"
<1>1. Init /\ here => P!Ocsp!Init
  BY SameOcsp DEF Init
<1>2. [Next]_vars /\ here => [P!Ocsp!Next]_(P!Ocsp!ocspVars) /\ here'
  <2>1. Next /\ here => P!Ocsp!Next /\ here'
    BY SameOcsp DEF Next
  <2>2. UNCHANGED vars /\ here => UNCHANGED P!Ocsp!ocspVars /\ here'
    BY SameOcsp DEF vars, P!Ocsp!ocspVars
  <2> QED
    BY <2>1, <2>2
<1> QED
  BY <1>1, <1>2, PTL DEF Spec, P!Ocsp!Spec

LEMMA IssuersBehaves == Spec /\ part = "token issuers" => P!Issuers!Spec
<1> DEFINE here == part = "token issuers"
<1>1. Init /\ here => P!Issuers!Init
  BY SameIssuers DEF Init
<1>2. [Next]_vars /\ here => [P!Issuers!Next]_(P!Issuers!issuersVars) /\ here'
  <2>1. Next /\ here => P!Issuers!Next /\ here'
    BY SameIssuers DEF Next
  <2>2. UNCHANGED vars /\ here => UNCHANGED P!Issuers!issuersVars /\ here'
    BY SameIssuers DEF vars, P!Issuers!issuersVars
  <2> QED
    BY <2>1, <2>2
<1> QED
  BY <1>1, <1>2, PTL DEF Spec, P!Issuers!Spec

LEMMA SearchBehaves == Spec /\ part = "discovery" => P!Search!Spec
<1> DEFINE here == part = "discovery"
<1>1. Init /\ here => P!Search!Init
  BY SameSearch DEF Init
<1>2. [Next]_vars /\ here => [P!Search!Next]_(P!Search!discoveryVars) /\ here'
  <2>1. Next /\ here => P!Search!Next /\ here'
    BY SameSearch DEF Next
  <2>2. UNCHANGED vars /\ here => UNCHANGED P!Search!discoveryVars /\ here'
    BY SameSearch DEF vars, P!Search!discoveryVars
  <2> QED
    BY <2>1, <2>2
<1> QED
  BY <1>1, <1>2, PTL DEF Spec, P!Search!Spec

LEMMA PagesBehaves == Spec /\ part = "pages" => Q!Pages!Spec
<1> DEFINE here == part = "pages"
<1>1. Init /\ here => Q!Pages!Init
  BY SamePages DEF Init
<1>2. [Next]_vars /\ here => [Q!Pages!Next]_(Q!Pages!pagingVars) /\ here'
  <2>1. Next /\ here => Q!Pages!Next /\ here'
    BY SamePages DEF Next
  <2>2. UNCHANGED vars /\ here => UNCHANGED Q!Pages!pagingVars /\ here'
    BY SamePages DEF vars, Q!Pages!pagingVars
  <2> QED
    BY <2>1, <2>2
<1> QED
  BY <1>1, <1>2, PTL DEF Spec, Q!Pages!Spec

LEMMA EndpointsBehaves == Spec /\ part = "transport" => C!Endpoints!Spec
<1> DEFINE here == part = "transport"
<1>1. Init /\ here => C!Endpoints!Init
  BY SameEndpoints DEF Init
<1>2. [Next]_vars /\ here => [C!Endpoints!Next]_(C!Endpoints!vars) /\ here'
  <2>1. Next /\ here => C!Endpoints!Next /\ here'
    BY SameEndpoints DEF Next
  <2>2. UNCHANGED vars /\ here => UNCHANGED C!Endpoints!vars /\ here'
    BY SameEndpoints DEF vars, C!Endpoints!vars
  <2> QED
    BY <2>1, <2>2
<1> QED
  BY <1>1, <1>2, PTL DEF Spec, C!Endpoints!Spec

-----------------------------------------------------------------------------
(* What is proved of each part *)

EventsOutSound == part = "events server" =>
    /\ EventsOut!TypeOK
    /\ EventsOut!FeedCurrent
    /\ EventsOut!ExpiredIsClosed

EventsInSound == part = "events client" =>
    /\ EventsIn!TypeOK
    /\ EventsIn!ActiveIsConnected
    /\ EventsIn!SourcesRequested

AuthSound == part = "authorization" =>
    /\ Auth!TypeOK
    /\ Auth!SelectedServer

MonitorsSound == part = "status monitors" =>
    /\ Monitors!TypeOK
    /\ Monitors!NothingLost

SystemSound == part = "system" =>
    /\ System!TypeOK
    /\ System!SelectedFirst
    /\ System!ToldIsCurrent

OcspSound == part = "ocsp" =>
    /\ Ocsp!TypeOK
    /\ Ocsp!SelectedFirst
    /\ Ocsp!CachedIsCurrent

IssuersSound == part = "token issuers" =>
    /\ Issuers!TypeOK
    /\ Issuers!RefetchTriggered

SearchSound == part = "discovery" =>
    /\ Search!TypeOK
    /\ Search!Patient
    /\ Search!BestFirst

PagesSound == part = "pages" =>
    /\ Pages!TypeOK
    /\ Pages!UniqueTimes
    /\ Pages!NothingMissed
    /\ Pages!Repeatable

EndpointsSound == part = "transport" =>
    /\ Endpoints!TypeOK
    /\ Endpoints!LegsKept
    /\ Endpoints!ActiveResolved
    /\ Endpoints!PatchHolds
    /\ Endpoints!ActiveAgrees
    /\ Endpoints!InFlightHidden
    /\ Endpoints!RoutesAnswer

LEMMA EventsOutAlways == Spec => []EventsOutSound
<1> DEFINE here == part = "events server"
<1>1. [Next]_vars => (here' <=> here)
  BY DEF Next, vars
<1>2. P!EventsOut!Spec => [](P!EventsOut!TypeOK /\ P!EventsOut!FeedCurrent
      /\ P!EventsOut!ExpiredIsClosed)
  BY P!ServerTypeCorrect, P!ServerFeedCurrent, P!ServerExpiredIsClosed, Parameters, PTL
<1>3. (here => P!EventsOut!TypeOK /\ P!EventsOut!FeedCurrent /\ P!EventsOut!ExpiredIsClosed)
      => EventsOutSound
  BY SameEventsOut DEF EventsOutSound
<1> HIDE DEF here
<1>4. Spec /\ here => P!EventsOut!Spec
  BY EventsOutBehaves DEF here
<1> QED
  BY <1>1, <1>2, <1>3, <1>4, PTL DEF Spec

LEMMA EventsInAlways == Spec => []EventsInSound
<1> DEFINE here == part = "events client"
<1>1. [Next]_vars => (here' <=> here)
  BY DEF Next, vars
<1>2. P!EventsIn!Spec => [](P!EventsIn!TypeOK /\ P!EventsIn!ActiveIsConnected
      /\ P!EventsIn!SourcesRequested)
  BY P!ClientTypeCorrect, P!SourcesRequestedHolds, Parameters, PTL
<1>3. (here => P!EventsIn!TypeOK /\ P!EventsIn!ActiveIsConnected /\ P!EventsIn!SourcesRequested)
      => EventsInSound
  BY SameEventsIn DEF EventsInSound
<1> HIDE DEF here
<1>4. Spec /\ here => P!EventsIn!Spec
  BY EventsInBehaves DEF here
<1> QED
  BY <1>1, <1>2, <1>3, <1>4, PTL DEF Spec

LEMMA AuthAlways == Spec => []AuthSound
<1> DEFINE here == part = "authorization"
<1>1. [Next]_vars => (here' <=> here)
  BY DEF Next, vars
<1>2. P!Auth!Spec => [](P!Auth!TypeOK /\ P!Auth!SelectedServer)
  BY P!AuthTypeCorrect, P!AuthSelectedServer, Parameters, PTL
<1>3. (here => P!Auth!TypeOK /\ P!Auth!SelectedServer) => AuthSound
  BY SameAuth DEF AuthSound
<1> HIDE DEF here
<1>4. Spec /\ here => P!Auth!Spec
  BY AuthBehaves DEF here
<1> QED
  BY <1>1, <1>2, <1>3, <1>4, PTL DEF Spec

LEMMA MonitorsAlways == Spec => []MonitorsSound
<1> DEFINE here == part = "status monitors"
<1>1. [Next]_vars => (here' <=> here)
  BY DEF Next, vars
<1>2. P!Spec => [](P!TypeOK /\ P!NothingLost)
  BY P!TypeCorrect, P!NothingLostHolds, Parameters, PTL
<1>3. (here => P!TypeOK /\ P!NothingLost) => MonitorsSound
  BY SameMonitors DEF MonitorsSound
<1> HIDE DEF here
<1>4. Spec /\ here => P!Spec
  BY MonitorsBehaves DEF here
<1> QED
  BY <1>1, <1>2, <1>3, <1>4, PTL DEF Spec

LEMMA SystemAlways == Spec => []SystemSound
<1> DEFINE here == part = "system"
<1>1. [Next]_vars => (here' <=> here)
  BY DEF Next, vars
<1>2. P!System!Spec => [](P!System!TypeOK /\ P!System!SelectedFirst /\ P!System!ToldIsCurrent)
  BY P!SystemTypeCorrect, P!SystemSelectedFirst, P!SystemToldIsCurrent, Parameters, PTL
<1>3. (here => P!System!TypeOK /\ P!System!SelectedFirst /\ P!System!ToldIsCurrent) => SystemSound
  BY SameSystem DEF SystemSound
<1> HIDE DEF here
<1>4. Spec /\ here => P!System!Spec
  BY SystemBehaves DEF here
<1> QED
  BY <1>1, <1>2, <1>3, <1>4, PTL DEF Spec

LEMMA OcspAlways == Spec => []OcspSound
<1> DEFINE here == part = "ocsp"
<1>1. [Next]_vars => (here' <=> here)
  BY DEF Next, vars
<1>2. P!Ocsp!Spec => [](P!Ocsp!TypeOK /\ P!Ocsp!SelectedFirst /\ P!Ocsp!CachedIsCurrent)
  BY P!OcspTypeCorrect, P!OcspSelectedFirst, P!OcspCachedIsCurrent, Parameters, PTL
<1>3. (here => P!Ocsp!TypeOK /\ P!Ocsp!SelectedFirst /\ P!Ocsp!CachedIsCurrent) => OcspSound
  BY SameOcsp DEF OcspSound
<1> HIDE DEF here
<1>4. Spec /\ here => P!Ocsp!Spec
  BY OcspBehaves DEF here
<1> QED
  BY <1>1, <1>2, <1>3, <1>4, PTL DEF Spec

LEMMA IssuersAlways == Spec => []IssuersSound
<1> DEFINE here == part = "token issuers"
<1>1. [Next]_vars => (here' <=> here)
  BY DEF Next, vars
<1>2. P!Issuers!Spec => [](P!Issuers!TypeOK /\ P!Issuers!RefetchTriggered)
  BY P!IssuersTypeCorrect, P!IssuersRefetchTriggered, Parameters, PTL
<1>3. (here => P!Issuers!TypeOK /\ P!Issuers!RefetchTriggered) => IssuersSound
  BY SameIssuers DEF IssuersSound
<1> HIDE DEF here
<1>4. Spec /\ here => P!Issuers!Spec
  BY IssuersBehaves DEF here
<1> QED
  BY <1>1, <1>2, <1>3, <1>4, PTL DEF Spec

LEMMA SearchAlways == Spec => []SearchSound
<1> DEFINE here == part = "discovery"
<1>1. [Next]_vars => (here' <=> here)
  BY DEF Next, vars
<1>2. P!Search!Spec => [](P!Search!TypeOK /\ P!Search!Patient /\ P!Search!BestFirst)
  BY P!SearchTypeCorrect, P!SearchPatient, P!SearchBestFirst, Parameters, PTL
<1>3. (here => P!Search!TypeOK /\ P!Search!Patient /\ P!Search!BestFirst) => SearchSound
  BY SameSearch DEF SearchSound
<1> HIDE DEF here
<1>4. Spec /\ here => P!Search!Spec
  BY SearchBehaves DEF here
<1> QED
  BY <1>1, <1>2, <1>3, <1>4, PTL DEF Spec

LEMMA PagesAlways == Spec => []PagesSound
<1> DEFINE here == part = "pages"
<1>1. [Next]_vars => (here' <=> here)
  BY DEF Next, vars
<1>2. Q!Pages!Spec => [](Q!Pages!TypeOK /\ Q!Pages!UniqueTimes /\ Q!Pages!NothingMissed
      /\ Q!Pages!Repeatable)
  BY Q!PagesTypeCorrect, Q!TimesUnique, Q!NothingMissedHolds, Q!RepeatableHolds, Parameters,
        QueryWsAssumption, PTL
<1>3. (here => Q!Pages!TypeOK /\ Q!Pages!UniqueTimes /\ Q!Pages!NothingMissed
      /\ Q!Pages!Repeatable) => PagesSound
  BY SamePages DEF PagesSound
<1> HIDE DEF here
<1>4. Spec /\ here => Q!Pages!Spec
  BY PagesBehaves DEF here
<1> QED
  BY <1>1, <1>2, <1>3, <1>4, PTL DEF Spec

LEMMA EndpointsAlways == Spec => []EndpointsSound
<1> DEFINE here == part = "transport"
<1>1. [Next]_vars => (here' <=> here)
  BY DEF Next, vars
<1>2. C!Endpoints!Spec => [](C!Endpoints!TypeOK /\ C!Endpoints!LegsKept
      /\ C!Endpoints!ActiveResolved /\ C!Endpoints!PatchHolds /\ C!Endpoints!ActiveAgrees
      /\ C!Endpoints!InFlightHidden /\ C!Endpoints!RoutesAnswer)
  BY C!TransportTypeCorrect, C!LegsKeptHolds, C!ActiveResolvedHolds, C!PatchHoldsAlways,
      C!ActiveAgreesAlways, C!InFlightHiddenAlways, C!RoutesAnswerAlways, Parameters,
      ConnectionAssumption, PTL
<1>3. (here => C!Endpoints!TypeOK /\ C!Endpoints!LegsKept /\ C!Endpoints!ActiveResolved
      /\ C!Endpoints!PatchHolds /\ C!Endpoints!ActiveAgrees /\ C!Endpoints!InFlightHidden
      /\ C!Endpoints!RoutesAnswer) => EndpointsSound
  BY SameEndpoints DEF EndpointsSound
<1> HIDE DEF here
<1>4. Spec /\ here => C!Endpoints!Spec
  BY EndpointsBehaves DEF here
<1> QED
  BY <1>1, <1>2, <1>3, <1>4, PTL DEF Spec

-----------------------------------------------------------------------------
(* The properties *)

\* The variables of whichever part keep their types.
THEOREM TypeCorrect == Spec => []TypeOK
<1>1. EventsOutSound /\ EventsInSound /\ AuthSound /\ MonitorsSound /\ SystemSound /\ OcspSound
      /\ IssuersSound /\ SearchSound /\ PagesSound /\ EndpointsSound => TypeOK
  BY DEF TypeOK, EventsOutSound, EventsInSound, AuthSound, MonitorsSound, SystemSound, OcspSound,
        IssuersSound, SearchSound, PagesSound, EndpointsSound
<1> QED
  BY <1>1, EventsOutAlways, EventsInAlways, AuthAlways, MonitorsAlways, SystemAlways, OcspAlways,
        IssuersAlways, SearchAlways, PagesAlways, EndpointsAlways, PTL

\* The messages of the events WebSocket end with the current states; the user has been told of
\* the System API in use, and the OCSP response that is kept is the server's last.
THEOREM FeedCurrentHolds == Spec => []FeedCurrent
<1>1. EventsOutSound /\ SystemSound /\ OcspSound => FeedCurrent
  BY DEF FeedCurrent, EventsOutSound, SystemSound, OcspSound
<1> QED
  BY <1>1, EventsOutAlways, SystemAlways, OcspAlways, PTL

\* The client of the events WebSocket is connected for each active receiver, and has asked for
\* its source.
THEOREM SourcesRequestedHolds == Spec => []SourcesRequested
<1>1. EventsInSound => SourcesRequested
  BY DEF SourcesRequested, EventsInSound
<1> QED
  BY <1>1, EventsInAlways, PTL

\* The authorization server, System API and OCSP server in use are the ones selected, and those
\* found by DNS-SD are listed with the best first.
THEOREM SelectedServerHolds == Spec => []SelectedServer
<1>1. AuthSound /\ SystemSound /\ OcspSound /\ SearchSound => SelectedServer
  BY DEF SelectedServer, AuthSound, SystemSound, OcspSound, SearchSound
<1> QED
  BY <1>1, AuthAlways, SystemAlways, OcspAlways, SearchAlways, PTL

\* The latest status of a monitor is reported or will be, keys are fetched again for each token
\* that was refused, DNS-SD has had its time, and no client of the Query API misses a resource
\* between two pages, whatever happens meanwhile.
THEOREM NothingLostHolds == Spec => []NothingLost
<1>1. MonitorsSound /\ IssuersSound /\ SearchSound /\ PagesSound => NothingLost
  BY DEF NothingLost, MonitorsSound, IssuersSound, SearchSound, PagesSound
<1> QED
  BY <1>1, MonitorsAlways, IssuersAlways, SearchAlways, PagesAlways, PTL

\* An endpoint of any transport has the parameters it was made with and what was asked for, and
\* is told of as it is.
THEOREM EndpointsTrueHolds == Spec => []EndpointsTrue
<1>1. EndpointsSound => EndpointsTrue
  BY DEF EndpointsTrue, EndpointsSound
<1> QED
  BY <1>1, EndpointsAlways, PTL

\* No step of a part ends a connection of the events WebSocket that is not silent for too long.
LEMMA SilentStays ==
    Spec => [][part = "events server" => EventsOut!SilentWhenExpired]_vars
<1> DEFINE here == part = "events server"
<1>1. [Next]_vars => (here' <=> here)
  BY DEF Next, vars
<1>2. P!EventsOut!Spec => [][P!EventsOut!SilentWhenExpired]_(P!EventsOut!eventsServerVars)
  BY P!ServerNoEarlyExpiry, Parameters DEF P!EventsOut!NoEarlyExpiry
<1>3. [Next]_vars /\ [P!EventsOut!SilentWhenExpired]_(P!EventsOut!eventsServerVars)
      => [here => EventsOut!SilentWhenExpired]_vars
  <2>1. Next /\ here => UNCHANGED part /\ RestUnchanged(16)
    BY DEF Next
  <2>2. RestUnchanged(16) => UNCHANGED <<v17, v18, v19>>
    BY DEF RestUnchanged, Unless
  <2>3. UNCHANGED part /\ UNCHANGED P!EventsOut!eventsServerVars
        /\ UNCHANGED <<v17, v18, v19>>
        => UNCHANGED vars
    BY DEF vars, P!EventsOut!eventsServerVars, P!EventsOut!world, P!EventsOut!model,
        P!EventsOut!history
  <2> QED
    BY <2>1, <2>2, <2>3, SameEventsOut
<1>4. Spec /\ here => P!EventsOut!Spec
  BY EventsOutBehaves
<1>5. [Next]_vars /\ ~here => [here => EventsOut!SilentWhenExpired]_vars
  OBVIOUS
<1> HIDE DEF here
<1>6. Spec => [][here => EventsOut!SilentWhenExpired]_vars
  BY <1>1, <1>2, <1>3, <1>4, <1>5, PTL DEF Spec
<1> QED
  BY <1>6 DEF here

\* No step of a part reports an activated monitor unhealthy within its delay.
LEMMA HealthyStays ==
    Spec => [][part = "status monitors" => Monitors!HealthyWhileActivating]_vars
<1> DEFINE here == part = "status monitors"
<1>1. [Next]_vars => (here' <=> here)
  BY DEF Next, vars
<1>2. P!Spec => [][P!HealthyWhileActivating]_(P!statusMonitorVars)
  BY P!DelaysHold, Parameters DEF P!DelaysAfterActivation
<1>3. [Next]_vars /\ [P!HealthyWhileActivating]_(P!statusMonitorVars)
      => [here => Monitors!HealthyWhileActivating]_vars
  <2>1. Next /\ here => UNCHANGED part /\ RestUnchanged(10)
    BY DEF Next
  <2>2. RestUnchanged(10) => UNCHANGED <<v11, v12, v13, v14, v15, v16, v17, v18, v19>>
    BY DEF RestUnchanged, Unless
  <2>3. UNCHANGED part /\ UNCHANGED P!statusMonitorVars
        /\ UNCHANGED <<v11, v12, v13, v14, v15, v16, v17, v18, v19>>
        => UNCHANGED vars
    BY DEF vars, P!statusMonitorVars
  <2> QED
    BY <2>1, <2>2, <2>3, SameMonitors
<1>4. Spec /\ here => P!Spec
  BY MonitorsBehaves
<1>5. [Next]_vars /\ ~here => [here => Monitors!HealthyWhileActivating]_vars
  OBVIOUS
<1> HIDE DEF here
<1>6. Spec => [][here => Monitors!HealthyWhileActivating]_vars
  BY <1>1, <1>2, <1>3, <1>4, <1>5, PTL DEF Spec
<1> QED
  BY <1>6 DEF here

\* No step of a part ends a connection of the events WebSocket before it has been silent for too
\* long, or reports an activated monitor unhealthy within its delay.
THEOREM NothingTooSoonHolds == Spec => NothingTooSoon
<1> DEFINE silent  == part = "events server" => EventsOut!SilentWhenExpired
           healthy == part = "status monitors" => Monitors!HealthyWhileActivating
<1>1. Spec => [][silent]_vars
  BY SilentStays
<1>2. Spec => [][healthy]_vars
  BY HealthyStays
<1>3. [silent]_vars /\ [healthy]_vars => [silent /\ healthy]_vars
  OBVIOUS
<1> HIDE DEF silent, healthy
<1>4. Spec => [][silent /\ healthy]_vars
  BY <1>1, <1>2, <1>3, PTL
<1> QED
  BY <1>4 DEF NothingTooSoon, silent, healthy

\* No step of a part registers a client with a server that still knows it.
THEOREM NoNeedlessRegistrationHolds == Spec => NoNeedlessRegistration
<1> DEFINE here == part = "authorization"
<1>1. [Next]_vars => (here' <=> here)
  BY DEF Next, vars
<1>2. P!Auth!Spec => [][P!Auth!OnlyWhenNeeded]_(P!Auth!authorizationVars)
  BY P!AuthNoNeedlessRegistration, Parameters DEF P!Auth!NoNeedlessRegistration
<1>3. [Next]_vars /\ [P!Auth!OnlyWhenNeeded]_(P!Auth!authorizationVars)
      => [here => Auth!OnlyWhenNeeded]_vars
  <2>1. Next /\ here => UNCHANGED part /\ RestUnchanged(19)
    BY DEF Next
  <2>3. UNCHANGED part /\ UNCHANGED P!Auth!authorizationVars
        => UNCHANGED vars
    BY DEF vars, P!Auth!authorizationVars, P!Auth!client, P!Auth!tokens, P!Auth!redirection
  <2> QED
    BY <2>1, <2>3, SameAuth
<1>4. Spec /\ here => P!Auth!Spec
  BY AuthBehaves
<1>5. [Next]_vars /\ ~here => [here => Auth!OnlyWhenNeeded]_vars
  OBVIOUS
<1> HIDE DEF here
<1>6. Spec => [][here => Auth!OnlyWhenNeeded]_vars
  BY <1>1, <1>2, <1>3, <1>4, <1>5, PTL DEF Spec
<1> QED
  BY <1>6 DEF NoNeedlessRegistration, here

=============================================================================
