------------------------------ MODULE Services ------------------------------
(***************************************************************************)
(* Services of a node that share no state but the mutex of the model: both *)
(* ends of the events WebSocket (IS-07), the client of authorization       *)
(* servers and the keys of token issuers (IS-10), the clients of System    *)
(* APIs (IS-09) and OCSP servers, DNS-SD, the status monitors (BCP-008)    *)
(* and the endpoints of transports (IS-05); and the pages of a registry's  *)
(* Query API (IS-04).  A behaviour is that of one of them: "part" says of  *)
(* which.  A variable of Parts stands for variables of several parts; one  *)
(* that has the same name in two parts is the same in both.                *)
(***************************************************************************)
EXTENDS Integers, FiniteSets, Parts

CONSTANTS
    Source, Connection, Health, Interval, EventsMaxNow, MaxState, MaxCommands, MaxBeats,
    Receiver, Uri, ClientSource, MaxActivations,
    Service, Nobody, MaxServices,           \* servers of each kind, and no server
    MaxDiscoveries, MaxFlows, MaxRestarts,
    Data, ValidData,                        \* configurations, and those the schema accepts
    MaxRenewals,
    Issuer, Used, MaxRotations,
    Advert, MaxReplies,
    Monitor, Domain, ActiveDomain, OptionalDomain, Delay, MaxNow, MaxReports, MaxRequests,
    MaxDelay,                               \* the longest delay
    Id, Wanted, PageLimits, MaxTime,
    Endpoint, Patches, AutoValue, Free, RtpPort, GroupOf, MaxPatches

EventsOut == INSTANCE EventsServer WITH
              MaxNow <- EventsMaxNow,
              state <- v6, enabled <- v2, wire <- v3, notice <- v4, entries <- v5, grain <- v8,
              updated <- v9, notified <- v10, outgoing <- v11, now <- v1, wake <- v12,
              expiry <- v13, sent <- v14, received <- v15, asked <- v7, overtaken <- v16

EventsIn == INSTANCE EventsClient WITH
              Source <- ClientSource,
              params <- v2, subscriptions <- v3, connections <- v4, client <- v1, heard <- v6,
              closing <- v7, chain <- v8, activating <- v9, count <- v5, holder <- v10,
              readers <- v11

Auth == INSTANCE Authorization WITH
              Server <- Service,
              settings <- v8, mode <- v2, asked <- v7, services <- v3, failed <- v4, server <- v9,
              clients <- v10, file <- v11, lapsed <- v12, registered <- v13, keys <- v1,
              token <- v14, held <- v15, flow <- v16, state <- v6, flows <- v17,
              callback <- v18, waking <- v19, count <- v5

Monitors == INSTANCE StatusMonitor WITH
              now <- v1, present <- v2, mon <- v3, flag <- v4, thread <- v5, wakeAt <- v6,
              scanned <- v7, last <- v8, reports <- v9, requests <- v10

System == INSTANCE SystemBehaviour WITH
              Valid <- ValidData, None <- Nobody,
              mode <- v2, at <- v5, services <- v3, client <- v1, known <- v8, failed <- v4,
              fetch <- v6, told <- v9, answer <- v10, blamed <- v7

Ocsp == INSTANCE OcspBehaviour WITH
              Server <- Service, None <- Nobody,
              mode <- v2, at <- v5, services <- v3, client <- v1, base <- v8, failed <- v4,
              fetch <- v6, files <- v9, certs <- v10, cached <- v11, blamed <- v7

Issuers == INSTANCE TokenIssuers WITH
              None <- Nobody,
              fetching <- v2, issuer <- v3, metadata <- v4, keys <- v1, made <- v6,
              current <- v7, at <- v5, target <- v8, got <- v9, refused <- v10, since <- v11

Search == INSTANCE Discovery WITH
              method <- v1, place <- v2, domain <- v3, browses <- v4, enough <- v5,
              results <- v6, replies <- v7, elapsed <- v8, first <- v9, linked <- v10,
              canceled <- v11, outcome <- v12, list <- v13, foreign <- v14

Pages == INSTANCE Paging WITH
              Limits <- PageLimits,
              clock <- v1, there <- v2, created <- v3, updated <- v4, client <- v5

Endpoints == INSTANCE Transport WITH
              Auto <- AutoValue, Null <- Nobody,
              endpoint <- v1, staged <- v2, active <- v3, subscription <- v4,
              transportfile <- v5, reader <- v6, accepted <- v7, count <- v8

\* The marks for "none" are no values of the sets, what is queried or subscribed to is
\* finite, and transports have the parameters that the application gives them.
ASSUME ServicesAssumption ==
    /\ IsFiniteSet(Source) /\ Health \notin Source
    /\ {Interval, EventsMaxNow, MaxState, MaxCommands, MaxBeats} \subseteq Nat
    /\ "none" \notin Receiver \cup Uri /\ MaxActivations \in Nat
    /\ IsFiniteSet(Service) /\ Nobody \notin Service
    /\ {MaxServices, MaxFlows, MaxRenewals, MaxRotations, MaxReplies} \subseteq Nat
    /\ ValidData \subseteq Data
    /\ Used \in Issuer /\ Nobody \notin Issuer
    /\ \A ad \in Advert : ad.version \in Nat /\ ad.priority \in Nat
    /\ Monitor # {} /\ ActiveDomain \subseteq Domain
    /\ MaxDelay \in Nat /\ Delay \in [Monitor -> 0..MaxDelay]
    /\ MaxNow \in Nat \ {0} /\ MaxReports \in Nat /\ MaxRequests \in Nat
    /\ IsFiniteSet(Id) /\ Wanted \subseteq Id /\ PageLimits \subseteq Nat /\ MaxTime \in Nat \ {0}
    /\ Endpoints!ValuesDistinct /\ Endpoints!EndpointsMade /\ Endpoints!FilesParsed

-----------------------------------------------------------------------------
Init ==
    \/ part = "events server" /\ EventsOut!Init /\ RestUnused(16)
    \/ part = "events client" /\ EventsIn!Init /\ RestUnused(11)
    \/ part = "authorization" /\ Auth!Init /\ RestUnused(19)
    \/ part = "status monitors" /\ Monitors!Init /\ RestUnused(10)
    \/ part = "system" /\ System!Init /\ RestUnused(10)
    \/ part = "ocsp" /\ Ocsp!Init /\ RestUnused(11)
    \/ part = "token issuers" /\ Issuers!Init /\ RestUnused(11)
    \/ part = "discovery" /\ Search!Init /\ RestUnused(14)
    \/ part = "pages" /\ Pages!Init /\ RestUnused(5)
    \/ part = "transport" /\ Endpoints!Init /\ RestUnused(8)

Next ==
    /\ UNCHANGED part
    /\ \/ part = "events server" /\ EventsOut!Next /\ RestUnchanged(16)
       \/ part = "events client" /\ EventsIn!Next /\ RestUnchanged(11)
       \/ part = "authorization" /\ Auth!Next /\ RestUnchanged(19)
       \/ part = "status monitors" /\ Monitors!Next /\ RestUnchanged(10)
       \/ part = "system" /\ System!Next /\ RestUnchanged(10)
       \/ part = "ocsp" /\ Ocsp!Next /\ RestUnchanged(11)
       \/ part = "token issuers" /\ Issuers!Next /\ RestUnchanged(11)
       \/ part = "discovery" /\ Search!Next /\ RestUnchanged(14)
       \/ part = "pages" /\ Pages!Next /\ RestUnchanged(5)
       \/ part = "transport" /\ Endpoints!Next /\ RestUnchanged(8)

Spec == Init /\ [][Next]_vars

-----------------------------------------------------------------------------
(* The properties of each, stated with its definition *)

\* The types of the variables.
TypeOK ==
    /\ part = "events server" => EventsOut!TypeOK
    /\ part = "events client" => EventsIn!TypeOK
    /\ part = "authorization" => Auth!TypeOK
    /\ part = "status monitors" => Monitors!TypeOK
    /\ part = "system" => System!TypeOK
    /\ part = "ocsp" => Ocsp!TypeOK
    /\ part = "token issuers" => Issuers!TypeOK
    /\ part = "discovery" => Search!TypeOK
    /\ part = "pages" => Pages!TypeOK
    /\ part = "transport" => Endpoints!TypeOK

\* EventsServer: the last message about a source tells its current state, and
\* connections and what the model knows of them stay together.  SystemBehaviour: the user
\* knows the last answer of the service in use.  OcspBehaviour: the response that is kept
\* is the server's last.
FeedCurrent ==
    /\ part = "events server" => EventsOut!FeedCurrent /\ EventsOut!ExpiredIsClosed
    /\ part = "system" => System!ToldIsCurrent
    /\ part = "ocsp" => Ocsp!CachedIsCurrent

\* EventsClient: an active receiver is connected, and a connection is asked for
\* the sources its receivers want.
SourcesRequested ==
    part = "events client" => EventsIn!ActiveIsConnected /\ EventsIn!SourcesRequested

\* Authorization: the server in use is the one selected.  SystemBehaviour and
\* OcspBehaviour: it is the first of the list, and those left there have not failed.
\* Discovery: the list has everything that was found, the best first.
SelectedServer ==
    /\ part = "authorization" => Auth!SelectedServer
    /\ part = "system" => System!SelectedFirst
    /\ part = "ocsp" => Ocsp!SelectedFirst
    /\ part = "discovery" => Search!BestFirst

\* Authorization: no client is registered twice.
NoNeedlessRegistration == [][part = "authorization" => Auth!OnlyWhenNeeded]_vars

\* StatusMonitor: the latest status is reported, or will be.  TokenIssuers: the keys are
\* fetched again for each token that was refused, or will be.  Discovery: nobody gives up
\* before the daemon has had its time.  Paging: a client that follows the links of pages
\* misses nothing.
NothingLost ==
    /\ part = "status monitors" => Monitors!NothingLost
    /\ part = "token issuers" => Issuers!RefetchTriggered
    /\ part = "discovery" => Search!Patient
    /\ part = "pages" => Pages!UniqueTimes /\ Pages!NothingMissed /\ Pages!Repeatable

\* EventsServer: a connection is expired only if it has been silent.  StatusMonitor: no
\* activated domain is reported unhealthy within its delay.
NothingTooSoon ==
    [][(part = "events server" => EventsOut!SilentWhenExpired) /\
       (part = "status monitors" => Monitors!HealthyWhileActivating)]_vars

\* Transport: the parameters of an endpoint are those it was made with, what was asked
\* for, and what everybody is told; and every route answers.
EndpointsTrue ==
    part = "transport" =>
       /\ Endpoints!LegsKept /\ Endpoints!ActiveResolved /\ Endpoints!PatchHolds
       /\ Endpoints!ActiveAgrees /\ Endpoints!InFlightHidden /\ Endpoints!RoutesAnswer

\* TokenIssuers: the keys of an issuer are fetched after its metadata.
KeysFollowMetadata == part = "token issuers" => Issuers!KeysFollowMetadata

=============================================================================
