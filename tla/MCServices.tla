----------------------------- MODULE MCServices -----------------------------
(***************************************************************************)
(* The parts of Services with a few of everything, and beside them those   *)
(* that share no state with them either: the device model of the control   *)
(* protocol, its sessions (IS-12), its constraints and the restore of the  *)
(* device (IS-14), the session descriptions of transports (IS-05), the     *)
(* example node, and the queries of a registry's Query API (IS-04).        *)
(***************************************************************************)
EXTENDS Services, Sequences, MCResourceQuery

CONSTANTS c1, r1, r2, s1, s2, a, b, sa, sb, m1, m2

\* Two monitors with different delays
Delays == [m \in {m1, m2} |-> IF m = m1 THEN 1 ELSE 2]

\* The sources and places are those of the events client only, which tells none apart.
Interchangeable == Permutations({s1, s2}) \cup Permutations({a, b})

\* Advertisements of two registries: of both service types, in both classes of domain,
\* one of them unsuitable
Ad(uri, version, priority, type, class, suitable) ==
    [uri |-> uri, version |-> version, priority |-> priority, type |-> type,
     domain |-> class, suitable |-> suitable]

Adverts ==
    {Ad(sa, 3, 1, "register", "unicast", TRUE), Ad(sa, 2, 0, "registration", "unicast", TRUE),
     Ad(sb, 3, 0, "register", "local", TRUE), Ad(sb, 2, 0, "registration", "local", TRUE),
     Ad(sa, 3, 0, "register", "unicast", FALSE), Ad(sb, 3, 1, "register", "unicast", TRUE)}

\* Backups of a block that begins with one member, r1.  The device is restored from
\* a few of them, and all of them are tried.
Member(role, oid, constant) == [role |-> role, oid |-> oid, constant |-> constant]

Holder(class) == [class |-> class, items |-> <<1>>, fixed |-> 1]

Both == <<Member(r1, 3, TRUE), Member(r2, 4, FALSE)>>

Backup(how, members, h1, h2) ==
    [mode |-> how, members |-> members, holders |-> [r \in {r1, r2} |-> IF r = r1 THEN h1 ELSE h2]]

Backups == {Backup("rebuild", <<>>, none, none),
            Backup("rebuild", Both, Holder(TRUE), Holder(TRUE)),
            Backup("rebuild", <<Member(r2, 4, FALSE)>>, none, Holder(TRUE)),
            Backup("rebuild", <<Member(r2, 3, TRUE)>>, none, Holder(TRUE))}

AllBackups ==
    {Backup(how, members, h1, h2) :
        how     \in {"modify", "rebuild"},
        members \in {<<>>, <<Member(r1, 3, TRUE)>>, <<Member(r2, 3, TRUE)>>, <<Member(r2, 4, FALSE)>>,
                     Both, <<Member(r2, 4, FALSE), Member(r1, 3, TRUE)>>,
                     <<Member(r1, 3, FALSE), Member(r2, 4, FALSE)>>,
                     <<Member(r1, 3, TRUE), Member(r2, 3, TRUE)>>},
        h1      \in {none, Holder(TRUE)},
        h2      \in {none, Holder(TRUE), Holder(FALSE)}}

\* The user's code refuses one thing at most.
Trials == [data : AllBackups,
           callback : {c \in [removes : BOOLEAN, creates : BOOLEAN, allows : BOOLEAN] :
                         \/ c.removes /\ (c.creates \/ c.allows)
                         \/ c.creates /\ c.allows}]

ItemChanges == {[kind |-> "value", items |-> <<0>>], [kind |-> "changed", index |-> 1, value |-> 1],
                [kind |-> "added", value |-> 0], [kind |-> "removed", index |-> 1]}

\* A session
Control == INSTANCE ControlProtocol WITH
              Role <- {r1, r2}, Block <- 2, Rebuildable <- {r1}, None <- none,
              Connection <- {c1}, Worker <- {3}, Changes <- ItemChanges,
              InitMembers <- {Member(r1, 3, TRUE)}, DataSets <- Backups,
              MaxItems <- 2, MaxCommands <- 3, MaxChanges <- 1, MaxRestores <- 1,
              device <- v1, wire <- v2, notice <- v3, grain <- v4, updated <- v5,
              notified <- v6, outgoing <- v7, copy <- v8, asked <- v9, answered <- v10,
              changes <- v11, restores <- v12

\* Two receivers and two senders.  A class of the example and two datatypes are asked about,
\* and what they inherit from is erased.
Model == INSTANCE ControlModel WITH
              HowMany <- 2, ErasableClasses <- {<<1, 2>>}, ErasableTypes <- {"NcDescriptor"},
              AskedClasses <- {<<1, 2, 0, 2>>},
              AskedTypes <- {"NcPropertyDescriptor", "NcMethodResultError"},
              classes <- v1, types <- v2, objects <- v3, setup <- v4, manager <- v5,
              query <- v6, erased <- v7

-----------------------------------------------------------------------------
AllInit ==
    \/ Init
    \/ part = "control protocol" /\ Control!Init /\ RestUnused(12)
    \/ part = "control model" /\ Model!Init /\ RestUnused(7)
    \/ part = "constraints" /\ Settings!Init /\ RestUnused(4)
    \/ part = "example node" /\ Example!Init /\ RestUnused(11)
    \/ part = "session description" /\ Sessions!Init /\ RestUnused(5)
    \/ part = "resource queries" /\ Queries!Init /\ RestUnused(10)

OthersNext ==
    /\ UNCHANGED part
    /\ \/ part = "control protocol" /\ Control!Next /\ RestUnchanged(12)
       \/ part = "control model" /\ Model!Next /\ RestUnchanged(7)
       \/ part = "constraints" /\ Settings!Next /\ RestUnchanged(4)
       \/ part = "example node" /\ Example!Next /\ RestUnchanged(11)
       \/ part = "session description" /\ Sessions!Next /\ RestUnchanged(5)
       \/ part = "resource queries" /\ Queries!Next /\ RestUnchanged(10)

AllNext == Next \/ OthersNext

AllSpec == AllInit /\ [][AllNext]_vars

-----------------------------------------------------------------------------
(* The properties of the others, each stated with its definition *)

\* ControlProtocol: a restore does what it reports, and what was validated.
\* ControlModel: objects are what their classes say, and where their blocks say.
\* Constraints: what a property is set to is of its type, and within its constraints.
\* The resources of the example node refer to one another, and its receivers accept what
\* its senders send.  A session description says of a stream what its sender's resources
\* do.  (And the variables of each have their types.)
DeviceTrue ==
    /\ part = "control protocol" => Control!TypeOK /\ Control!RestoreTrue
    /\ part = "control model" =>
         /\ Model!TypeOK
         /\ Model!ObjectsAsDescribed /\ Model!JsonAsDescribed
         /\ Model!DomainsExist /\ Model!TreeClosed
    /\ part = "constraints" =>
         /\ Settings!TypeOK
         /\ Settings!TypeKept /\ Settings!LimitsKept /\ Settings!Protected /\ Settings!TypesAgree
    /\ part = "example node" =>
         /\ Example!TypeOK
         /\ Example!ReferencesResolve /\ Example!DeviceLists /\ Example!ReceiversAccept
         /\ Example!ControlsServed /\ Example!MapsValid
    /\ part = "session description" =>
         /\ Sessions!TypeOK
         /\ Sessions!FormatKept /\ Sessions!ChannelsKept /\ Sessions!LegsHeard /\ Sessions!SessionKept
    /\ part = "resource queries" => Queries!TypeOK

\* ControlProtocol: the notifications in their order tell what an object is now.
\* ControlModel: every object is found, and classes and datatypes with everything they
\* inherit.  The task of the example node ends with it, and its values agree.  A receiver
\* accepts the session descriptions of the streams it can receive.  A query of resources
\* is read, and means, what its grammar and operators say, and a subscriber has been told
\* of the resources that match, in the form of its version.
AnswersComplete ==
    /\ part = "control protocol" => Control!ViewCurrent
    /\ part = "control model" => Model!ListClosed /\ Model!ElementsDistinct
                                 /\ Model!AllReached /\ Model!AnswersComplete
    /\ part = "example node" =>
         /\ Example!MonitorsFollow /\ Example!SendersStart
         /\ Example!EventsAgree /\ Example!NobodyLeft
    /\ part = "session description" => Sessions!AcceptedIfSuited
    /\ part = "resource queries" =>
         /\ Queries!ParsedAsWritten /\ Queries!EvaluatesAsMeant /\ Queries!BasicIsRql
         /\ Queries!FeedAgrees /\ Queries!ShownByVersion

\* ControlProtocol: the members of the block are the objects there are.
BlocksIntact == part = "control protocol" => Control!BlocksIntact

=============================================================================
