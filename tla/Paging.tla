------------------------------- MODULE Paging -------------------------------
(***************************************************************************)
(* The pages of the Query API: the times of creation and update that order *)
(* the resources of a registry (nmos/resources.h, resources.cpp), and      *)
(* GET of a resource type with the paging parameters of a query            *)
(* (nmos/query_utils.cpp, paging_utils.h, query_api.cpp).                  *)
(*                                                                         *)
(* A client asks for the last page and then follows the "next" and "prev"  *)
(* links of the replies, in any order, while resources are inserted,       *)
(* modified, erased and forgotten.  GET holds the shared lock and all else *)
(* the exclusive one, so each is one action.                               *)
(*                                                                         *)
(* Abstracted: a time is a number, and the clock may stand still while     *)
(* several changes are made; the query is a fixed set of resources that    *)
(* match it; RQL, downgrades and the body of the reply are left out.       *)
(***************************************************************************)
EXTENDS Integers, FiniteSets

CONSTANTS
    Id,         \* ids of resources
    Wanted,     \* those of them that the client's query matches
    Limits,     \* the limits the client may ask for, after the server's maximum
    MaxTime     \* bound: the clock and the times stop here

VARIABLES
    clock,      \* tai_now
    there,      \* each resource: "unknown", "extant", or "erased" and not yet forgotten
    created,    \* when it was created
    updated,    \* when it was last updated, which is once more when erased
    client      \* the client: its order, the times between which it has been told
                \*   everything, and what it has been told

pagingVars == <<clock, there, created, updated, client>>

Known == {i \in Id : there[i] # "unknown"}

-----------------------------------------------------------------------------
(* Times *)

\* most_recent_update: the greatest, of extant and erased resources, or none
MostRecent ==
    IF Known = {} THEN 0
    ELSE CHOOSE t \in {updated[i] : i \in Known} : \A i \in Known : updated[i] <= t

\* strictly_increasing_update
NextTime == IF clock > MostRecent THEN clock ELSE MostRecent + 1

\* insert_resource, which may be of one that was erased
Insert(i) ==
    /\ there[i] # "extant"
    /\ NextTime <= MaxTime
    /\ there' = [there EXCEPT ![i] = "extant"]
    /\ created' = [created EXCEPT ![i] = NextTime]
    /\ updated' = [updated EXCEPT ![i] = NextTime]
    /\ UNCHANGED <<clock, client>>

\* modify_resource
Modify(i) ==
    /\ there[i] = "extant"
    /\ NextTime <= MaxTime
    /\ updated' = [updated EXCEPT ![i] = NextTime]
    /\ UNCHANGED <<clock, there, created, client>>

\* erase_resource
Erase(i) ==
    /\ there[i] = "extant"
    /\ NextTime <= MaxTime
    /\ there' = [there EXCEPT ![i] = "erased"]
    /\ updated' = [updated EXCEPT ![i] = NextTime]
    /\ UNCHANGED <<clock, created, client>>

\* forget_erased_resources, seconds after it was erased: by then the clock has
\* passed the time of that.
Forget(i) ==
    /\ there[i] = "erased"
    /\ updated[i] < clock
    /\ there' = [there EXCEPT ![i] = "unknown"]
    /\ UNCHANGED <<clock, created, updated, client>>

Tick ==
    /\ clock < MaxTime
    /\ clock' = clock + 1
    /\ UNCHANGED <<there, created, updated, client>>

-----------------------------------------------------------------------------
(* Pages *)

\* The cursor of a resource: extract_cursor
Cursor(order, i) == IF order = "create" THEN created[i] ELSE updated[i]

\* make_bounded_range, and the filter of the query: since is exclusive and until
\* inclusive.
Matching(order, since, until) ==
    {i \in Wanted : there[i] = "extant" /\ since < Cursor(order, i) /\ Cursor(order, i) <= until}

\* take_first: the index is in descending order, so the newest of them
Newest(order, all, limit) ==
    {i \in all : Cardinality({j \in all : Cursor(order, j) > Cursor(order, i)}) < limit}

\* take_last
Oldest(order, all, limit) ==
    {i \in all : Cardinality({j \in all : Cursor(order, j) < Cursor(order, i)}) < limit}

Greatest(order, ids) == CHOOSE t \in {Cursor(order, i) : i \in ids} : \A i \in ids : Cursor(order, i) <= t

\* cursor_based_page when since is not specified: the newest, and since is moved
\* to the next resource that did not get into the page.
LastPage(order, since, until, limit) ==
    LET all  == Matching(order, since, until)
        page == Newest(order, all, limit)
    IN  [ids   |-> page,
         since |-> IF limit = 0 THEN until
                   ELSE IF page = all THEN since ELSE Greatest(order, all \ page),
         until |-> until]

\* cursor_based_page when since is specified: the oldest, and until is moved to the
\* newest of the page.
FirstPage(order, since, until, limit) ==
    LET all  == Matching(order, since, until)
        page == Oldest(order, all, limit)
    IN  [ids   |-> page,
         since |-> since,
         until |-> IF limit = 0 THEN since
                   ELSE IF page = all THEN until ELSE Greatest(order, page)]

\* resource_paging: until is no later than the most recent update, unless since is.
\* A request with since after until is refused, and that is all.
Until(since, until) ==
    IF MostRecent < since THEN since
    ELSE IF MostRecent < until THEN MostRecent ELSE until

\* The client's requests.  It keeps the times between which it has been told
\* everything, and what it was told, with its times.
Told(ids) == [i \in Id |-> IF i \in ids THEN Cursor(client.order, i) ELSE client.told[i]]

\* The first request, in either order
GetLast(order, limit) ==
    /\ client.order = "none"
    /\ LET page == LastPage(order, 0, Until(0, MaxTime), limit) IN
       client' = [order |-> order, since |-> page.since, until |-> page.until,
                  told  |-> [i \in Id |-> IF i \in page.ids THEN Cursor(order, i) ELSE 0]]
    /\ UNCHANGED <<clock, there, created, updated>>

\* The link "next": paging.since is the X-Paging-Until of the last reply.
GetNext(limit) ==
    /\ client.order # "none"
    /\ LET page == FirstPage(client.order, client.until, Until(client.until, MaxTime), limit) IN
       client' = [client EXCEPT !.until = page.until, !.told = Told(page.ids)]
    /\ UNCHANGED <<clock, there, created, updated>>

\* The link "prev": paging.until is the X-Paging-Since.
GetPrev(limit) ==
    /\ client.order # "none"
    /\ LET page == LastPage(client.order, 0, Until(0, client.since), limit) IN
       client' = [client EXCEPT !.since = page.since, !.told = Told(page.ids)]
    /\ UNCHANGED <<clock, there, created, updated>>

-----------------------------------------------------------------------------
Init ==
    /\ clock = 1
    /\ there = [i \in Id |-> "unknown"]
    /\ created = [i \in Id |-> 0]
    /\ updated = [i \in Id |-> 0]
    /\ client = [order |-> "none", since |-> 0, until |-> 0, told |-> [i \in Id |-> 0]]

Next ==
    \/ \E i \in Id : Insert(i) \/ Modify(i) \/ Erase(i) \/ Forget(i)
    \/ Tick
    \/ \E limit \in Limits :
        \/ \E order \in {"create", "update"} : GetLast(order, limit)
        \/ GetNext(limit) \/ GetPrev(limit)

Spec == Init /\ [][Next]_pagingVars

-----------------------------------------------------------------------------
(* Properties *)

TypeOK ==
    /\ clock \in 1..MaxTime
    /\ there \in [Id -> {"unknown", "extant", "erased"}]
    /\ created \in [Id -> 0..MaxTime]
    /\ updated \in [Id -> 0..MaxTime]
    /\ client \in [order : {"none", "create", "update"}, since : 0..MaxTime,
                   until : 0..MaxTime, told : [Id -> 0..MaxTime]]

\* "the created/updated indices ensure uniqueness to satisfy the requirements of
\* Query API cursor-based paging": no two resources have one time, whether or not
\* the clock moves, and however the newest of them come and go.
UniqueTimes ==
    \A i, j \in Known : i # j => created[i] # created[j] /\ updated[i] # updated[j]

\* A client that follows the links has been told of every resource created, or
\* updated, between the times it has come to, as it is now: what changes between
\* its requests gets a time that it has not reached, and no page leaves anything
\* out between itself and the next.
NothingMissed ==
    client.order # "none" =>
        \A i \in Matching(client.order, client.since, client.until) :
            client.told[i] = Cursor(client.order, i)

\* "These parameters may be used to construct a URL which would return the same
\* set of bounded data on consecutive requests": a request with the since and the
\* until of a reply, whichever the client has just been able to get, has the same
\* reply.
Repeatable ==
    client.order # "none" =>
        \A limit \in Limits :
            \A page \in {LastPage(client.order, 0, Until(0, client.since), limit),
                         FirstPage(client.order, client.until, Until(client.until, MaxTime), limit),
                         FirstPage(client.order, 0, Until(0, client.until), limit)} :
                FirstPage(client.order, page.since, Until(page.since, page.until), limit) = page

=============================================================================
