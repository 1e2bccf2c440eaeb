----------------------------- MODULE Discovery -----------------------------
(***************************************************************************)
(* Resolving the instances of a service with DNS-SD (resolve_service in    *)
(* nmos/mdns.cpp, browse in mdns/service_discovery_impl.cpp): one or two   *)
(* browses at the same time, each of which resolves what it is told of,    *)
(* the merge of their results, and the fallback from unicast DNS to        *)
(* multicast DNS.                                                          *)
(*                                                                         *)
(* The daemon tells of advertisements in any order, some or none of them,  *)
(* and more than once (once for each interface).                           *)
(*                                                                         *)
(* Abstracted: time is before the earliest timeout of a browse (0),        *)
(* between that and the latest (1), and after it (2), and the earliest is  *)
(* not after the latest, so that whether more replies are coming makes no  *)
(* difference; an advertisement resolves to one address; its TXT records   *)
(* are suitable or not.                                                    *)
(***************************************************************************)
EXTENDS Integers, Sequences, FiniteSets

CONSTANTS
    Advert,     \* records with the fields uri, version, priority, type, domain and suitable
    MaxReplies  \* bound: how much a browse is told

VARIABLES
    \* the settings
    method,     \* dns_sd_browse_mode: "both", "unicast" or "mdns"
    place,      \* the class of the domain: "local" or "unicast"
    \* what is going on
    domain,     \* the class of the domain that is browsed
    browses,    \* for each service type that is browsed: "browsing", "done" or "canceled"
    enough,     \* had_enough of each
    results,    \* of each
    replies,    \* how much each was told
    elapsed,    \* time
    first,      \* the type of the browse that has completed first
    linked,     \* whether linked_source is canceled
    canceled,   \* whether the caller's token is
    outcome,    \* "pending", "resolved" or "canceled"
    list,       \* what was resolved
    foreign     \* history: whether there was an advertisement of the other class of domain

discoveryVars == <<method, place, domain, browses, enough, results, replies, elapsed, first,
                   linked, canceled, outcome, list, foreign>>

Types == DOMAIN browses

NoType == "none"

\* The old type is browsed as well if an API version before v1.3 is wanted, and only
\* for Registration APIs.
Browse(types) ==
    /\ browses' = [t \in types |-> "browsing"]
    /\ enough' = [t \in types |-> FALSE]
    /\ results' = [t \in types |-> <<>>]
    /\ replies' = [t \in types |-> 0]
    /\ elapsed' = 0 /\ first' = NoType /\ linked' = FALSE

Init ==
    /\ method \in {"both", "unicast", "mdns"} /\ place \in {"local", "unicast"}
    /\ domain = IF method = "mdns" THEN "local" ELSE place
    /\ \E types \in {{"register"}, {"register", "registration"}} :
        /\ browses = [t \in types |-> "browsing"]
        /\ enough = [t \in types |-> FALSE]
        /\ results = [t \in types |-> <<>>]
        /\ replies = [t \in types |-> 0]
    /\ elapsed = 0 /\ first = NoType /\ linked = FALSE
    /\ canceled = FALSE /\ outcome = "pending" /\ list = <<>> /\ foreign = FALSE

-----------------------------------------------------------------------------
(* A browse *)

Told(t) ==
    /\ browses[t] = "browsing" /\ replies[t] < MaxReplies
    /\ replies' = [replies EXCEPT ![t] = @ + 1]

HadEnough(t, found) == enough' = [enough EXCEPT ![t] = linked \/ found # <<>>]

\* An advertisement of another class of domain is skipped.  That the handler returns true
\* means that it has had enough.
Skip(t, a) ==
    /\ Told(t) /\ a.domain # domain
    /\ enough' = [enough EXCEPT ![t] = TRUE]
    /\ foreign' = TRUE
    /\ UNCHANGED <<method, place, domain, browses, results, elapsed, first, linked, canceled,
                   outcome, list>>

\* One is resolved, and kept if it is suitable.
Resolve(t, a) ==
    /\ Told(t) /\ a.domain = domain
    /\ results' = IF a.suitable THEN [results EXCEPT ![t] = Append(@, a)] ELSE results
    /\ HadEnough(t, results'[t])
    /\ UNCHANGED <<method, place, domain, browses, elapsed, first, linked, canceled, outcome,
                   foreign, list>>

\* One is not resolved before the latest timeout, or the cancellation.
ResolveFails(t) ==
    /\ Told(t)
    /\ \/ elapsed' = 2
       \/ linked /\ UNCHANGED elapsed
    /\ HadEnough(t, results[t])
    /\ UNCHANGED <<method, place, domain, browses, results, first, linked, canceled, outcome,
                   foreign, list>>

\* reply_timeout: a query takes one second at least.
ReplyTimeout(t) == IF enough[t] THEN 1 ELSE 2

EndBrowse(t) ==
    /\ browses[t] = "browsing"
    /\ elapsed >= ReplyTimeout(t) \/ linked
    /\ browses' = [browses EXCEPT ![t] = IF linked THEN "canceled" ELSE "done"]
    /\ UNCHANGED <<method, place, domain, enough, results, replies, elapsed, first, linked,
                   canceled, outcome, foreign, list>>

Tick ==
    /\ elapsed < 2 /\ outcome = "pending"
    /\ elapsed' = elapsed + 1
    /\ UNCHANGED <<method, place, domain, browses, enough, results, replies, first, linked,
                   canceled, outcome, foreign, list>>

-----------------------------------------------------------------------------
(* resolve_service_ *)

Cancel ==
    /\ outcome = "pending" /\ ~canceled
    /\ canceled' = TRUE /\ linked' = TRUE
    /\ UNCHANGED <<method, place, domain, browses, enough, results, replies, elapsed, first,
                   outcome, foreign, list>>

\* when_any of both tasks, which is the first that has not been canceled: the other is
\* not wanted if this one has found something.
First(t) ==
    /\ first = NoType /\ browses[t] = "done"
    /\ first' = t
    /\ linked' = (linked \/ results[t] # <<>>)
    /\ UNCHANGED <<method, place, domain, browses, enough, results, replies, elapsed, canceled,
                   outcome, foreign, list>>

\* less_api_ver_pri
Less(a, b) ==
    \/ a.version > b.version
    \/ a.version = b.version /\ a.priority < b.priority

\* The best of the results with that uri, which is the first when they are sorted
BestOf(found, uri) ==
    CHOOSE a \in found : a.uri = uri /\ \A b \in found : b.uri = uri => ~Less(b, a)

Found == UNION {{results[t][i] : i \in DOMAIN results[t]} : t \in Types}

\* The unique results, in an order by version and priority that is random otherwise
Sorted(found) ==
    LET best == {BestOf(found, uri) : uri \in {a.uri : a \in found}} IN
    {order \in [1..Cardinality(best) -> best] :
        /\ \A a \in best : \E i \in DOMAIN order : order[i] = a
        /\ \A i, j \in DOMAIN order : i < j => ~Less(order[j], order[i])}

HasFallback == method = "both" /\ place # "local"

\* Both have completed.
Complete ==
    /\ outcome = "pending" /\ first # NoType
    /\ \A t \in Types : browses[t] # "browsing"
    /\ ~canceled
    /\ IF Found = {} /\ HasFallback /\ domain # "local"
       THEN /\ domain' = "local" /\ Browse(Types) /\ foreign' = FALSE
            /\ UNCHANGED <<outcome, list>>
       ELSE /\ list' \in Sorted(Found) /\ outcome' = "resolved"
            /\ UNCHANGED <<domain, browses, enough, results, replies, elapsed, first, linked, foreign>>
    /\ UNCHANGED <<method, place, canceled>>

CompleteCanceled ==
    /\ outcome = "pending" /\ canceled
    /\ \A t \in Types : browses[t] # "browsing"
    /\ outcome' = "canceled"
    /\ UNCHANGED <<method, place, domain, browses, enough, results, replies, elapsed, first,
                   linked, canceled, foreign, list>>

Next ==
    \/ \E t \in Types :
        \/ \E a \in {b \in Advert : b.type = t} : Skip(t, a) \/ Resolve(t, a)
        \/ ResolveFails(t) \/ EndBrowse(t) \/ First(t)
    \/ Tick \/ Cancel \/ Complete \/ CompleteCanceled

Spec == Init /\ [][Next]_discoveryVars

-----------------------------------------------------------------------------
(* Properties *)

Resolved == outcome = "resolved"

TypeOK ==
    /\ method \in {"both", "unicast", "mdns"}
    /\ place \in {"local", "unicast"} /\ domain \in {"local", "unicast"}
    /\ Types \in {{"register"}, {"register", "registration"}}
    /\ \A t \in Types :
        /\ browses[t] \in {"browsing", "done", "canceled"} /\ enough[t] \in BOOLEAN
        /\ Len(results[t]) <= replies[t] /\ replies[t] <= MaxReplies
    /\ elapsed \in 0..2 /\ first \in Types \cup {NoType}
    /\ linked \in BOOLEAN /\ canceled \in BOOLEAN /\ foreign \in BOOLEAN
    /\ outcome \in {"pending", "resolved", "canceled"}
    /\ \A i \in DOMAIN list : list[i] \in Advert

\* "orders these based on their advertised priority", and "the highest advertised
\* priority is kept for each": what either of the browses has resolved is in the list,
\* each uri once, with the best advertisement of it, and better ones are first.
BestFirst ==
    Resolved =>
        /\ \A t \in Types : \A i \in DOMAIN results[t] :
            \E j \in DOMAIN list :
                /\ list[j].uri = results[t][i].uri
                /\ ~Less(results[t][i], list[j])
        /\ \A i, j \in DOMAIN list : i < j =>
            list[i].uri # list[j].uri /\ ~Less(list[j], list[i])

\* Each browse takes the time that "ensures the daemon actually performs a query", unless the
\* caller, or the other browse that has found something, ends it; and as long as it may take
\* if it has found nothing, unless it was told of something else.
Patient ==
    \A t \in Types :
        /\ browses[t] = "done" =>
            elapsed >= 1 /\ (results[t] = <<>> /\ ~foreign => elapsed = 2)
        /\ browses[t] = "canceled" =>
            canceled \/ (first # t /\ first # NoType /\ results[first] # <<>>)

\* "skip this result, keep browsing": nobody gives up without a result before the latest
\* timeout.  It does not hold: see Skip.
KeepsBrowsing ==
    Resolved /\ list = <<>> => elapsed = 2

=============================================================================
