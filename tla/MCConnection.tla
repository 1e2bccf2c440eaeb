---------------------------- MODULE MCConnection ----------------------------
(* Single requests of each kind for one resource, and bulk requests for two   *)
(* in either order, or for the same one twice.                                *)
EXTENDS Connection

CONSTANTS r1, r2

One(r, kind) == [res |-> r, kind |-> kind]

MCBodies ==
    {<<One(r1, kind)>> : kind \in {"cancel", "immediate", "scheduled"}} \cup
    {<<One(r1, "immediate"), One(r2, "immediate")>>,
     <<One(r2, "immediate"), One(r1, "stage")>>,
     <<One(r1, "immediate"), One(r1, "stage")>>}

\* A bulk request with two items of one resource, that are not next to each other: a
\* request for the other resource in between makes Outcome fail.
RepeatedBodies ==
    {<<One(r1, "immediate"), One(r2, "stage"), One(r1, "immediate")>>,
     <<One(r2, "immediate")>>}

=============================================================================
