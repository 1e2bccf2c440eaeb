----------------------------- MODULE MCRegistry -----------------------------
(* Small instances of Registry for TLC. *)
EXTENDS Registry

CONSTANTS n1, n2, d, s

Node(x, api, v)      == [id |-> x, type |-> "node", super |-> NoId, api |-> api, version |-> v]
Device(x, n, api, v) == [id |-> x, type |-> "device", super |-> n, api |-> api, version |-> v]
Sender(x, y, api, v) == [id |-> x, type |-> "sender", super |-> y, api |-> api, version |-> v]

MCId == {n1, n2, d, s}

\* two nodes, a device that may be registered on either and updated, and its
\* sender
MCBodies ==
    {Node(n1, 1, 1), Node(n2, 1, 1), Device(d, n1, 1, 1), Device(d, n1, 1, 2), Device(d, n2, 1, 1),
     Sender(s, d, 1, 1)}
=============================================================================
