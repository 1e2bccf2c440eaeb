------------------------------ MODULE MCQueryWs ------------------------------
(* Small instances of QueryWs for TLC. *)
EXTENDS QueryWs

CONSTANTS a, b, p, q

\* the persistent subscription p is to everything, q only to resources with
\* data a, so that a change to b removes a resource from its view
MCMatch(s, v) == s = p \/ v = a
=============================================================================
