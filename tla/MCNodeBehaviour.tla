--------------------------- MODULE MCNodeBehaviour ---------------------------
(* Small instances of NodeBehaviour for TLC. *)
EXTENDS NodeBehaviour

CONSTANTS A, B, C

\* three Registration APIs, one of another version
MCVersion == [x \in Service |-> IF x = C THEN 2 ELSE 3]

\* two may be discovered at a time, in order of priority, or none at all
MCLists == {<<>>, <<A, B>>, <<B, C>>}
=============================================================================
