-------------------------------- MODULE Parts --------------------------------
(***************************************************************************)
(* The variables of modules of which each behaviour has one: "part" says   *)
(* which, and its variables are the first of those below, in the order of  *)
(* their declaration.  The rest are Unused.                                *)
(***************************************************************************)
EXTENDS Integers

VARIABLES part, v1, v2, v3, v4, v5, v6, v7, v8, v9, v10,
          v11, v12, v13, v14, v15, v16, v17, v18, v19

vars == <<part, v1, v2, v3, v4, v5, v6, v7, v8, v9, v10,
          v11, v12, v13, v14, v15, v16, v17, v18, v19>>

Unused == "unused"

Unless(used, idle) == IF used THEN TRUE ELSE idle

\* Those after the first n
RestUnused(n) ==
    /\ Unless(n >= 5, v5 = Unused)
    /\ Unless(n >= 6, v6 = Unused)
    /\ Unless(n >= 7, v7 = Unused)
    /\ Unless(n >= 8, v8 = Unused)
    /\ Unless(n >= 9, v9 = Unused)
    /\ Unless(n >= 10, v10 = Unused)
    /\ Unless(n >= 11, v11 = Unused)
    /\ Unless(n >= 12, v12 = Unused)
    /\ Unless(n >= 13, v13 = Unused)
    /\ Unless(n >= 14, v14 = Unused)
    /\ Unless(n >= 15, v15 = Unused)
    /\ Unless(n >= 16, v16 = Unused)
    /\ Unless(n >= 17, v17 = Unused)
    /\ Unless(n >= 18, v18 = Unused)
    /\ Unless(n >= 19, v19 = Unused)

RestUnchanged(n) ==
    /\ Unless(n >= 5, UNCHANGED v5)
    /\ Unless(n >= 6, UNCHANGED v6)
    /\ Unless(n >= 7, UNCHANGED v7)
    /\ Unless(n >= 8, UNCHANGED v8)
    /\ Unless(n >= 9, UNCHANGED v9)
    /\ Unless(n >= 10, UNCHANGED v10)
    /\ Unless(n >= 11, UNCHANGED v11)
    /\ Unless(n >= 12, UNCHANGED v12)
    /\ Unless(n >= 13, UNCHANGED v13)
    /\ Unless(n >= 14, UNCHANGED v14)
    /\ Unless(n >= 15, UNCHANGED v15)
    /\ Unless(n >= 16, UNCHANGED v16)
    /\ Unless(n >= 17, UNCHANGED v17)
    /\ Unless(n >= 18, UNCHANGED v18)
    /\ Unless(n >= 19, UNCHANGED v19)

=============================================================================
