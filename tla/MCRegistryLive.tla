--------------------------- MODULE MCRegistryLive ---------------------------
(***************************************************************************)
(* Registry with a clock that never stops, for its liveness properties.    *)
(* The handlers and the expiry thread only compare times with each other,  *)
(* so when the clock stands at MaxNow every time is moved back one second  *)
(* instead of the clock forward.  A time that has reached 0 stays there:   *)
(* it is at least MaxNow old, more than twice Interval, and every          *)
(* comparison with an older time has the same outcome.                     *)
(***************************************************************************)
EXTENDS Registry

CONSTANTS n1, d, s

ASSUME MaxNow > 2 * Interval

MCId == {n1, d, s}

\* a node, its device, in either of two API versions, and a sender
MCBodies ==
    {[id |-> n1, type |-> "node", super |-> NoId, api |-> 1, version |-> 1],
     [id |-> d, type |-> "device", super |-> n1, api |-> 1, version |-> 1],
     [id |-> d, type |-> "device", super |-> n1, api |-> 0, version |-> 2],
     [id |-> s, type |-> "sender", super |-> d, api |-> 1, version |-> 1]}

Back(t) == IF t = 0 THEN 0 ELSE t - 1

Slide ==
    /\ now = MaxNow
    /\ health' = [x \in Id |-> Back(health[x])]
    /\ alive' = [x \in Id |-> Back(alive[x])]
    /\ wake' = Back(wake)
    /\ beat' = [h \in Handlers |-> [beat[h] EXCEPT !.at = Back(@)]]
    /\ UNCHANGED <<now, extant, erased, reg, sub, expiry>>

LiveSpec == Init /\ [][Next \/ Slide]_vars /\ Fairness /\ WF_vars(Tick \/ Slide)
=============================================================================
