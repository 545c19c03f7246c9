----------------------------- MODULE EventSource -----------------------------
(***************************************************************************)
(* What the EventSource port promises: deliveries are retried until the    *)
(* handler's answer is final, only then acknowledged, and, when nothing    *)
(* goes wrong any more, all of them are acknowledged.  How often and by    *)
(* whom a delivery is attempted is left open.                              *)
(***************************************************************************)
EXTENDS Naturals

CONSTANT Messages
VARIABLES published, final, acknowledged
esVars == <<published, final, acknowledged>>

ESInit == published = {} /\ final = {} /\ acknowledged = {}

Arrive(m) ==
    /\ m \notin published
    /\ published' = published \cup {m}
    /\ UNCHANGED <<final, acknowledged>>

(* The handler accepts or rejects the event for good.                      *)
Conclude(m) ==
    /\ m \in published
    /\ m \notin final
    /\ final' = final \cup {m}
    /\ UNCHANGED <<published, acknowledged>>

Remove(m) ==
    /\ m \in final
    /\ m \notin acknowledged
    /\ acknowledged' = acknowledged \cup {m}
    /\ UNCHANGED <<published, final>>

ESNext == \E m \in Messages : Arrive(m) \/ Conclude(m) \/ Remove(m)

ESSpec == ESInit /\ [][ESNext]_esVars

(* Every arrived message is concluded and removed.                         *)
ESProgress == \A m \in Messages : m \in published ~> m \in acknowledged

=============================================================================
