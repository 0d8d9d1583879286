---------------------------- MODULE PeerDirectory ----------------------------
(***************************************************************************)
(* What the relay monitor promises, without its calls and handshakes: a    *)
(* peer that announces itself ends up in the connector, a peer that        *)
(* announces it is leaving ends up out of it, and nobody else is touched.  *)
(***************************************************************************)

CONSTANT Peers

VARIABLES
    wanted, \* the peers whose newest announcement carries peer information
    listed  \* the peers the connector has a route to

vars == <<wanted, listed>>

TypeOK == wanted \subseteq Peers /\ listed \subseteq Peers

Init == wanted = {} /\ listed = {}

\* A peer announces something new only once its last announcement is served.
Announce(p) ==
    /\ p \notin wanted /\ p \notin listed
    /\ wanted' = wanted \cup {p}
    /\ UNCHANGED listed

Leave(p) ==
    /\ p \in wanted /\ p \in listed
    /\ wanted' = wanted \ {p}
    /\ UNCHANGED listed

\* The connector follows.
Apply(p) ==
    /\ (p \in wanted) # (p \in listed)
    /\ listed' = IF p \in wanted THEN listed \cup {p} ELSE listed \ {p}
    /\ UNCHANGED wanted

Next == \E p \in Peers : Announce(p) \/ Leave(p) \/ Apply(p)

Spec == Init /\ [][Next]_vars /\ \A p \in Peers : WF_vars(Apply(p))
==============================================================================
