--------------------------- MODULE MCRelayTunnels ---------------------------
(* RelayTunnels and BastionRegistrar, side by side: two tokens of one      *)
(* connection, of which one has a deadline; one bastion with room for      *)
(* three clients.  part says which of them a behaviour is about.           *)
EXTENDS BastionRegistrar

CONSTANTS t1, t2, c

VARIABLES part

ConnOf == [t \in Tokens |-> c]
Deadlines == [t \in Tokens |-> IF t = t1 THEN 2 ELSE NoDeadline]
Expiries == [t \in Tokens |-> 2]

MCInit == part \in {"tunnels", "registrar"} /\ TunnelsInit /\ RegistrarInit

MCNext ==
    /\ UNCHANGED part
    /\ \/ part = "tunnels" /\ TunnelsNext /\ UNCHANGED registrarVars
       \/ part = "registrar" /\ RegistrarNext /\ UNCHANGED tunnelVars

(* The fairness of both, for the part that is at work.                     *)
MCSpec ==
    /\ MCInit /\ [][MCNext]_<<part, tunnelVars, registrarVars>>
    /\ \A t \in Tokens : WF_tunnelVars(part = "tunnels" /\ TaskStep(t))
    /\ WF_registrarVars(part = "registrar" /\ RegistrarStep)
    /\ WF_registrarVars(part = "registrar" /\ HostNotices)
    /\ \A i \in Clients : WF_registrarVars(part = "registrar" /\ ClientStep(i))
    /\ \A b \in Bastions : WF_registrarVars(part = "registrar" /\ BastionForgets(b))

(* "pf bastion register" follows the list, where it is at work.            *)
TheListIsFollowed == part = "registrar" => FollowsTheList
=============================================================================
