--------------------------- MODULE MCHostTrust ---------------------------
(* An instance each of HostTrust, HostInstall and SerialNumbers, which      *)
(* share no state: part says which of them a behaviour is about, the others *)
(* rest.                                                                    *)
EXTENDS HostTrust, SerialNumbers, HostInstall, TLC

VARIABLES part

MCInit ==
    /\ Init /\ InstallInit /\ SerialInit
    /\ \/ part = "install"
       \/ /\ part \in {"trust", "serials"}
          /\ ~theirs /\ sound /\ system = CHOOSE s \in Systems : TRUE

MCNext ==
    /\ UNCHANGED part
    /\ \/ part = "trust" /\ Next /\ UNCHANGED <<installVars, serialVars>>
       \/ part = "install" /\ InstallNext /\ UNCHANGED <<vars, serialVars>>
       \/ part = "serials" /\ (SerialNext \/ Answered) /\ UNCHANGED <<vars, installVars>>

MCSpec == MCInit /\ [][MCNext]_<<part, vars, installVars, serialVars>>

JobSymmetry == Permutations(Jobs) \cup Permutations(Signings)
=============================================================================
