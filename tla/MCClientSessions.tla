-------------------------- MODULE MCClientSessions --------------------------
(* An instance of ClientSessions. Its two halves share no state: part says  *)
(* which of the two a behaviour is about, the other one rests.  Of the      *)
(* processes, a script runs below a shell and belongs to the same login or, *)
(* started by runas or sudo, to another.                                    *)
EXTENDS ClientSessions

CONSTANTS shell, script, c1, c2

VARIABLE part

MCLine == [p \in {shell, script} |-> IF p = shell THEN <<shell>> ELSE <<script, shell>>]
OneLogon == [p \in {shell, script} |-> 1]
MCLogons == {OneLogon, [p \in {shell, script} |-> IF p = shell THEN 1 ELSE 2]}

MCInit ==
    /\ ClientInit
    /\ \/ part = "oracle" /\ made = 0
       \/ part = "tui" /\ platform = "posix" /\ logon = OneLogon

MCNext ==
    /\ UNCHANGED part
    /\ \/ part = "oracle" /\ Next /\ UNCHANGED tuiVars
       \/ part = "tui" /\ Tui!Next /\ UNCHANGED vars

MCSpec == MCInit /\ [][MCNext]_<<part, vars, tuiVars>> /\ (part = "oracle" => Fairness)
=============================================================================
