--------------------------- MODULE ClientSessions ---------------------------
(***************************************************************************)
(* The sessions of a client: the oracles that hold their keys              *)
(* (SessionOracle) and the terminal UI that uses one and logs in again     *)
(* (Relogin).  They are processes of their own and share no state here:    *)
(* to the UI an oracle is one of the reasons for which a session ends.     *)
(***************************************************************************)
EXTENDS SessionOracle

CONSTANTS Calls, MaxSessions, MaxRestarts, NoSession

ASSUME ClientAssumption == MaxSessions \in Nat /\ NoSession \notin Nat

VARIABLES app, restarts, force, why, valid, accepted, made, disk, cfg,
          inner, generation, verified, pending, screen, thread, fresh, calls

Tui == INSTANCE Relogin

tuiVars == <<app, restarts, force, why, valid, accepted, made, disk, cfg,
             inner, generation, verified, pending, screen, thread, fresh, calls>>

ClientInit == Init /\ Tui!Init

ClientNext ==
    \/ Next /\ UNCHANGED tuiVars
    \/ Tui!Next /\ UNCHANGED vars

ClientSpec == ClientInit /\ [][ClientNext]_<<vars, tuiVars>>

(* Of all the sessions of a login the latest counts: its oracle has the      *)
(* name, its calls alone ask for a relogin, and its proof is what the screen *)
(* shows (oracle login, tui relogin).                                        *)
LatestSessionCounts ==
    LatestLoginAnswers /\ Tui!OnlyTheCurrentSessionCounts /\ Tui!VerifiedIsTrue

(* An oracle serves its own processes until its deadline, and nobody else    *)
(* ends it (the runners of posix and windows).                               *)
OraclesServeTheirOwn == EndsForAReason /\ SignsInTimeForItsOwn
=============================================================================
