------------------------------ MODULE Relogin ------------------------------
(***************************************************************************)
(* The terminal UI and its session.  Calls to the server wait for one lock *)
(* and run in threads; when one finds that the session or its key is gone, *)
(* a prompt logs in again, in a thread of its own, while other calls of    *)
(* the old session are still waiting.  pfat starts the UI again after a    *)
(* change of context or role, with a prompt of its own if it has no valid  *)
(* session.  A session is valid while the server and its oracle have it.   *)
(***************************************************************************)
EXTENDS Integers, FiniteSets

CONSTANTS
    Calls,
    MaxSessions, MaxRestarts,   \* bounds, natural numbers
    NoSession                   \* not a number

Sessions == 1..MaxSessions

VARIABLES
    app,        \* what pfat runs: "start", "setup" (its own prompt), "tui", "gone"
    restarts, force,    \* restarts so far; the next start must log in
    why,        \* the reason with which the UI was left
    valid, accepted,    \* the valid sessions; history: those the server accepted
    made,       \* the number of sessions made by logins
    disk, cfg,  \* session_key_fingerprint in the registry, in the loaded context
    inner, generation, verified, pending,   \* of _ReloggingAuth
    screen,     \* the prompt: "none", "asked", "open", "finished"
    thread,     \* its login: "none", "auth", "login", "role", "key"
    fresh,      \* the session that login has made
    calls       \* Calls -> its state, the generation and session it remembers

authVars == <<inner, generation, verified, pending>>
promptVars == <<screen, thread, fresh>>
procVars == <<app, restarts, force, why>>
serverVars == <<valid, accepted, made>>
vars == <<procVars, serverVars, disk, cfg, authVars, promptVars, calls>>

Late == 0   \* not a session
IdleCall == [pc |-> "idle", gen |-> 0, uses |-> NoSession]

Init ==
    /\ app = "start" /\ restarts = 0 /\ force = FALSE /\ why = "none"
    /\ made \in {0, 1} /\ valid = 1..made /\ accepted = {}
    /\ disk = (IF made = 1 THEN 1 ELSE NoSession) /\ cfg = NoSession
    /\ inner = NoSession /\ generation = 0 /\ verified = FALSE /\ pending = FALSE
    /\ screen = "none" /\ thread = "none" /\ fresh = NoSession
    /\ calls = [c \in Calls |-> IdleCall]

-----------------------------------------------------------------------------
(* pfat.                                                                   *)

(* One _run_tui: the session of the registry, or a prompt without one.     *)
EnterTui(s) ==
    /\ app' = "tui" /\ inner' = s /\ generation' = 0 /\ verified' = FALSE
    /\ pending' = FALSE /\ UNCHANGED why

RunTui ==
    /\ app = "start" /\ force' = FALSE
    /\ IF disk \in valid /\ ~force
       THEN cfg' = disk /\ EnterTui(disk) /\ UNCHANGED promptVars
       ELSE /\ app' = "setup" /\ cfg' = NoSession
            /\ screen' = "open"
            /\ UNCHANGED <<authVars, why, thread, fresh>>
    /\ UNCHANGED <<restarts, serverVars, disk, calls>>

(* After the prompt of pfat: go on if the context has a session, which a   *)
(* login that nobody waits for any more may have written to it.            *)
LeaveSetup ==
    /\ app = "setup" /\ screen = "finished"
    /\ screen' = "none"
    /\ IF cfg \in valid THEN EnterTui(cfg)
       ELSE /\ app' = "gone" /\ why' = (IF cfg = NoSession THEN "user" ELSE "expired")
            /\ UNCHANGED authVars
    /\ UNCHANGED <<restarts, force, serverVars, disk, cfg, thread, fresh, calls>>

(* A switch of context or of role: this UI ends and another one starts.    *)
Restart(role) ==
    /\ app = "tui" /\ screen = "none" /\ restarts < MaxRestarts
    /\ app' = "start" /\ force' = role /\ restarts' = restarts + 1
    /\ calls' = [c \in Calls |-> IdleCall]
    /\ UNCHANGED <<why, serverVars, disk, cfg, authVars, promptVars>>

-----------------------------------------------------------------------------
(* A call.                                                                 *)

(* It remembers the generation before it waits for the lock; what it runs  *)
(* is bound to the session of that moment, or looks it up when it runs.    *)
Bindings == {inner, Late}

StartCall(c) ==
    /\ app = "tui" /\ calls[c].pc = "idle"
    /\ \E s \in Bindings :
          calls' = [calls EXCEPT ![c] = [pc |-> "waiting", gen |-> generation, uses |-> s]]
    /\ UNCHANGED <<procVars, serverVars, disk, cfg, authVars, promptVars>>

RunCall(c) ==
    /\ app = "tui" /\ calls[c].pc = "waiting"
    /\ \A d \in Calls : calls[d].pc # "running"
    /\ calls' = [calls EXCEPT ![c].pc = "running", ![c].uses = IF @ = Late THEN inner ELSE @]
    /\ UNCHANGED <<procVars, serverVars, disk, cfg, authVars, promptVars>>

(* The server has accepted the session, and granted or refused the rest;   *)
(* another error says nothing of the session.                              *)
Succeed(c) ==
    /\ app = "tui" /\ calls[c].pc = "running" /\ calls[c].uses \in valid
    /\ \/ verified' = TRUE /\ accepted' = accepted \cup {calls[c].uses}
       \/ UNCHANGED <<verified, accepted>>
    /\ calls' = [calls EXCEPT ![c] = IdleCall]
    /\ UNCHANGED <<procVars, valid, made, disk, cfg, inner, generation, pending, promptVars>>

IsCurrent_Always(gen) == TRUE
IsCurrent(gen) == gen = generation

(* _on_auth_failure.                                                       *)
Refused(c) ==
    /\ app = "tui" /\ calls[c].pc = "running" /\ calls[c].uses \notin valid
    /\ calls' = [calls EXCEPT ![c] = IdleCall]
    /\ IF ~IsCurrent(calls[c].gen) \/ pending
       THEN UNCHANGED <<app, why, pending, screen>>
       ELSE IF generation > 0 /\ ~verified
       THEN app' = "gone" /\ why' = "repeated" /\ UNCHANGED <<pending, screen>>
       ELSE pending' = TRUE /\ screen' = "asked" /\ UNCHANGED <<app, why>>
    /\ UNCHANGED <<restarts, force, serverVars, disk, cfg, inner, generation, verified,
                   thread, fresh>>

-----------------------------------------------------------------------------
(* The prompt.                                                             *)

OpenPrompt ==
    /\ app = "tui" /\ screen = "asked" /\ screen' = "open"
    /\ UNCHANGED <<procVars, serverVars, disk, cfg, authVars, thread, fresh, calls>>

(* on_mount asks the server how to log in, then starts the thread.         *)
StartLogin ==
    /\ screen = "open" /\ thread = "none"
    /\ thread' = "login" /\ fresh' = NoSession
    /\ UNCHANGED <<procVars, serverVars, disk, cfg, authVars, screen, calls>>

(* The login makes a session; the role may need a dialog.                  *)
Login ==
    /\ thread = "login" /\ made < MaxSessions
    /\ made' = made + 1 /\ valid' = valid \cup {made + 1} /\ fresh' = made + 1
    /\ thread' \in {"role", "key"}
    /\ UNCHANGED <<procVars, accepted, disk, cfg, authVars, screen, calls>>

SelectRole ==
    /\ thread = "role" /\ thread' = "key"
    /\ UNCHANGED <<procVars, serverVars, disk, cfg, authVars, screen, fresh, calls>>

(* The end of the prompt: what comes after the first is ignored.           *)
VerifiedAfterRelogin == FALSE

Finish(success) ==
    IF screen # "open" THEN UNCHANGED <<screen, app, why, authVars>>
    ELSE IF app = "setup" THEN screen' = "finished" /\ UNCHANGED <<app, why, authVars>>
    ELSE /\ pending' = FALSE
         /\ IF ~success
            THEN /\ app' = "gone" /\ why' = "user" /\ screen' = "none"
                 /\ UNCHANGED <<inner, generation, verified>>
            ELSE IF cfg' \in valid
            THEN /\ inner' = cfg' /\ generation' = generation + 1
                 /\ verified' = VerifiedAfterRelogin
                 /\ screen' = "none" /\ UNCHANGED <<app, why>>
            \* No signer for a key that is gone again: the exception leaves the
            \* prompt finished and never dismissed.
            ELSE screen' = "finished" /\ UNCHANGED <<app, why, inner, generation, verified>>

SaveKey ==
    /\ thread = "key" /\ app # "gone" /\ thread' = "none"
    /\ cfg' = fresh /\ disk' = fresh /\ Finish(TRUE)
    /\ UNCHANGED <<restarts, force, serverVars, fresh, calls>>

FailLogin ==
    /\ \/ thread \in {"login", "role"} /\ app # "gone"
       \/ screen = "open" /\ thread = "none"
    /\ thread' = "none" /\ Finish(FALSE)
    /\ UNCHANGED <<restarts, force, serverVars, disk, cfg, fresh, calls>>

(* Escape; the thread of the login goes on.                                *)
Cancel ==
    /\ screen = "open" /\ Finish(FALSE)
    /\ UNCHANGED <<restarts, force, serverVars, disk, cfg, thread, fresh, calls>>

-----------------------------------------------------------------------------
(* The session ends at the server, or its oracle ends.                     *)
Lose(s) ==
    /\ s \in valid /\ valid' = valid \ {s}
    /\ UNCHANGED <<procVars, accepted, made, disk, cfg, authVars, promptVars, calls>>

Prompting == OpenPrompt \/ StartLogin \/ Login \/ SelectRole \/ SaveKey \/ FailLogin \/ Cancel

Next ==
    \/ RunTui \/ LeaveSetup \/ \E role \in BOOLEAN : Restart(role)
    \/ \E c \in Calls : StartCall(c) \/ RunCall(c) \/ Succeed(c) \/ Refused(c)
    \/ Prompting
    \/ \E s \in Sessions : Lose(s)

Spec == Init /\ [][Next]_vars

-----------------------------------------------------------------------------
\* A call of the session before a relogin asks for nothing: the user is asked
\* to log in, and the UI ends over repeated failures, only when the session
\* that it has now is gone.
OnlyTheCurrentSessionCounts == pending \/ why = "repeated" => inner \notin valid

\* verified means what its comment says: the server has accepted the session
\* of the current generation, not one that was replaced.
VerifiedIsTrue == app = "tui" /\ verified => inner \in accepted

\* What _RequestRelogin promises, "the user sees ... this relogin prompt, and can
\* retry the action once logged back in".  Broken when the new key is gone
\* before its signer is made, for example during a long choice of a role: the
\* prompt of the UI has finished and is still there.
PromptCloses == ~(app = "tui" /\ screen = "finished")
=============================================================================
