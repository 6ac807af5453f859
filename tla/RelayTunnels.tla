---------------------------- MODULE RelayTunnels ----------------------------
(***************************************************************************)
(* The tunnels that a host carries for visitors (cli/pf/bastion_cli.py,    *)
(* _handle_work_conn), the check of their tokens (cli/token_verify.py) and *)
(* the end of a connection on request (cli/pf/session_kill.py).            *)
(*                                                                         *)
(* A work connection is one task.  It checks a token, answers, connects to *)
(* sshd, and pumps bytes both ways until both ways are over, the deadline  *)
(* comes or the pump is cancelled; then it reports the end, after its      *)
(* report of the start.  A token stands for the tunnel that it opens.      *)
(*                                                                         *)
(* The control link to the bastion may drop, which cancels every task and  *)
(* waits for all of them.                                                  *)
(***************************************************************************)
EXTENDS Integers, FiniteSets

CONSTANTS
    Tokens, Connections,
    Conn,           \* token -> the connection that it is for
    DeadlineOf,     \* token -> the deadline of its connection, or NoDeadline
    Exp,            \* token -> the time when it expires
    KillDir,        \* there is a directory for requests to the reaper
    NoDeadline,
    MaxNow, MaxPresents, MaxAsks, MaxDrops, MaxFails    \* bounds

ASSUME TunnelsAssumption ==
    /\ Conn \in [Tokens -> Connections] /\ Exp \in [Tokens -> Nat]
    /\ \A t \in Tokens : DeadlineOf[t] # NoDeadline => DeadlineOf[t] \in Nat
    /\ KillDir \in BOOLEAN

VARIABLES
    now,
    seen,           \* _seen_jti: the tokens that were accepted
    step,           \* per token: where its task is
    visitor, sshd,  \* per token: the side sends (has not closed)
    pump,           \* per token: the pump runs, or was cancelled
    tracked,        \* Terminator._tunnels
    start,          \* per token: the report of the start
    live,           \* per token: its row in the registry of the server
    link,           \* the control link: up, or dropping
    killAsked,      \* connections with a request for the reaper
    told,           \* history: the tunnels that a terminate had to close
    opened, presents, asks, drops, fails    \* counters

tunnelVars == <<now, seen, step, visitor, sshd, pump, tracked, start, live, link, killAsked,
                told, opened, presents, asks, drops, fails>>

TunnelsInit ==
    /\ now = 0 /\ seen = {} /\ tracked = {} /\ killAsked = {} /\ told = {} /\ link = "up"
    /\ step = [t \in Tokens |-> "none"]
    /\ visitor = [t \in Tokens |-> FALSE] /\ sshd = [t \in Tokens |-> FALSE]
    /\ pump = [t \in Tokens |-> "none"]
    /\ start = [t \in Tokens |-> "none"] /\ live = [t \in Tokens |-> "none"]
    /\ opened = [t \in Tokens |-> 0]
    /\ presents = 0 /\ asks = 0 /\ drops = 0 /\ fails = 0

TunnelTasks == {t \in Tokens : step[t] \notin {"none", "done"}}

-----------------------------------------------------------------------------
(* Tokens.                                                                 *)

(* The entries that are left after the sweep; they are kept as long as the *)
(* library takes the token for valid.                                      *)
Swept_Early(at) == {t \in seen : Exp[t] > at + 1}

Swept(at) == {t \in seen : Exp[t] > at}

Verified(t) == Exp[t] > now /\ t \notin Swept(now)

(* A visitor presents a token, perhaps again; the task of a tunnel that is *)
(* over may be followed by another.  A token that is refused ends the task *)
(* at once.                                                                *)
Present(t) ==
    /\ presents < MaxPresents /\ link = "up"
    /\ presents' = presents + 1
    /\ IF Verified(t)
       THEN /\ seen' = Swept(now) \cup {t}
            /\ step' = [step EXCEPT ![t] = "accepted"]
            /\ opened' = [opened EXCEPT ![t] = @ + 1]
            /\ visitor' = [visitor EXCEPT ![t] = TRUE]
       ELSE /\ seen' = IF Exp[t] > now THEN Swept(now) ELSE seen
            /\ UNCHANGED <<step, opened, visitor>>
    /\ UNCHANGED <<now, sshd, pump, tracked, start, live, link, killAsked, told, asks, drops, fails>>

-----------------------------------------------------------------------------
(* A tunnel.                                                               *)

Connected(t) ==
    /\ step[t] = "accepted"
    /\ step' = [step EXCEPT ![t] = "pumping"]
    /\ sshd' = [sshd EXCEPT ![t] = TRUE]
    /\ pump' = [pump EXCEPT ![t] = "runs"]
    /\ start' = [start EXCEPT ![t] = "sent"]
    /\ tracked' = tracked \cup {t}
    /\ UNCHANGED <<now, seen, visitor, live, link, killAsked, told, opened, presents, asks, drops, fails>>

NotConnected(t) ==
    /\ step[t] = "accepted" /\ fails < MaxFails
    /\ fails' = fails + 1
    /\ step' = [step EXCEPT ![t] = "done"]
    /\ visitor' = [visitor EXCEPT ![t] = FALSE]     \* the transport is closed
    /\ UNCHANGED <<now, seen, sshd, pump, tracked, start, live, link, killAsked, told,
                   opened, presents, asks, drops>>

VisitorCloses(t) ==
    /\ visitor[t]
    /\ visitor' = [visitor EXCEPT ![t] = FALSE]
    /\ UNCHANGED <<now, seen, step, sshd, pump, tracked, start, live, link, killAsked, told,
                   opened, presents, asks, drops, fails>>

SshdCloses(t) ==
    /\ sshd[t]
    /\ sshd' = [sshd EXCEPT ![t] = FALSE]
    /\ UNCHANGED <<now, seen, step, visitor, pump, tracked, start, live, link, killAsked, told,
                   opened, presents, asks, drops, fails>>

(* gather waits for both directions, and neither end is passed on.         *)
PumpOver(t) ==
    \/ pump[t] = "cancelled"
    \/ ~visitor[t] /\ ~sshd[t]
    \/ DeadlineOf[t] # NoDeadline /\ now >= DeadlineOf[t]

Untracked(t) == tracked \ {t}

(* The finally block; the connection to sshd is closed.                    *)
CloseTunnel(t) ==
    /\ step[t] = "pumping" /\ PumpOver(t)
    /\ step' = [step EXCEPT ![t] = "closing"]
    /\ pump' = [pump EXCEPT ![t] = "none"]
    /\ sshd' = [sshd EXCEPT ![t] = FALSE]
    /\ tracked' = Untracked(t)
    /\ UNCHANGED <<now, seen, visitor, start, live, link, killAsked, told, opened, presents, asks, drops, fails>>

(* The report of the start is sent by a task of its own: the server takes  *)
(* it, or the call fails, which is logged.                                 *)
StartReported(t) ==
    /\ start[t] = "sent"
    /\ start' = [start EXCEPT ![t] = "over"]
    /\ \/ live' = [live EXCEPT ![t] = IF @ = "none" THEN "open" ELSE @] /\ fails' = fails
       \/ live' = live /\ fails < MaxFails /\ fails' = fails + 1
    /\ UNCHANGED <<now, seen, step, visitor, sshd, pump, tracked, link, killAsked, told,
                   opened, presents, asks, drops>>

MayReportEnd(t) == start[t] = "over"

EndReported(t) ==
    /\ step[t] = "closing" /\ MayReportEnd(t)
    /\ step' = [step EXCEPT ![t] = "done"]
    /\ \/ live' = [live EXCEPT ![t] = IF @ = "open" THEN "ended" ELSE @] /\ fails' = fails
       \/ live' = live /\ fails < MaxFails /\ fails' = fails + 1
    /\ visitor' = [visitor EXCEPT ![t] = FALSE]     \* so is it here
    /\ UNCHANGED <<now, seen, sshd, pump, tracked, start, link, killAsked, told, opened, presents, asks, drops>>

-----------------------------------------------------------------------------
(* The control link, and requests to end a connection.                     *)

(* Every task is cancelled: one that connects is over, one that pumps goes *)
(* to its finally block, one that waits in that block is over, without its *)
(* report of the end.                                                      *)
LinkDrops ==
    /\ link = "up" /\ drops < MaxDrops
    /\ drops' = drops + 1
    /\ link' = "dropping"
    /\ step' = [t \in Tokens |-> IF step[t] \in {"accepted", "closing"} THEN "done" ELSE step[t]]
    /\ visitor' = [t \in Tokens |-> visitor[t] /\ step[t] \notin {"accepted", "closing"}]
    /\ pump' = [t \in Tokens |-> IF step[t] = "pumping" THEN "cancelled" ELSE pump[t]]
    /\ UNCHANGED <<now, seen, sshd, tracked, start, live, killAsked, told, opened, presents, asks, fails>>

(* The bastion is connected to again once all tasks are over.              *)
LinkReturns ==
    /\ link = "dropping" /\ TunnelTasks = {}
    /\ link' = "up"
    /\ UNCHANGED <<now, seen, step, visitor, sshd, pump, tracked, start, live, killAsked, told,
                   opened, presents, asks, drops, fails>>

ClosedBy_First(c) ==
    IF \E t \in tracked : Conn[t] = c THEN {CHOOSE t \in tracked : Conn[t] = c} ELSE {}

ClosedBy(c) == {t \in tracked : Conn[t] = c}

(* A terminate token for a connection that the server knows; it opens no   *)
(* tunnel.                                                                 *)
Terminate(c) ==
    /\ asks < MaxAsks /\ link = "up"
    /\ asks' = asks + 1
    /\ pump' = [t \in Tokens |-> IF t \in ClosedBy(c) THEN "cancelled" ELSE pump[t]]
    /\ killAsked' = IF KillDir THEN killAsked \cup {c} ELSE killAsked
    /\ told' = told \cup {t \in Tokens : step[t] = "pumping" /\ Conn[t] = c}
    /\ UNCHANGED <<now, seen, step, visitor, sshd, tracked, start, live, link, opened, presents, drops, fails>>

(* The reaper ends the session on the host; sshd closes its connections.   *)
Reap(c) ==
    /\ c \in killAsked
    /\ killAsked' = killAsked \ {c}
    /\ sshd' = [t \in Tokens |-> sshd[t] /\ Conn[t] # c]
    /\ UNCHANGED <<now, seen, step, visitor, pump, tracked, start, live, link, told,
                   opened, presents, asks, drops, fails>>

Tick ==
    /\ now < MaxNow
    /\ now' = now + 1
    /\ UNCHANGED <<seen, step, visitor, sshd, pump, tracked, start, live, link, killAsked, told,
                   opened, presents, asks, drops, fails>>

TaskStep(t) == \/ Connected(t) \/ NotConnected(t) \/ CloseTunnel(t) \/ StartReported(t) \/ EndReported(t)

TunnelsNext ==
    \/ \E t \in Tokens : TaskStep(t) \/ Present(t) \/ VisitorCloses(t) \/ SshdCloses(t)
    \/ \E c \in Connections : Terminate(c) \/ Reap(c)
    \/ LinkDrops \/ LinkReturns \/ Tick

TunnelsSpec == TunnelsInit /\ [][TunnelsNext]_tunnelVars

(* The event loop runs each task that can go on; calls and connects end.   *)
TunnelsFairSpec == TunnelsSpec /\ \A t \in Tokens : WF_tunnelVars(TaskStep(t))

-----------------------------------------------------------------------------
(* Types, and what the Terminator holds: the tunnels that pump, so that no *)
(* closed tunnel is kept and no open one is out of its reach.              *)
TunnelsTyped ==
    /\ now \in 0..MaxNow /\ seen \subseteq Tokens /\ link \in {"up", "dropping"}
    /\ step \in [Tokens -> {"none", "accepted", "pumping", "closing", "done"}]
    /\ pump \in [Tokens -> {"none", "runs", "cancelled"}]
    /\ start \in [Tokens -> {"none", "sent", "over"}]
    /\ live \in [Tokens -> {"none", "open", "ended"}]
    /\ tracked = {t \in Tokens : step[t] = "pumping"}

(* "Each token is used once, so its id tells two tunnels of the same       *)
(* connection apart": a token opens at most one tunnel, however often it   *)
(* is presented.                                                           *)
TokenOpensOnce == \A t \in Tokens : opened[t] <= 1

(* "Report the end of a tunnel, after its start was reported": when a      *)
(* tunnel that pumped is over, its row is closed, as long as no call       *)
(* failed and the link did not drop.                                       *)
EndFollowsStart ==
    \A t \in Tokens :
        step[t] = "done" /\ start[t] # "none" /\ fails = 0 /\ drops = 0 => live[t] = "ended"

(* A tunnel per token, and an end for every start.                         *)
OneTunnelOneReport == TokenOpensOnce /\ EndFollowsStart

(* "It closes the tunnels that this relay carries for the connection": all *)
(* of them.                                                                *)
TerminateCloses == \A t \in Tokens : t \in told ~> step[t] = "done"

(* A tunnel does not outlive its deadline, even if the connection to sshd  *)
(* took until then.                                                        *)
DeadlineCloses ==
    \A t \in Tokens :
        (DeadlineOf[t] # NoDeadline /\ now >= DeadlineOf[t] /\ step[t] = "pumping") ~> step[t] # "pumping"

(* session_kill.py on a request to the reaper: "the tunnel closes when the *)
(* session ends".                                                          *)
TunnelFollowsSession ==
    \A t \in Tokens : (step[t] = "pumping" /\ ~sshd[t]) ~> step[t] # "pumping"
=============================================================================
