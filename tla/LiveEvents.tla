----------------------------- MODULE LiveEvents -----------------------------
(***************************************************************************)
(* The live events of one SSH connection: the files that a host leaves     *)
(* (cli/pf/live_events.py), the pass of `pf bastion register` that sends   *)
(* them, and the registry of the server (api/model/live.py).               *)
(*                                                                         *)
(* Files are sent in the order of their names, which are time stamps.  An  *)
(* event that fails is sent again, so the server may see it twice, and     *)
(* holds back the later events of its session.  Old files are removed.     *)
(*                                                                         *)
(* The server is reached over a network: an answer may get lost, and a     *)
(* request that the host gave up on may still be handled later.  The clock *)
(* of the host may be set back.  Each event is written by a process of its *)
(* own, as the PAM hook does (LinuxHost composes the two).                 *)
(***************************************************************************)
EXTENDS Integers, FiniteSets

CONSTANTS
    Sessions,       \* session ids
    NoId,           \* the empty session id, when logind has none
    MaxAge,         \* MAX_AGE
    MaxFailures,    \* bound: sends that fail
    MaxClock        \* bound: the clock stops here

VARIABLES
    clock,      \* real time, which is also the clock of the server
    skew,       \* how far the clock of the host is behind
    phase,      \* per session: what happens on the host, and since when
    spool,      \* the event files
    expired,    \* the events whose files were removed for their age
    pass,       \* the pass that runs: whether, what it still has to send, and
                \* the sessions it holds back
    late,       \* requests on their way that the host gave up on
    taken,      \* the events that the server has handled
    rows,       \* the registry: per session when it started and ended
    failures

vars == <<clock, skew, phase, spool, expired, pass, late, taken, rows, failures>>

wall == clock - skew
Times == 0..MaxClock
Never == -1

Events == [kind : {"start", "end"}, session : Sessions, at : Times]
IsOpen(row) == row.started # Never /\ row.ended = Never

TypeOK ==
    /\ clock \in Times /\ skew \in {0, 1}
    /\ phase \in [Sessions -> [state : {"before", "open", "over"}, since : Times]]
    /\ spool \subseteq Events /\ expired \subseteq Events /\ taken \subseteq Events
    /\ late \subseteq Events
    /\ pass.todo \subseteq spool /\ pass.blocked \subseteq Sessions
    /\ rows \in [Sessions -> [started : Times \cup {Never}, ended : Times \cup {Never}]]
    /\ \A s \in Sessions : rows[s].ended # Never => 0 <= rows[s].started /\ rows[s].started <= rows[s].ended

Resting == [on |-> FALSE, todo |-> {}, blocked |-> {}]

Init ==
    /\ clock = 0 /\ skew = 0
    /\ phase = [s \in Sessions |-> [state |-> "before", since |-> 0]]
    /\ spool = {} /\ expired = {} /\ taken = {} /\ late = {}
    /\ pass = Resting
    /\ rows = [s \in Sessions |-> [started |-> Never, ended |-> Never]]
    /\ failures = 0

-----------------------------------------------------------------------------
(* The host.                                                               *)

Higher(a, b) == IF a > b THEN a ELSE b
Lower(a, b) == IF a < b THEN a ELSE b

(* The name of the file is the time: two events of one moment are in any   *)
(* order.                                                                  *)
Write(kind, s) == spool' = spool \cup {[kind |-> kind, session |-> s, at |-> wall]}

(* A session has a length: it does not end in the microsecond in which it  *)
(* started.                                                                *)
Moves(s, from, to) ==
    /\ phase[s].state = from
    /\ from = "open" => clock > phase[s].since
    /\ phase' = [phase EXCEPT ![s] = [state |-> to, since |-> IF to = "open" THEN clock ELSE 0]]

OpenSession(s) ==
    /\ Moves(s, "before", "open")
    /\ Write("start", s)
    /\ UNCHANGED <<clock, skew, expired, pass, late, taken, rows, failures>>

CloseSession(s) ==
    /\ Moves(s, "open", "over")
    /\ Write("end", s)
    /\ UNCHANGED <<clock, skew, expired, pass, late, taken, rows, failures>>

-----------------------------------------------------------------------------
(* The server.                                                             *)

StartRow(row, at) == IF row.started = Never THEN [started |-> at, ended |-> Never] ELSE row

EndRow(row, at) == IF IsOpen(row) THEN [row EXCEPT !.ended = Higher(at, row.started)] ELSE row

(* An end without a session id ends every session of the connection.       *)
Covers(e, s) == e.session = s \/ (e.kind = "end" /\ e.session = NoId)

Serve(e) ==
    LET at == Lower(e.at, clock) IN
    /\ taken' = taken \cup {e}
    /\ rows' = [s \in Sessions |->
                   IF ~Covers(e, s) THEN rows[s]
                   ELSE IF e.kind = "start" THEN StartRow(rows[s], at) ELSE EndRow(rows[s], at)]

(* A request that was on its way for long.                                 *)
ServeLate(e) ==
    /\ e \in late
    /\ late' = late \ {e}
    /\ Serve(e)
    /\ UNCHANGED <<clock, skew, phase, spool, expired, pass, failures>>

-----------------------------------------------------------------------------
(* One pass over the files: read them all, send one after the other, then  *)
(* remove the old ones.                                                    *)

ReadSpool ==
    /\ ~pass.on
    /\ pass' = [on |-> TRUE, todo |-> spool, blocked |-> {}]
    /\ UNCHANGED <<clock, skew, phase, spool, expired, late, taken, rows, failures>>

IsOldest(e) == e \in pass.todo /\ \A f \in pass.todo : e.at <= f.at

Skip(e) ==
    /\ IsOldest(e) /\ e.session \in pass.blocked
    /\ pass' = [pass EXCEPT !.todo = @ \ {e}]
    /\ UNCHANGED <<clock, skew, phase, spool, expired, late, taken, rows, failures>>

Sendable(e) == IsOldest(e) /\ e.session \notin pass.blocked

SendAccepted(e) ==
    /\ Sendable(e)
    /\ Serve(e)
    /\ spool' = spool \ {e}
    /\ pass' = [pass EXCEPT !.todo = @ \ {e}]
    /\ UNCHANGED <<clock, skew, phase, expired, late, failures>>

Block(e) == pass' = [pass EXCEPT !.todo = @ \ {e}, !.blocked = @ \cup {e.session}]

FilesAfterFailure_Without(e) == spool \ {e}

FilesAfterFailure(e) == spool

(* The send raises: the server refused, or handled the event and the       *)
(* answer got lost, or will handle it later.  The file stays.              *)
SendFails(e) ==
    /\ Sendable(e) /\ failures < MaxFailures
    /\ failures' = failures + 1
    /\ Block(e)
    /\ spool' = FilesAfterFailure(e)
    /\ \/ UNCHANGED <<late, taken, rows>>
       \/ Serve(e) /\ UNCHANGED late
       \/ late' = late \cup {e} /\ UNCHANGED <<taken, rows>>
    /\ UNCHANGED <<clock, skew, phase, expired>>

TooOld(e) == wall - e.at > MaxAge

EndPass ==
    /\ pass.on /\ pass.todo = {}
    /\ spool' = {e \in spool : ~TooOld(e)}
    /\ expired' = expired \cup {e \in spool : TooOld(e)}
    /\ pass' = Resting
    /\ UNCHANGED <<clock, skew, phase, late, taken, rows, failures>>

-----------------------------------------------------------------------------
Tick ==
    /\ clock < MaxClock
    /\ clock' = clock + 1
    /\ UNCHANGED <<skew, phase, spool, expired, pass, late, taken, rows, failures>>

SetBack ==
    /\ skew = 0 /\ clock > 0
    /\ skew' = 1
    /\ UNCHANGED <<clock, phase, spool, expired, pass, late, taken, rows, failures>>

ForwardStep ==
    \/ ReadSpool \/ EndPass
    \/ \E e \in pass.todo : Skip(e) \/ SendAccepted(e) \/ SendFails(e)

-----------------------------------------------------------------------------
(* The registry never says of a session that runs that it ended, nor knows *)
(* one before it started.                                                  *)
RegistryIsTrue ==
    \A s \in Sessions :
        /\ rows[s].started # Never => phase[s].state # "before"
        /\ rows[s].ended # Never =>
               \E t \in {s, NoId} \cap Sessions : phase[t].state = "over"

(* "This keeps an end from arriving before its start": once the server has *)
(* taken the end of a session, the session is not open and does not come   *)
(* to be open again, however sends fail and whenever they are handled;     *)
(* unless the clock was set back, or the start got too old to be sent.     *)
EndClosesTheSession ==
    \A e \in taken :
        /\ e.kind = "end" /\ skew = 0
        /\ ~\E f \in expired : f.kind = "start" /\ f.session = e.session
        => ~IsOpen(rows[e.session])

(* The same without any condition, as the comment of the code has it.      *)
EndNeverPrecedesStart == \A e \in taken : e.kind = "end" => ~IsOpen(rows[e.session])

(* "A file stays until the server has accepted its event": when no file is *)
(* left, no request is on its way and none was given up for its age, the   *)
(* registry knows of every session of the host, and of no session that is  *)
(* over as an open one.                                                    *)
SettledRegistryIsRight ==
    spool = {} /\ late = {} /\ expired = {} /\ skew = 0 =>
        \A s \in Sessions : phase[s].state # "before" =>
            /\ rows[s].started # Never
            /\ phase[s].state = "over" => ~IsOpen(rows[s])
=============================================================================
