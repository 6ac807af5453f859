--------------------------- MODULE SessionReaper ---------------------------
(***************************************************************************)
(* The session reaper of macOS and Windows hosts                           *)
(* (cli/pf/openssh_session_reaper.py, cli/pf/host/procs.py).               *)
(*                                                                         *)
(* sshd asks `pf openssh auth-principals` about a certificate, and that    *)
(* leaves a record: the pid of the sshd process of the connection, and the *)
(* deadline of the certificate.  A relay that is told to end a connection  *)
(* leaves a request.  The reaper wakes up every second, looks at records,  *)
(* requests and processes, which all change while it looks, and ends what  *)
(* must end: first it asks, and after a grace period it kills.             *)
(*                                                                         *)
(* A process is known by its pid and the second in which it started, since *)
(* pids are used again.  What the reaper remembers is lost when it stops;  *)
(* records and requests are files and stay.                                *)
(***************************************************************************)
EXTENDS Integers, Sequences, SequencesExt

CONSTANTS
    Conns,          \* connections, by the connection id in the certificate
    Pids,
    Deadlines,      \* the deadlines that certificates carry, in clock time
    NoDeadline,     \* the certificate of an unbounded grant
    Nobody,         \* the owner of a pid that no connection has
    Grace,          \* how long a session that was asked to end may take
    KillTTL,        \* KILL_REQUEST_TTL
    ReuseAfter,     \* a pid that got free is used again after that many seconds
    PsMayFail,      \* whether ps may fail and print nothing
    MaxDisturbances,    \* bound: requests and restarts of the reaper together
    MaxClock        \* bound: the clock stops here

ASSUME ReaperAssumption ==
    /\ Grace \in Nat /\ KillTTL \in Nat /\ ReuseAfter \in Nat /\ MaxClock \in Nat
    /\ Deadlines \subseteq Nat /\ PsMayFail \in BOOLEAN
    /\ Pids # {} /\ Nobody \notin Conns

VARIABLES
    clock,
    table,      \* per pid: the process that has it, Free when there is none
    freed,      \* per pid: when it got free, while it cannot be used again yet
    session,    \* per connection: not begun, open or over, with its process
    records,    \* the files of --deadline-dir
    requests,   \* the files of --kill-dir: when the first and the last was written
    disturbed,  \* how many requests and restarts there were
    events,     \* per connection: the live events that were written
    up,         \* whether the reaper runs, and since when
    memory,     \* what the reaper remembers between ticks
    tick,       \* where it is in a tick, and what it has read in this one
    ticked,     \* whether a tick has ended since the clock moved
    misfired    \* whether a process of no session was signalled, in a later second than it started

vars == <<clock, table, freed, session, records, requests, disturbed, events, up,
          memory, tick, ticked, misfired>>

Names == Pids \X Conns
Free == [owner |-> Nobody, start |-> -1]
Busy(t, p) == t[p] # Free

NoRequest == [first |-> -1, last |-> -1]
NotBegun == [state |-> "none", pid |-> CHOOSE p \in Pids : TRUE, deadline |-> NoDeadline, since |-> -1]
Over == [NotBegun EXCEPT !.state = "over"]
Open(c) == session[c].state = "open"
Registered(c) == session[c].since >= 0

Blank == [bound |-> <<>>, ending |-> <<>>, reported |-> {}, orphans |-> <<>>]
Asleep == [step |-> "asleep", names |-> {}, todo |-> {}, snap |-> [p \in Pids |-> Free],
           asked |-> {}, live |-> {}, force |-> FALSE, target |-> CHOOSE p \in Pids : TRUE]

(* Partial functions as the dicts of the reaper.                           *)
With(f, k, v) == [x \in DOMAIN f \cup {k} |-> IF x = k THEN v ELSE f[x]]
Without(f, ks) == [x \in DOMAIN f \ ks |-> f[x]]

Procs == [owner : Conns \cup {Nobody}, start : {-1} \cup 0..MaxClock]
Records == [name : Names, written : 0..MaxClock, deadline : Deadlines \cup {NoDeadline}]

TypeOK ==
    /\ clock \in 0..MaxClock
    /\ table \in [Pids -> Procs] /\ freed \in [Pids -> -1..MaxClock]
    /\ \A c \in Conns : Open(c) => table[session[c].pid].owner = c
    /\ records \subseteq Records
    /\ \A r, s \in records : r.name = s.name => r = s
    /\ \A c \in Conns : requests[c].first <= requests[c].last
    /\ DOMAIN memory.ending \subseteq DOMAIN memory.bound
    /\ memory.reported \subseteq DOMAIN memory.bound
    /\ tick.todo \subseteq tick.names /\ tick.live \subseteq Conns

Init ==
    /\ clock = 0
    /\ table = [p \in Pids |-> Free]
    /\ freed = [p \in Pids |-> -1]
    /\ session = [c \in Conns |-> NotBegun]
    /\ records = {}
    /\ requests = [c \in Conns |-> NoRequest]
    /\ disturbed = 0
    /\ events = [c \in Conns |-> <<>>]
    /\ up = [on |-> TRUE, since |-> 0]
    /\ memory = Blank
    /\ tick = Asleep
    /\ ticked = FALSE
    /\ misfired = FALSE

-----------------------------------------------------------------------------
(* Processes.                                                              *)

CanStart(p) == ~Busy(table, p) /\ (freed[p] >= 0 => clock >= freed[p] + ReuseAfter)
StillFresh(p) == freed[p] >= 0 /\ clock + 1 < freed[p] + ReuseAfter

Connect(c, p) ==
    /\ session[c].state = "none" /\ CanStart(p)
    /\ table' = [table EXCEPT ![p] = [owner |-> c, start |-> clock]]
    /\ \E d \in Deadlines \cup {NoDeadline} :
           session' = [session EXCEPT ![c] =
                           [state |-> "open", pid |-> p, deadline |-> d, since |-> -1]]
    /\ UNCHANGED <<clock, freed, records, requests, disturbed, events, up, memory, tick, ticked, misfired>>

(* Any other program gets the pid.                                         *)
Spawn(p) ==
    /\ CanStart(p)
    /\ table' = [table EXCEPT ![p] = [owner |-> Nobody, start |-> clock]]
    /\ UNCHANGED <<clock, freed, session, records, requests, disturbed, events, up, memory, tick, ticked, misfired>>

EndOf(p) ==
    /\ table' = [table EXCEPT ![p] = Free]
    /\ freed' = [freed EXCEPT ![p] = clock]
    /\ session' = [c \in Conns |-> IF table[p].owner = c THEN Over ELSE session[c]]

Exit(p) ==
    /\ Busy(table, p)
    /\ EndOf(p)
    /\ UNCHANGED <<clock, records, requests, disturbed, events, up, memory, tick, ticked, misfired>>

(* register_session: auth-principals finds the sshd process above it and   *)
(* writes, or writes over, the record.                                     *)
Register(c) ==
    /\ Open(c)
    /\ LET name == <<session[c].pid, c>>
       IN  records' = {r \in records : r.name # name} \cup
                      {[name |-> name, written |-> clock, deadline |-> session[c].deadline]}
    /\ session' = [session EXCEPT ![c].since = IF @ < 0 THEN clock ELSE @]
    /\ UNCHANGED <<clock, table, freed, requests, disturbed, events, up, memory, tick, ticked, misfired>>

(* request_kill, by the relay.                                             *)
Request(c) ==
    /\ disturbed < MaxDisturbances
    /\ requests' = [requests EXCEPT ![c] =
                        [first |-> IF requests[c] = NoRequest THEN clock ELSE @.first, last |-> clock]]
    /\ disturbed' = disturbed + 1
    /\ UNCHANGED <<clock, table, freed, session, records, events, up, memory, tick, ticked, misfired>>

-----------------------------------------------------------------------------
(* One tick of the reaper: the names, then the processes and the requests, *)
(* then one record after the other.                                        *)

List ==
    /\ up.on /\ tick.step = "asleep"
    /\ LET names == {r.name : r \in records}
       IN  tick' = [tick EXCEPT !.step = "listed", !.names = names, !.todo = names]
    /\ UNCHANGED <<clock, table, freed, session, records, requests, disturbed, events, up, memory, ticked, misfired>>

(* The snapshot: all processes, or nothing when ps fails.                  *)
Seen == {table} \cup (IF PsMayFail THEN {[p \in Pids |-> Free]} ELSE {})

Look ==
    /\ tick.step = "listed"
    /\ \E t \in Seen :
           tick' = [tick EXCEPT !.step = "handling", !.snap = t,
                                !.asked = {c \in Conns : requests[c] # NoRequest}]
    /\ UNCHANGED <<clock, table, freed, session, records, requests, disturbed, events, up, memory, ticked, misfired>>

(* _forget: the end of a session is reported if its start was.             *)
ForgetNames(gone) ==
    /\ memory' = [memory EXCEPT !.bound = Without(@, gone), !.ending = Without(@, gone),
                                !.reported = @ \ gone]
    /\ events' = [c \in Conns |->
                     IF \E n \in gone \cap memory.reported : n[2] = c
                     THEN Append(events[c], "end") ELSE events[c]]

(* The reasons to drop a record: no process, a process that is no sshd     *)
(* connection or younger than the record, another process than before.     *)
ShouldDrop_NeverMindTheSecond(r) ==
    LET p == r.name[1] IN
    \/ ~Busy(tick.snap, p) \/ ~Busy(table, p)
    \/ r.name \notin DOMAIN memory.bound /\ tick.snap[p].owner = Nobody
    \/ r.name \notin DOMAIN memory.bound /\ table[p].start >= r.written
    \/ r.name \in DOMAIN memory.bound /\ memory.bound[r.name] # table[p].start

ShouldDrop_AnyAge(r) ==
    LET p == r.name[1] IN
    \/ ~Busy(tick.snap, p) \/ ~Busy(table, p)
    \/ r.name \notin DOMAIN memory.bound /\ tick.snap[p].owner = Nobody
    \/ r.name \in DOMAIN memory.bound /\ memory.bound[r.name] # table[p].start

ShouldDrop(r) ==
    LET p == r.name[1] IN
    \/ ~Busy(tick.snap, p) \/ ~Busy(table, p)
    \/ r.name \notin DOMAIN memory.bound /\ tick.snap[p].owner = Nobody
    \/ r.name \notin DOMAIN memory.bound /\ table[p].start > r.written
    \/ r.name \in DOMAIN memory.bound /\ memory.bound[r.name] # table[p].start

Drop(r) ==
    /\ tick.step = "handling" /\ r.name \in tick.todo
    /\ ShouldDrop(r)
    /\ records' = records \ {r}
    /\ ForgetNames({r.name})
    /\ tick' = [tick EXCEPT !.todo = @ \ {r.name}]
    /\ UNCHANGED <<clock, table, freed, session, requests, disturbed, up, ticked, misfired>>

IsDue_WithDeadlineOnly(r) == r.deadline # NoDeadline /\ (r.name[2] \in tick.asked \/ r.deadline <= clock)

IsDue(r) == r.name[2] \in tick.asked \/ (r.deadline # NoDeadline /\ r.deadline <= clock)

(* Handle a record whose process is there: bind it, report its start, and  *)
(* decide whether to signal it.                                            *)
Handle(r) ==
    /\ tick.step = "handling" /\ r.name \in tick.todo
    /\ ~ShouldDrop(r)
    /\ LET n == r.name
           c == n[2]
           start == n \notin DOMAIN memory.ending /\ IsDue(r)
           force == n \in DOMAIN memory.ending /\ clock - memory.ending[n] >= Grace
       IN  /\ memory' = [memory EXCEPT
                  !.bound = With(@, n, table[n[1]].start),
                  !.reported = @ \cup {n},
                  !.ending = IF start THEN With(@, n, clock) ELSE @]
           /\ events' = [events EXCEPT ![c] = IF n \in memory.reported THEN @ ELSE Append(@, "start")]
           /\ tick' = [tick EXCEPT
                  !.todo = @ \ {n}, !.live = @ \cup {c},
                  !.step = IF start \/ force THEN "signal" ELSE @,
                  !.target = n[1], !.force = force]
    /\ UNCHANGED <<clock, table, freed, session, records, requests, disturbed, up, ticked, misfired>>

(* The signal goes to a pid, whoever has it by now.  A session may take    *)
(* its time to end when asked; when forced, the process is gone.           *)
Signal ==
    /\ tick.step = "signal"
    /\ tick' = [tick EXCEPT !.step = "handling"]
    /\ misfired' = (misfired \/ ( /\ Busy(table, tick.target)
                                 /\ table[tick.target].owner \notin tick.live
                                 /\ table[tick.target].start < clock))
    /\ IF tick.force /\ Busy(table, tick.target)
       THEN EndOf(tick.target)
       ELSE UNCHANGED <<table, freed, session>>
    /\ UNCHANGED <<clock, records, requests, disturbed, events, up, memory, ticked>>

(* The end of a tick: records that vanished are forgotten, and requests    *)
(* that no live session claimed for a while are removed.                   *)
Orphans == {c \in tick.asked : c \notin tick.live}
FirstSeen(c) == IF c \in DOMAIN memory.orphans THEN memory.orphans[c] ELSE clock
Expired == {c \in Orphans : clock - FirstSeen(c) >= KillTTL}

Finish ==
    /\ tick.step = "handling" /\ tick.todo = {}
    /\ LET gone == DOMAIN memory.bound \ tick.names
       IN  /\ memory' = [bound |-> Without(memory.bound, gone),
                         ending |-> Without(memory.ending, gone),
                         reported |-> memory.reported \ gone,
                         orphans |-> [c \in Orphans \ Expired |-> FirstSeen(c)]]
           /\ events' = [c \in Conns |->
                            IF \E n \in gone \cap memory.reported : n[2] = c
                            THEN Append(events[c], "end") ELSE events[c]]
    /\ requests' = [c \in Conns |-> IF c \in Expired THEN NoRequest ELSE requests[c]]
    /\ tick' = Asleep
    /\ ticked' = TRUE
    /\ UNCHANGED <<clock, table, freed, session, records, disturbed, up, misfired>>

Stop ==
    /\ up.on /\ disturbed < MaxDisturbances
    /\ disturbed' = disturbed + 1
    /\ up' = [up EXCEPT !.on = FALSE]
    /\ memory' = Blank
    /\ tick' = Asleep
    /\ UNCHANGED <<clock, table, freed, session, records, requests, events, ticked, misfired>>

Start ==
    /\ ~up.on
    /\ up' = [up EXCEPT !.on = TRUE, !.since = clock]
    /\ UNCHANGED <<clock, table, freed, session, records, requests, disturbed, events, memory, tick, ticked, misfired>>

(* The reaper wakes up every second: while it runs, the clock does not get *)
(* further than one second without the end of a tick.                      *)
Pass ==
    /\ clock < MaxClock
    /\ up.on => ticked
    /\ clock' = clock + 1
    /\ ticked' = FALSE
    /\ freed' = [p \in Pids |-> IF StillFresh(p) THEN freed[p] ELSE -1]
    /\ UNCHANGED <<table, session, records, requests, disturbed, events, up, memory, tick, misfired>>

ReaperStep ==
    \/ List \/ Look \/ Signal \/ Finish \/ Start
    \/ \E r \in records : Drop(r) \/ Handle(r)

Next ==
    \/ \E c \in Conns : Register(c) \/ Request(c) \/ \E p \in Pids : Connect(c, p)
    \/ \E p \in Pids : Spawn(p) \/ Exit(p)
    \/ ReaperStep
    \/ Stop
    \/ Pass

Spec == Init /\ [][Next]_vars
FairSpec == Spec /\ WF_vars(ReaperStep)

-----------------------------------------------------------------------------
Latest(a, b) == IF a > b THEN a ELSE b

(* The record of a session that is open is never removed, whatever starts  *)
(* and ends while the reaper looks: without its record a session would     *)
(* never end at its deadline.                                              *)
KeepsOpenSessions ==
    [][\A r \in records : Open(r.name[2]) => \E s \in records' : s.name = r.name]_vars

(* A session that the reaper knows ends soon after its deadline, and soon  *)
(* after a request: within the grace period and three seconds (one for a   *)
(* tick to begin, one for it to end, one for the kill), counted from when  *)
(* the record was there and the reaper ran.  A restart begins anew.        *)
EndsOnTime ==
    \A c \in Conns : Open(c) /\ Registered(c) /\ up.on =>
        LET known == Latest(session[c].since, up.since)
            late(due) == clock > Latest(due, known) + Grace + 3
        IN  /\ session[c].deadline # NoDeadline => ~late(session[c].deadline)
            /\ requests[c] # NoRequest => ~late(requests[c].last)

(* A request is not removed before its time, and never while its session   *)
(* runs, unless the session was recorded in the very tick that removes it. *)
RequestsWaitForTheirSession ==
    [][\A c \in Conns : requests[c] # NoRequest /\ requests'[c] = NoRequest =>
           /\ clock - requests[c].first >= KillTTL
           /\ Open(c) => <<session[c].pid, c>> \notin tick.names]_vars

(* openssh_session_reaper.py says of the period that it is "how long a     *)
(* request waits for its session before it is removed": every request.     *)
EveryRequestWaits ==
    [][\A c \in Conns : requests[c] # NoRequest /\ requests'[c] = NoRequest =>
           clock - requests[c].last >= KillTTL]_vars

(* The live events of a connection tell the truth in order: an end is only *)
(* written when the session is over, after its start, and nothing follows. *)
EventsAreTrue ==
    \A c \in Conns : \A i \in DOMAIN events[c] :
        events[c][i] = "end" =>
            /\ events[c][1] = "start" /\ i = Len(events[c])
            /\ session[c].state = "over"

(* The reaper "checks every process before it signals it": a signal only   *)
(* reaches a process of a session that is due.  What no check can exclude  *)
(* is a pid that gets a new process in the very second of the signal.      *)
SignalsOnlySessions == ~misfired

(* "Whatever sees a session start or end on a host writes an event file":  *)
(* when the start of a session was reported, so is its end.                *)
EndIsReported ==
    \A c \in Conns :
        (events[c] # <<>> /\ session[c].state = "over") ~> (events[c] # <<>> /\ Last(events[c]) = "end")

(* Nothing but a session that is due gets a signal, and nothing but a       *)
(* session that is over is reported to have ended (reap, _kill, sweep).     *)
OnlySessionsEnd == SignalsOnlySessions /\ EventsAreTrue

(* What the reaper works from stays until it has no use: the record of a    *)
(* session that is open, and the request for one that is yet to come.       *)
RecordsAndRequestsStay == KeepsOpenSessions /\ RequestsWaitForTheirSession
=============================================================================
