---------------------------- MODULE PamSessions ----------------------------
(***************************************************************************)
(* The sessions of one SSH connection on a Linux host: the PAM hook that   *)
(* sshd runs when a session opens and closes                               *)
(* (cli/pf/openssh_pam_session_deadline_linux.py, session_records.py), the *)
(* systemd timer that the hook sets, and the reaper that ends the sessions *)
(* of a connection on request (LogindReaper).                              *)
(*                                                                         *)
(* A certificate can open several sessions while it is valid; all have its *)
(* connection id and its deadline.  LinuxHost adds the events that the     *)
(* hook reports, and has the next-state relation.                          *)
(***************************************************************************)
EXTENDS Integers, FiniteSets

CONSTANTS
    Sessions,       \* the sessions of the connection, by their logind ids
    NoId,           \* the session that logind gave no id
    Deadline,       \* of the certificate
    None,          \* no time, no session
    HookTime,       \* how long sshd takes from login to the record at most
    KillTTL,        \* KILL_REQUEST_TTL
    LogindMayFail,  \* whether loginctl terminate-session may fail
    MaxRequests,    \* bound: requests to end the connection
    MaxClock        \* bound: the clock stops here

ASSUME PamAssumption ==
    /\ Deadline \in Nat /\ HookTime \in Nat /\ KillTTL \in Nat
    /\ MaxRequests \in Nat /\ MaxClock \in Nat
    /\ LogindMayFail \in BOOLEAN
    /\ None \notin Nat \cup Sessions \cup [session : Sessions, due : Nat]

VARIABLES
    clock,      \* real time
    skew,       \* how far the clock of the host is behind it
    session,    \* per session: how far it is, and since when while it logs in
    records,    \* --sessions-dir
    timer,      \* the unit pf-deadline-<connection id>: the session it ends, and when
    request,    \* whether kill-<connection id> is there
    orphan,     \* since when the reaper knows the request without a session
    asked,      \* how many requests were made
    tick        \* the tick of the reaper that runs, and what it has read

wall == clock - skew

vars == <<clock, skew, session, records, timer, request, orphan, asked, tick>>

States == {"before", "login", "recorded", "open", "ending", "over", "gone"}
In(s, states) == session[s].state \in states
Resting == [step |-> "asleep", found |-> {}, todo |-> {}]

TypeOK ==
    /\ clock \in 0..MaxClock /\ skew \in 0..1
    /\ session \in [Sessions -> [state : States, since : 0..MaxClock]]
    /\ records \subseteq {s \in Sessions \ {NoId} : ~In(s, {"before", "login", "over"})}
    /\ timer # None => timer.session \in Sessions \ {NoId}
    /\ orphan \in 0..MaxClock \cup {None}
    /\ tick.todo \subseteq tick.found /\ (tick.step = "ending" => request)

Init ==
    /\ clock = 0 /\ skew = 0
    /\ session = [s \in Sessions |-> [state |-> "before", since |-> 0]]
    /\ records = {}
    /\ timer = None
    /\ request = FALSE
    /\ orphan = None
    /\ asked = 0
    /\ tick = Resting

Goes(s, from, to) ==
    /\ In(s, from)
    /\ session' = [session EXCEPT ![s] = [state |-> to, since |-> IF to = "login" THEN clock ELSE 0]]

(* loginctl terminate-session: a session that runs begins to end.          *)
Terminated(s) == IF In(s, {"login", "recorded", "open"})
                 THEN [session EXCEPT ![s] = [state |-> "ending", since |-> 0]]
                 ELSE session

-----------------------------------------------------------------------------
(* A session.  logind knows it before the hook runs; the hook first writes *)
(* the record and then sets the timer.                                     *)

Login(s) ==
    /\ Goes(s, {"before"}, "login")
    /\ UNCHANGED <<clock, skew, records, timer, request, orphan, asked, tick>>

Record(s) ==
    /\ Goes(s, {"login"}, "recorded")
    /\ records' = records \cup ({s} \ {NoId})
    /\ UNCHANGED <<clock, skew, timer, request, orphan, asked, tick>>

(* systemd-run refuses a unit name that is in use, and the hook does not   *)
(* look at its result.                                                     *)
Timer_NotStarted(s) == None

Timer(s) == IF timer = None THEN [session |-> s, due |-> clock + Deadline - wall] ELSE timer

SetTimer(s) ==
    /\ In(s, {"recorded"})
    /\ IF wall >= Deadline /\ s # NoId
       THEN /\ session' = Terminated(s)
            /\ UNCHANGED timer
       ELSE /\ session' = [session EXCEPT ![s].state = "open"]
            /\ timer' = IF s = NoId THEN timer ELSE Timer(s)
    /\ UNCHANGED <<clock, skew, records, request, orphan, asked, tick>>

(* The hook for a session that closes: it removes the record and stops the *)
(* timer of the connection.                                                *)
Close(s) ==
    /\ Goes(s, {"open", "ending"}, "over")
    /\ records' = records \ {s}
    /\ timer' = None
    /\ UNCHANGED <<clock, skew, request, orphan, asked, tick>>

(* sshd is killed, and the hook does not run.                              *)
Vanish(s) ==
    /\ Goes(s, {"login", "recorded", "open", "ending"}, "gone")
    /\ UNCHANGED <<clock, skew, records, timer, request, orphan, asked, tick>>

TimerFires ==
    /\ timer # None /\ clock >= timer.due
    /\ session' = Terminated(timer.session)
    /\ timer' = None
    /\ UNCHANGED <<clock, skew, records, request, orphan, asked, tick>>

-----------------------------------------------------------------------------
(* The relay asks, the reaper looks: first for requests, then for records  *)
(* of the connection.  It removes the request whether loginctl worked or   *)
(* not.                                                                    *)

Ask ==
    /\ asked < MaxRequests
    /\ asked' = asked + 1
    /\ request' = TRUE
    /\ UNCHANGED <<clock, skew, session, records, timer, orphan, tick>>

FindRequest ==
    /\ tick.step = "asleep"
    /\ IF request
       THEN tick' = [tick EXCEPT !.step = "reading"] /\ UNCHANGED orphan
       ELSE orphan' = None /\ UNCHANGED tick
    /\ UNCHANGED <<clock, skew, session, records, timer, request, asked>>

FindSessions ==
    /\ tick.step = "reading" /\ records # {}
    /\ tick' = [step |-> "ending", found |-> records, todo |-> records]
    /\ UNCHANGED <<clock, skew, session, records, timer, request, orphan, asked>>

EndOne(s) ==
    /\ tick.step = "ending" /\ s \in tick.todo
    /\ session' = Terminated(s) \/ (LogindMayFail /\ UNCHANGED session)
    /\ tick' = [tick EXCEPT !.todo = @ \ {s}]
    /\ UNCHANGED <<clock, skew, records, timer, request, orphan, asked>>

Served ==
    /\ tick.step = "ending" /\ tick.todo = {}
    /\ request' = FALSE
    /\ orphan' = None
    /\ tick' = Resting
    /\ UNCHANGED <<clock, skew, session, records, timer, asked>>

Expired_FirstLook == TRUE

Expired == orphan # None /\ clock - orphan >= KillTTL

(* No session yet: the request waits, but not for ever.                    *)
Unclaimed ==
    /\ tick.step = "reading" /\ records = {}
    /\ request' = ~Expired
    /\ orphan' = IF Expired THEN None ELSE IF orphan = None THEN clock ELSE orphan
    /\ tick' = Resting
    /\ UNCHANGED <<clock, skew, session, records, timer, asked>>

(* Time passes: the hook writes its record in time, the timer fires when   *)
(* it is due.                                                              *)
Pass ==
    /\ clock < MaxClock
    /\ \A s \in Sessions : In(s, {"login"}) => clock < session[s].since + HookTime
    /\ timer # None => clock < timer.due
    /\ clock' = clock + 1
    /\ UNCHANGED <<skew, session, records, timer, request, orphan, asked, tick>>

ReaperStep == FindRequest \/ FindSessions \/ Served \/ Unclaimed \/ \E s \in Sessions : EndOne(s)

-----------------------------------------------------------------------------
(* The hook is there for "enforcing a certificate's session_deadline": no  *)
(* session of the connection runs on after the deadline.                   *)
DeadlineKept == \A s \in Sessions \ {NoId} : In(s, {"open"}) => clock <= Deadline + skew

(* The only session of its connection does not run on after the deadline,  *)
(* as the clock of the host has it, whatever requests and failures there   *)
(* are, and however late the hook sets the timer.                          *)
LoneSessionEndsInTime ==
    \A s \in Sessions \ {NoId} :
        In(s, {"open"}) /\ (\A t \in Sessions \ {s} : In(t, {"before"})) => clock <= Deadline + skew

(* The reaper gives up a request without a session only when no session    *)
(* was starting when it first looked: a request waits for the hook.        *)
GivenUpOnlyForNobody ==
    [][tick.step = "reading" /\ request /\ ~request' =>
           \A s \in Sessions \ {NoId} :
               In(s, {"login"}) => orphan # None /\ session[s].since > orphan]_vars
=============================================================================
