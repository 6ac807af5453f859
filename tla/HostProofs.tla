----------------------------- MODULE HostProofs -----------------------------
(***************************************************************************)
(* Proofs about LinuxHost, for any sessions, ages and bounds, and about    *)
(* HostInstall, RelayTunnels and BastionRegistrar, for any platforms,      *)
(* tokens, bastions and bounds.                                            *)
(*                                                                         *)
(* The sessions (PamSessions): a timer ends a session that has started,    *)
(* and is due by the deadline; so the timer that the only session finds,   *)
(* or sets, is its own.  A session logs in for HookTime at most, so that   *)
(* one that logs in now had not begun when an expired request was first    *)
(* seen: the assumption of that theorem is HookTime < KillTTL.             *)
(*                                                                         *)
(* The events (LiveEvents): the start of a session is written before its   *)
(* end, with an earlier name as long as the clock is not set back.  A pass *)
(* that still has the end to send has the start too, or holds the session  *)
(* back; as it goes by the names, the server had the start when it is sent *)
(* the end, unless the start was removed for its age.                      *)
(*                                                                         *)
(* The installation (HostInstall): before each step of init, what the      *)
(* earlier ones made is there (InitSoFar), and the drop-in only after its  *)
(* own step; before each step of uninit, what the earlier ones took is     *)
(* gone (UninitSoFar), but for what a refresh that raced with it wrote.    *)
(* The order of the lists does the rest: jobs stop before what they need   *)
(* goes, and the drop-in goes before the files that it names.              *)
(*                                                                         *)
(* The bastions (RelayTunnels, BastionRegistrar): a token that opened a    *)
(* tunnel is remembered as long as it is valid (OpenedAreSeen), and its    *)
(* reports come one after the other (ReportsInOrder).  The registrar asks  *)
(* for the list when those that it cancelled have ended (EndedBeforeAsked, *)
(* which needs ~SlowClosing), so that one client of a bastion starts when  *)
(* there is no other (OneClientEach).                                      *)
(***************************************************************************)
EXTENDS LinuxHost, HostInstall, BastionRegistrar, TLAPS

-----------------------------------------------------------------------------
(* The sessions of the connection.                                         *)

Timers == [session : Sessions, due : Nat]

PamTyped ==
    /\ clock \in Nat /\ skew \in {0, 1}
    /\ session \in [Sessions -> [state : States, since : Nat]]
    /\ timer \in Timers \cup {None}
    /\ orphan \in Nat \cup {None}

Lone(s) == \A t \in Sessions \ {s} : In(t, {"before"})

(* A timer ends a session that has started, and no later than the deadline. *)
TimerIsDue ==
    timer # None => timer.due <= Deadline + skew /\ ~In(timer.session, {"before"})

(* The only session that is open has a timer, its own. *)
LoneHasItsTimer ==
    \A s \in Sessions \ {NoId} : In(s, {"open"}) /\ Lone(s) => timer # None /\ timer.session = s

(* The hook writes its record in time. *)
LoginsAreFresh ==
    \A s \in Sessions : In(s, {"login"}) =>
        session[s].since <= clock /\ clock <= session[s].since + HookTime

PamInv == PamTyped /\ TimerIsDue /\ LoneHasItsTimer /\ LoneSessionEndsInTime /\ LoginsAreFresh

-----------------------------------------------------------------------------
(* The events of the connection.                                           *)

EventSet == [kind : {"start", "end"}, session : Sessions, at : Nat]
Rows == [started : Nat \cup {-1}, ended : Nat \cup {-1}]

LiveTyped ==
    /\ clock \in Nat /\ skew \in {0, 1} /\ (skew = 1 => clock > 0)
    /\ phase \in [Sessions -> [state : {"before", "open", "over"}, since : Nat]]
    /\ spool \subseteq EventSet /\ expired \subseteq EventSet
    /\ taken \subseteq EventSet /\ late \subseteq EventSet
    /\ pass \in [on : BOOLEAN, todo : SUBSET spool, blocked : SUBSET Sessions]
    /\ rows \in [Sessions -> Rows]

IsStart(e, s) == e.kind = "start" /\ e.session = s
IsEnd(e, s) == e.kind = "end" /\ e.session = s

(* What is written happened. *)
EventsAreTrue ==
    \A e \in spool \cup late \cup taken :
        /\ phase[e.session].state # "before"
        /\ e.kind = "end" => phase[e.session].state = "over"

(* What happened is written. *)
EventsAreKept ==
    \A s \in Sessions :
        /\ phase[s].state # "before" => \E e \in spool \cup expired \cup taken : IsStart(e, s)
        /\ phase[s].state = "over" => \E e \in spool \cup expired \cup taken : IsEnd(e, s)

(* The files are in order while the clock is right. *)
FilesInOrder ==
    \A f \in spool : f.kind = "start" =>
        /\ phase[f.session].state = "open" => f.at <= phase[f.session].since
        /\ skew = 0 => \A e \in spool : IsEnd(e, f.session) => f.at < e.at

(* A pass that has an end to send has the start too, or holds both back. *)
PassIsWhole ==
    \A e \in pass.todo, f \in spool :
        e.kind = "end" /\ IsStart(f, e.session) => f \in pass.todo \/ e.session \in pass.blocked

(* The server knows of the starts that it was sent. *)
StartsAreKnown == \A f \in taken : f.kind = "start" => rows[f.session].started # Live!Never

StartExpired(s) == \E f \in expired : IsStart(f, s)

(* It is sent an end after the start, and closes the session. *)
EndsFindTheirStart ==
    skew = 0 => \A e \in late \cup taken : e.kind = "end" /\ ~StartExpired(e.session) =>
        rows[e.session].started # Live!Never

EndsClose ==
    skew = 0 => \A e \in taken : e.kind = "end" /\ ~StartExpired(e.session) =>
        rows[e.session].ended # Live!Never

LiveInv ==
    /\ LiveTyped /\ EventsAreTrue /\ EventsAreKept /\ FilesInOrder /\ PassIsWhole
    /\ StartsAreKnown /\ EndsFindTheirStart /\ EndsClose /\ Live!RegistryIsTrue

HostInv == PamInv /\ LiveInv

-----------------------------------------------------------------------------
(* The steps of each half. *)

SetsBack == skew = 0 /\ skew' = 1 /\ UNCHANGED <<clock, hostVars>>

PamStep ==
    \/ \E s \in Sessions : Login(s) \/ Record(s) \/ SetTimer(s) \/ Close(s) \/ Vanish(s)
    \/ TimerFires \/ Ask \/ ReaperStep \/ Pass \/ SetsBack
    \/ UNCHANGED <<clock, skew, hostVars>>

LiveStep ==
    \/ \E s \in Sessions : Live!OpenSession(s) \/ Live!CloseSession(s)
    \/ Live!ForwardStep \/ Live!Tick \/ Live!SetBack
    \/ \E e \in late : Live!ServeLate(e)
    \/ UNCHANGED <<clock, skew, liveVars>>

LEMMA Halves == [HostNext]_allVars => PamStep /\ LiveStep
  <1> SUFFICES ASSUME [HostNext]_allVars PROVE PamStep /\ LiveStep
    OBVIOUS
  <1>1. ASSUME NEW s \in Sessions, HookOpens(s) \/ HookCloses(s) PROVE PamStep /\ LiveStep
    BY <1>1 DEF HookOpens, HookCloses, PamStep, LiveStep
  <1>2. CASE HostStep
    <2>1. PamStep
      BY <1>2 DEF HostStep, PamStep
    <2>2. UNCHANGED <<clock, skew>>
      BY <1>2 DEF HostStep, Login, SetTimer, Vanish, TimerFires, Ask, ReaperStep, FindRequest,
                  FindSessions, Served, Unclaimed, EndOne
    <2> QED
      BY <1>2, <2>1, <2>2 DEF HostStep, LiveStep
  <1>3. CASE Forwarding
    <2>1. UNCHANGED <<clock, skew>>
      BY <1>3 DEF Forwarding, Live!ForwardStep, Live!ReadSpool, Live!EndPass, Live!Skip,
                  Live!SendAccepted, Live!SendFails
    <2> QED
      BY <1>3, <2>1 DEF Forwarding, LiveStep, PamStep
  <1>4. CASE NetworkStep
    <2>1. CASE Live!SetBack
      BY <1>4, <2>1 DEF NetworkStep, LiveStep, PamStep, SetsBack, Live!SetBack
    <2>2. ASSUME NEW e \in late, Live!ServeLate(e) PROVE PamStep /\ LiveStep
      BY <1>4, <2>2 DEF NetworkStep, LiveStep, PamStep, Live!ServeLate
    <2> QED
      BY <1>4, <2>1, <2>2 DEF NetworkStep
  <1>5. CASE Time
    BY <1>5 DEF Time, PamStep, LiveStep
  <1>6. CASE UNCHANGED allVars
    BY <1>6 DEF allVars, PamStep, LiveStep
  <1> QED
    BY <1>1, <1>2, <1>3, <1>4, <1>5, <1>6 DEF HostNext

-----------------------------------------------------------------------------
(* The sessions. *)

LEMMA PamFirst == Init => PamInv
  BY PamAssumption DEF Init, PamInv, PamTyped, TimerIsDue, LoneHasItsTimer,
     LoneSessionEndsInTime, LoginsAreFresh, In, States

(* A session that goes on: its state, its time, and those of the others. *)
LEMMA GoesIs ==
    ASSUME PamTyped, NEW s \in Sessions, NEW from, NEW to \in States, Goes(s, from, to)
    PROVE  /\ session' \in [Sessions -> [state : States, since : Nat]]
           /\ session'[s].state = to /\ session[s].state \in from
           /\ to = "login" => session'[s].since = clock
           /\ \A t \in Sessions \ {s} : session'[t] = session[t]
  BY DEF PamTyped, Goes, In

(* What the invariant needs of a step that leaves the clocks alone: no      *)
(* session opens or begins to log in, and a timer is kept or the session it *)
(* ends is not open.                                                       *)
Settles(s) ==
    \/ session'[s] = session[s]
    \/ session[s].state # "before" /\ session'[s].state \in {"recorded", "ending", "over", "gone"}

DropsTimer ==
    /\ timer' = None
    /\ \A s \in Sessions : session'[s].state = "open" =>
           \E u \in Sessions \ {s} : session'[u].state # "before"

StopsTimer == timer' = None /\ timer # None /\ session'[timer.session].state # "open"

Quiet ==
    /\ clock' = clock /\ skew' = skew
    /\ session' \in [Sessions -> [state : States, since : Nat]]
    /\ orphan' \in Nat \cup {None}
    /\ \A s \in Sessions : Settles(s)
    /\ timer' = timer \/ DropsTimer \/ StopsTimer

LEMMA QuietStep ==
    ASSUME PamInv, Quiet
    PROVE  PamInv'
  <1> USE DEF Quiet, Settles, DropsTimer, StopsTimer
  <1>1. PamTyped'
    BY DEF PamInv, PamTyped
  <1>2. TimerIsDue'
    BY DEF PamInv, PamTyped, TimerIsDue, In, Timers
  <1>3. LoneHasItsTimer'
    <2> SUFFICES ASSUME NEW s \in Sessions \ {NoId}, In(s, {"open"})', Lone(s)'
                 PROVE  timer' # None /\ timer'.session = s
      BY DEF LoneHasItsTimer
    <2>1. In(s, {"open"}) /\ Lone(s)
      BY DEF In, Lone
    <2>2. timer # None /\ timer.session = s
      BY <2>1 DEF PamInv, LoneHasItsTimer
    <2> QED
      BY <2>1, <2>2 DEF In, Lone
  <1>4. LoneSessionEndsInTime'
    BY DEF PamInv, LoneSessionEndsInTime, In
  <1>5. LoginsAreFresh'
    BY DEF PamInv, LoginsAreFresh, In
  <1> QED
    BY <1>1, <1>2, <1>3, <1>4, <1>5 DEF PamInv

LEMMA HookSteps ==
    ASSUME PamInv, NEW s \in Sessions, Record(s) \/ Close(s) \/ Vanish(s)
    PROVE  PamInv'
  <1>1. PamTyped
    BY DEF PamInv
  <1>2. CASE Record(s)
    <2>1. /\ session' \in [Sessions -> [state : States, since : Nat]]
          /\ session'[s].state = "recorded" /\ session[s].state \in {"login"}
          /\ \A t \in Sessions \ {s} : session'[t] = session[t]
      BY <1>1, <1>2, GoesIs DEF Record, States
    <2>2. Quiet
      BY <1>1, <1>2, <2>1 DEF Record, Quiet, Settles, PamTyped
    <2> QED
      BY <2>2, QuietStep
  <1>3. CASE Close(s)
    <2>1. /\ session' \in [Sessions -> [state : States, since : Nat]]
          /\ session'[s].state = "over" /\ session[s].state \in {"open", "ending"}
          /\ \A t \in Sessions \ {s} : session'[t] = session[t]
      BY <1>1, <1>3, GoesIs DEF Close, States
    <2>2. timer' = None /\ UNCHANGED <<clock, skew, orphan>>
      BY <1>3 DEF Close
    <2>3. DropsTimer
      BY <2>1, <2>2 DEF DropsTimer
    <2>4. \A t \in Sessions : Settles(t)
      BY <2>1 DEF Settles
    <2>5. Quiet
      BY <1>1, <2>1, <2>2, <2>3, <2>4 DEF Quiet, PamTyped
    <2> QED
      BY <2>5, QuietStep
  <1>4. CASE Vanish(s)
    <2>1. /\ session' \in [Sessions -> [state : States, since : Nat]]
          /\ session'[s].state = "gone" /\ session[s].state # "before"
          /\ \A t \in Sessions \ {s} : session'[t] = session[t]
      BY <1>1, <1>4, GoesIs DEF Vanish, States
    <2>2. Quiet
      BY <1>1, <1>4, <2>1 DEF Vanish, Quiet, Settles, PamTyped
    <2> QED
      BY <2>2, QuietStep
  <1> QED
    BY <1>2, <1>3, <1>4

LEMMA LoginStep ==
    ASSUME PamInv, NEW s \in Sessions, Login(s)
    PROVE  PamInv'
  <1>1. PamTyped
    BY DEF PamInv
  <1>2. /\ session' \in [Sessions -> [state : States, since : Nat]]
        /\ session'[s].state = "login" /\ session[s].state = "before" /\ session'[s].since = clock
        /\ \A t \in Sessions \ {s} : session'[t] = session[t]
    BY <1>1, GoesIs DEF Login, States
  <1>3. UNCHANGED <<clock, skew, timer, orphan>>
    BY DEF Login
  <1>4. PamTyped'
    BY <1>1, <1>2, <1>3 DEF PamTyped
  <1>5. TimerIsDue'
    BY <1>1, <1>2, <1>3 DEF PamInv, PamTyped, TimerIsDue, In, Timers
  <1>6. LoneHasItsTimer'
    BY <1>2, <1>3 DEF PamInv, LoneHasItsTimer, In, Lone
  <1>7. LoneSessionEndsInTime'
    BY <1>2, <1>3 DEF PamInv, LoneSessionEndsInTime, In
  <1>8. clock <= clock + HookTime
    BY <1>1, PamAssumption DEF PamTyped
  <1>9. LoginsAreFresh'
    BY <1>1, <1>2, <1>3, <1>8 DEF PamInv, PamTyped, LoginsAreFresh, In
  <1> QED
    BY <1>4, <1>5, <1>6, <1>7, <1>9 DEF PamInv

LEMMA SetTimerStep ==
    ASSUME PamInv, NEW s \in Sessions, SetTimer(s)
    PROVE  PamInv'
  <1>1. PamTyped /\ session[s].state = "recorded" /\ UNCHANGED <<clock, skew, orphan>>
    BY DEF PamInv, SetTimer, In
  <1>2. CASE wall >= Deadline /\ s # NoId
    <2>1. session' = Terminated(s) /\ timer' = timer
      BY <1>2 DEF SetTimer
    <2>2. /\ session' \in [Sessions -> [state : States, since : Nat]]
          /\ session'[s].state = "ending" /\ \A t \in Sessions \ {s} : session'[t] = session[t]
      BY <1>1, <2>1 DEF Terminated, In, PamTyped, States
    <2>3. Quiet
      BY <1>1, <2>1, <2>2 DEF Quiet, Settles, PamTyped
    <2> QED
      BY <2>3, QuietStep
  <1>3. CASE ~(wall >= Deadline /\ s # NoId)
    <2>1. /\ session' = [session EXCEPT ![s].state = "open"]
          /\ timer' = IF s = NoId THEN timer ELSE Timer(s)
      BY <1>3 DEF SetTimer
    <2>2. /\ session' \in [Sessions -> [state : States, since : Nat]]
          /\ session'[s].state = "open" /\ \A t \in Sessions \ {s} : session'[t] = session[t]
      BY <1>1, <2>1 DEF PamTyped, States
    <2>3. clock + Deadline - wall = Deadline + skew /\ Deadline + skew \in Nat
      BY <1>1, PamAssumption DEF wall, PamTyped
    <2>4. timer' = timer \/ timer' = [session |-> s, due |-> Deadline + skew]
      BY <2>1, <2>3 DEF Timer
    <2>5. timer' \in Timers \cup {None}
      BY <1>1, <2>3, <2>4 DEF PamTyped, Timers
    <2>6. PamTyped'
      BY <1>1, <2>2, <2>5 DEF PamTyped
    <2>7. TimerIsDue'
      <3>1. CASE timer' = timer
        BY <1>1, <2>2, <3>1 DEF PamInv, PamTyped, TimerIsDue, In, Timers
      <3>2. CASE timer' = [session |-> s, due |-> Deadline + skew]
        <4>1. Deadline + skew <= Deadline + skew
          BY <2>3
        <4> QED
          BY <1>1, <2>2, <3>2, <4>1 DEF TimerIsDue, In
      <3> QED
        BY <2>4, <3>1, <3>2
    <2>8. LoneHasItsTimer'
      <3> SUFFICES ASSUME NEW t \in Sessions \ {NoId}, In(t, {"open"})', Lone(t)'
                   PROVE  timer' # None /\ timer'.session = t
        BY DEF LoneHasItsTimer
      <3>1. t = s
        BY <2>2 DEF Lone, In
      <3>2. Lone(s)
        BY <2>2, <3>1 DEF Lone, In
      <3>3. timer' = Timer(s)
        BY <2>1, <3>1
      <3>4. CASE timer = None
        <4>1. timer' = [session |-> s, due |-> clock + Deadline - wall]
          BY <3>3, <3>4 DEF Timer
        <4>2. timer' \in [session : Sessions, due : Nat]
          BY <2>3, <4>1
        <4> QED
          BY <3>1, <4>1, <4>2, PamAssumption
      <3>5. CASE timer # None
        <4>1. timer' = timer /\ timer \in Timers
          BY <1>1, <3>3, <3>5 DEF Timer, PamTyped
        <4>2. timer.session \in Sessions /\ ~In(timer.session, {"before"})
          BY <3>5, <4>1 DEF PamInv, TimerIsDue, Timers
        <4>3. timer.session = s
          BY <3>2, <4>2 DEF Lone
        <4> QED
          BY <3>1, <3>5, <4>1, <4>3
      <3> QED
        BY <3>4, <3>5
    <2>9. LoneSessionEndsInTime'
      <3>1. s # NoId => clock <= Deadline + skew
        BY <1>1, <1>3, PamAssumption DEF wall, PamTyped
      <3> QED
        BY <1>1, <2>2, <3>1 DEF PamInv, LoneSessionEndsInTime, In
    <2>10. LoginsAreFresh'
      BY <1>1, <2>2 DEF PamInv, LoginsAreFresh, In
    <2> QED
      BY <2>6, <2>7, <2>8, <2>9, <2>10 DEF PamInv
  <1> QED
    BY <1>2, <1>3

LEMMA PassStep == PamInv /\ Pass => PamInv'
  <1> SUFFICES ASSUME PamInv, Pass PROVE PamInv'
    OBVIOUS
  <1>1. PamTyped /\ clock' = clock + 1 /\ UNCHANGED <<skew, session, timer, orphan>>
    BY DEF PamInv, Pass
  <1>2. PamTyped'
    <2>1. clock' \in Nat
      BY <1>1 DEF PamTyped
    <2> QED
      BY <1>1, <2>1 DEF PamTyped
  <1>3. TimerIsDue' /\ LoneHasItsTimer'
    BY <1>1 DEF PamInv, TimerIsDue, LoneHasItsTimer, In, Lone
  <1>4. LoneSessionEndsInTime'
    <2> SUFFICES ASSUME NEW s \in Sessions \ {NoId}, In(s, {"open"}), Lone(s)
                 PROVE  clock + 1 <= Deadline + skew
      BY <1>1 DEF LoneSessionEndsInTime, In, Lone
    <2>1. timer # None
      BY DEF PamInv, LoneHasItsTimer
    <2>2. clock < timer.due /\ timer.due <= Deadline + skew /\ timer.due \in Nat
      BY <1>1, <2>1 DEF Pass, PamInv, TimerIsDue, PamTyped, Timers
    <2> QED
      BY <1>1, <2>2, PamAssumption DEF PamTyped
  <1>5. LoginsAreFresh'
    <2> SUFFICES ASSUME NEW s \in Sessions, In(s, {"login"})
                 PROVE  session[s].since <= clock + 1 /\ clock + 1 <= session[s].since + HookTime
      BY <1>1 DEF LoginsAreFresh, In
    <2>1. session[s].since \in Nat /\ session[s].since <= clock /\ clock < session[s].since + HookTime
      BY <1>1 DEF PamInv, PamTyped, LoginsAreFresh, Pass
    <2> QED
      BY <1>1, <2>1, PamAssumption DEF PamTyped
  <1> QED
    BY <1>2, <1>3, <1>4, <1>5 DEF PamInv

LEMMA PamNext == PamInv /\ PamStep => PamInv'
  <1> SUFFICES ASSUME PamInv, PamStep PROVE PamInv'
    OBVIOUS
  <1>1. PamTyped
    BY DEF PamInv
  <1>2. ASSUME NEW s \in Sessions, Login(s) \/ Record(s) \/ SetTimer(s) \/ Close(s) \/ Vanish(s)
        PROVE  PamInv'
    BY <1>2, HookSteps, LoginStep, SetTimerStep
  <1>3. CASE TimerFires
    <2>1. timer # None /\ timer.session \in Sessions
      BY <1>1, <1>3 DEF TimerFires, PamTyped, Timers
    <2>2. PICK s \in Sessions : s = timer.session
      BY <2>1
    <2>3. /\ session' \in [Sessions -> [state : States, since : Nat]]
          /\ \A t \in Sessions : session'[t] = session[t] \/ t = s
          /\ session'[s].state = "ending" \/ session'[s] = session[s]
          /\ session'[s].state # "open"
      BY <1>1, <1>3, <2>2 DEF TimerFires, Terminated, In, PamTyped, States
    <2>4. session[s].state # "before"
      BY <1>1, <2>1, <2>2 DEF PamInv, TimerIsDue, In
    <2>5. \A t \in Sessions : Settles(t)
      BY <2>3, <2>4 DEF Settles
    <2>6. timer' = None /\ UNCHANGED <<clock, skew, orphan>>
      BY <1>3 DEF TimerFires
    <2>7. StopsTimer
      BY <2>1, <2>2, <2>3, <2>6 DEF StopsTimer
    <2>8. Quiet
      BY <1>1, <2>3, <2>5, <2>6, <2>7 DEF Quiet, PamTyped
    <2> QED
      BY <2>8, QuietStep
  <1>4. CASE Ask \/ UNCHANGED <<clock, skew, hostVars>>
    <2>1. UNCHANGED <<clock, skew, session, timer, orphan>>
      BY <1>4 DEF Ask, hostVars
    <2>2. Quiet
      BY <1>1, <2>1 DEF Quiet, Settles, PamTyped
    <2> QED
      BY <2>2, QuietStep
  <1>5. CASE FindRequest \/ FindSessions \/ Served \/ Unclaimed
    <2>1. UNCHANGED <<clock, skew, session, timer>>
      BY <1>5 DEF FindRequest, FindSessions, Served, Unclaimed
    <2>2. orphan' \in Nat \cup {None}
      BY <1>1, <1>5 DEF FindRequest, FindSessions, Served, Unclaimed, PamTyped
    <2>3. Quiet
      BY <1>1, <2>1, <2>2 DEF Quiet, Settles, PamTyped
    <2> QED
      BY <2>3, QuietStep
  <1>6. ASSUME NEW s \in Sessions, EndOne(s) PROVE PamInv'
    <2>1. UNCHANGED <<clock, skew, timer, orphan>> /\ (session' = Terminated(s) \/ session' = session)
      BY <1>6 DEF EndOne
    <2>2. CASE session' = session
      <3>1. Quiet
        BY <1>1, <2>1, <2>2 DEF Quiet, Settles, PamTyped
      <3> QED
        BY <3>1, QuietStep
    <2>3. CASE session' = Terminated(s)
      <3>1. /\ session' \in [Sessions -> [state : States, since : Nat]]
            /\ \A t \in Sessions \ {s} : session'[t] = session[t]
            /\ \/ session'[s] = session[s]
               \/ session[s].state # "before" /\ session'[s].state = "ending"
        BY <1>1, <2>3 DEF Terminated, In, PamTyped, States
      <3>2. Quiet
        BY <1>1, <2>1, <3>1 DEF Quiet, Settles, PamTyped
      <3> QED
        BY <3>2, QuietStep
    <2> QED
      BY <2>1, <2>2, <2>3
  <1>7. CASE SetsBack
    <2>1. skew = 0 /\ skew' = 1 /\ UNCHANGED <<clock, session, timer, orphan>>
      BY <1>7 DEF SetsBack, hostVars
    <2>2. PamTyped'
      BY <1>1, <2>1 DEF PamTyped
    <2>3. LoneHasItsTimer' /\ LoginsAreFresh'
      BY <2>1 DEF PamInv, LoneHasItsTimer, LoginsAreFresh, In, Lone
    <2>4. TimerIsDue'
      BY <1>1, <2>1, PamAssumption DEF PamInv, PamTyped, TimerIsDue, In, Timers
    <2>5. LoneSessionEndsInTime'
      BY <1>1, <2>1, PamAssumption DEF PamInv, PamTyped, LoneSessionEndsInTime, In
    <2> QED
      BY <2>2, <2>3, <2>4, <2>5 DEF PamInv
  <1> QED
    BY <1>2, <1>3, <1>4, <1>5, <1>6, <1>7, PassStep DEF PamStep, ReaperStep

-----------------------------------------------------------------------------
(* The events. *)

LEMMA LiveFirst == Live!Init => LiveInv
  <1> SUFFICES ASSUME Live!Init PROVE LiveInv
    OBVIOUS
  <1> USE DEF Live!Init
  <1>1. LiveTyped
    BY DEF LiveTyped, Live!Resting, Live!Never, Rows, EventSet
  <1>2. EventsAreTrue /\ EventsAreKept /\ FilesInOrder /\ PassIsWhole
    BY DEF EventsAreTrue, EventsAreKept, FilesInOrder, PassIsWhole, Live!Resting
  <1>3. StartsAreKnown /\ EndsFindTheirStart /\ EndsClose
    BY DEF StartsAreKnown, EndsFindTheirStart, EndsClose
  <1>4. Live!RegistryIsTrue
    BY DEF Live!RegistryIsTrue, Live!Never
  <1> QED
    BY <1>1, <1>2, <1>3, <1>4 DEF LiveInv

(* What an event does to the rows, whenever it arrives. *)
Serves(e) ==
    /\ taken' = taken \cup {e}
    /\ rows' \in [Sessions -> Rows]
    /\ \A s \in Sessions :
           /\ rows[s].started # -1 => rows'[s].started # -1
           /\ rows[s].started # -1 /\ rows[s].ended # -1 => rows'[s].ended # -1
           /\ rows'[s].started # -1 => rows[s].started # -1 \/ IsStart(e, s)
           /\ rows'[s].ended # -1 =>
                  rows[s].ended # -1 \/ (e.kind = "end" /\ e.session \in {s, NoId})
    /\ e.kind = "start" => rows'[e.session].started # -1
    /\ e.kind = "end" /\ rows[e.session].started # -1 => rows'[e.session].ended # -1

LEMMA ServeIs ==
    ASSUME LiveTyped, NEW e \in EventSet, Live!Serve(e)
    PROVE  Serves(e)
  <1> DEFINE at == Live!Lower(e.at, clock)
  <1>1. at \in Nat
    BY DEF Live!Lower, LiveTyped, EventSet
  <1>2. /\ taken' = taken \cup {e}
        /\ rows' = [s \in Sessions |->
                       IF ~Live!Covers(e, s) THEN rows[s]
                       ELSE IF e.kind = "start" THEN Live!StartRow(rows[s], at)
                       ELSE Live!EndRow(rows[s], at)]
    BY DEF Live!Serve
  <1> HIDE DEF at
  <1>3. \A row \in Rows :
            /\ Live!StartRow(row, at) \in Rows
            /\ Live!StartRow(row, at).started # -1
            /\ row.started # -1 => Live!StartRow(row, at) = row
            /\ Live!StartRow(row, at).ended # -1 => row.ended # -1
    BY <1>1 DEF Live!StartRow, Live!Never, Rows
  <1>4. \A row \in Rows :
            /\ Live!EndRow(row, at) \in Rows
            /\ Live!EndRow(row, at).started = row.started
            /\ row.started # -1 => Live!EndRow(row, at).ended # -1
            /\ row.ended # -1 => Live!EndRow(row, at) = row
    <2> SUFFICES ASSUME NEW row \in Rows
                 PROVE  /\ Live!EndRow(row, at) \in Rows
                        /\ Live!EndRow(row, at).started = row.started
                        /\ row.started # -1 => Live!EndRow(row, at).ended # -1
                        /\ row.ended # -1 => Live!EndRow(row, at) = row
      OBVIOUS
    <2>1. CASE Live!IsOpen(row)
      <3>1. row.started \in Nat /\ row.ended = -1
        BY <2>1 DEF Live!IsOpen, Live!Never, Rows
      <3>2. Live!Higher(at, row.started) \in Nat
        BY <1>1, <3>1 DEF Live!Higher
      <3>3. Live!EndRow(row, at) = [row EXCEPT !.ended = Live!Higher(at, row.started)]
        BY <2>1 DEF Live!EndRow
      <3> QED
        BY <3>1, <3>2, <3>3 DEF Rows
    <2>2. CASE ~Live!IsOpen(row)
      BY <2>2 DEF Live!EndRow, Live!IsOpen, Live!Never, Rows
    <2> QED
      BY <2>1, <2>2
  <1>5. \A s \in Sessions : rows[s] \in Rows
    BY DEF LiveTyped
  <1>6. e.kind \in {"start", "end"} /\ e.session \in Sessions
    BY DEF EventSet
  <1>7. rows' \in [Sessions -> Rows]
    BY <1>2, <1>3, <1>4, <1>5
  <1>8. \A s \in Sessions :
            /\ ~Live!Covers(e, s) => rows'[s] = rows[s]
            /\ Live!Covers(e, s) /\ e.kind = "start" => rows'[s] = Live!StartRow(rows[s], at)
            /\ Live!Covers(e, s) /\ e.kind = "end" => rows'[s] = Live!EndRow(rows[s], at)
    BY <1>2
  <1>9. \A s \in Sessions : Live!Covers(e, s) <=> e.session = s \/ (e.kind = "end" /\ e.session = NoId)
    BY DEF Live!Covers
  <1> QED
    BY <1>2, <1>3, <1>4, <1>5, <1>6, <1>7, <1>8, <1>9 DEF Serves, IsStart

(* A session begins or ends, and its event is written. *)
LEMMA OpenStep ==
    ASSUME LiveInv, NEW s \in Sessions, Live!OpenSession(s)
    PROVE  LiveInv'
  <1> USE DEF Live!Never
  <1>1. LiveTyped /\ EventsAreTrue /\ EventsAreKept /\ FilesInOrder /\ PassIsWhole
    BY DEF LiveInv
  <1>2. PICK e \in EventSet : e = [kind |-> "start", session |-> s, at |-> clock - skew]
    <2>1. clock - skew \in Nat
      BY <1>1 DEF LiveTyped
    <2> QED
      BY <2>1 DEF EventSet
  <1>3. e.kind = "start" /\ e.session = s /\ e.at <= clock
    BY <1>1, <1>2 DEF LiveTyped
  <1>4. /\ spool' = spool \cup {e}
        /\ UNCHANGED <<clock, skew, expired, pass, late, taken, rows>>
        /\ phase[s].state = "before"
        /\ phase' = [phase EXCEPT ![s] = [state |-> "open", since |-> clock]]
    BY <1>2 DEF Live!OpenSession, Live!Moves, Live!Write, Live!wall
  <1>5. /\ phase' \in [Sessions -> [state : {"before", "open", "over"}, since : Nat]]
        /\ phase'[s].state = "open" /\ phase'[s].since = clock
        /\ \A t \in Sessions \ {s} : phase'[t] = phase[t]
    BY <1>1, <1>4 DEF LiveTyped
  <1>6. LiveTyped'
    BY <1>1, <1>4, <1>5 DEF LiveTyped
  <1>7. \A f \in spool \cup late \cup taken : f.session # s
    BY <1>1, <1>4 DEF EventsAreTrue
  <1>8. EventsAreTrue'
    BY <1>1, <1>3, <1>4, <1>5, <1>7 DEF EventsAreTrue, LiveTyped, EventSet
  <1>9. EventsAreKept'
    BY <1>1, <1>3, <1>4, <1>5 DEF EventsAreKept, IsStart, IsEnd
  <1>10. FilesInOrder'
    BY <1>1, <1>3, <1>4, <1>5, <1>7 DEF FilesInOrder, IsEnd, LiveTyped, EventSet
  <1>11. PassIsWhole'
    BY <1>1, <1>3, <1>4, <1>7 DEF PassIsWhole, IsStart, LiveTyped
  <1>12. (StartsAreKnown /\ EndsFindTheirStart /\ EndsClose)'
    BY <1>4 DEF LiveInv, StartsAreKnown, EndsFindTheirStart, EndsClose, StartExpired
  <1>13. Live!RegistryIsTrue'
    BY <1>4, <1>5 DEF LiveInv, Live!RegistryIsTrue
  <1> QED
    BY <1>6, <1>8, <1>9, <1>10, <1>11, <1>12, <1>13 DEF LiveInv

LEMMA CloseStep ==
    ASSUME LiveInv, NEW s \in Sessions, Live!CloseSession(s)
    PROVE  LiveInv'
  <1> USE DEF Live!Never
  <1>1. LiveTyped /\ EventsAreTrue /\ EventsAreKept /\ FilesInOrder /\ PassIsWhole
    BY DEF LiveInv
  <1>2. PICK e \in EventSet : e = [kind |-> "end", session |-> s, at |-> clock - skew]
    <2>1. clock - skew \in Nat
      BY <1>1 DEF LiveTyped
    <2> QED
      BY <2>1 DEF EventSet
  <1>3. e.kind = "end" /\ e.session = s /\ e.at = clock - skew
    BY <1>2
  <1>4. /\ spool' = spool \cup {e}
        /\ UNCHANGED <<clock, skew, expired, pass, late, taken, rows>>
        /\ phase[s].state = "open" /\ clock > phase[s].since
        /\ phase' = [phase EXCEPT ![s] = [state |-> "over", since |-> 0]]
    BY <1>2 DEF Live!CloseSession, Live!Moves, Live!Write, Live!wall
  <1>5. /\ phase' \in [Sessions -> [state : {"before", "open", "over"}, since : Nat]]
        /\ phase'[s].state = "over"
        /\ \A t \in Sessions \ {s} : phase'[t] = phase[t]
    BY <1>1, <1>4 DEF LiveTyped
  <1>6. LiveTyped'
    BY <1>1, <1>4, <1>5 DEF LiveTyped
  <1>7. \A f \in spool \cup late \cup taken : f.session = s => f.kind # "end"
    BY <1>1, <1>4 DEF EventsAreTrue
  <1>8. EventsAreTrue'
    BY <1>1, <1>3, <1>4, <1>5 DEF EventsAreTrue, LiveTyped, EventSet
  <1>9. EventsAreKept'
    BY <1>1, <1>3, <1>4, <1>5 DEF EventsAreKept, IsStart, IsEnd
  <1>10. FilesInOrder'
    <2> SUFFICES ASSUME NEW f \in spool', f.kind = "start"
                 PROVE  /\ phase'[f.session].state = "open" => f.at <= phase'[f.session].since
                        /\ skew = 0 => \A g \in spool' : IsEnd(g, f.session) => f.at < g.at
      BY <1>4 DEF FilesInOrder
    <2>1. f \in spool /\ f \in EventSet
      BY <1>1, <1>3, <1>4 DEF LiveTyped
    <2>2. /\ phase[f.session].state = "open" => f.at <= phase[f.session].since
          /\ skew = 0 => \A g \in spool : IsEnd(g, f.session) => f.at < g.at
      BY <1>1, <2>1 DEF FilesInOrder
    <2>3. phase'[f.session].state = "open" => f.at <= phase'[f.session].since
      BY <1>5, <2>1, <2>2 DEF EventSet
    <2>4. f.session = s /\ skew = 0 => f.at < e.at
      BY <1>1, <1>3, <1>4, <2>1, <2>2 DEF LiveTyped, EventSet
    <2> QED
      BY <1>3, <1>4, <2>2, <2>3, <2>4 DEF IsEnd
  <1>11. PassIsWhole'
    BY <1>1, <1>3, <1>4 DEF PassIsWhole, IsStart, LiveTyped
  <1>12. (StartsAreKnown /\ EndsFindTheirStart /\ EndsClose)'
    BY <1>4 DEF LiveInv, StartsAreKnown, EndsFindTheirStart, EndsClose, StartExpired
  <1>13. Live!RegistryIsTrue'
    BY <1>4, <1>5 DEF LiveInv, Live!RegistryIsTrue
  <1> QED
    BY <1>6, <1>8, <1>9, <1>10, <1>11, <1>12, <1>13 DEF LiveInv

(* An event arrives that is on its way or in the files: the registry stays  *)
(* true, if an end comes after its start.                                  *)
LEMMA Arrives ==
    ASSUME LiveInv, NEW e \in spool \cup late, Serves(e),
           UNCHANGED <<skew, phase, expired>>, late' \subseteq late,
           skew = 0 /\ e.kind = "end" /\ ~StartExpired(e.session) => rows[e.session].started # -1
    PROVE  /\ (StartsAreKnown /\ EndsFindTheirStart /\ EndsClose)'
           /\ Live!RegistryIsTrue'
  <1> USE DEF Live!Never
  <1>1. LiveTyped /\ e \in EventSet /\ e.session \in Sessions
    BY DEF LiveInv, LiveTyped, EventSet
  <1>2. \A f \in late \cup taken : f \in EventSet /\ f.session \in Sessions
    BY <1>1 DEF LiveTyped, EventSet
  <1>3. StartsAreKnown'
    BY <1>1, <1>2 DEF LiveInv, StartsAreKnown, Serves
  <1>4. EndsFindTheirStart'
    BY <1>1, <1>2 DEF LiveInv, EndsFindTheirStart, StartExpired, Serves
  <1>5. EndsClose'
    BY <1>1, <1>2 DEF LiveInv, EndsClose, EndsFindTheirStart, StartExpired, Serves
  <1>6. Live!RegistryIsTrue'
    <2> SUFFICES ASSUME NEW s \in Sessions
                 PROVE  /\ rows'[s].started # -1 => phase[s].state # "before"
                        /\ rows'[s].ended # -1 =>
                               \E t \in {s, NoId} \cap Sessions : phase[t].state = "over"
      BY DEF Live!RegistryIsTrue
    <2>1. phase[e.session].state # "before" /\ (e.kind = "end" => phase[e.session].state = "over")
      BY DEF LiveInv, EventsAreTrue
    <2>2. rows'[s].started # -1 => rows[s].started # -1 \/ e.session = s
      BY DEF Serves, IsStart
    <2>3. rows'[s].ended # -1 => rows[s].ended # -1 \/ (e.kind = "end" /\ e.session \in {s, NoId})
      BY DEF Serves
    <2> QED
      BY <1>1, <2>1, <2>2, <2>3 DEF LiveInv, Live!RegistryIsTrue
  <1> QED
    BY <1>3, <1>4, <1>5, <1>6

(* The pass sends an end only when the server knows the start. *)
LEMMA StartWasTaken ==
    ASSUME LiveInv, NEW e \in pass.todo, Live!Sendable(e), e.kind = "end",
           skew = 0, ~StartExpired(e.session)
    PROVE  rows[e.session].started # -1
  <1>1. LiveTyped /\ e \in spool /\ e \in EventSet /\ e.session \in Sessions
    BY DEF LiveInv, LiveTyped, EventSet
  <1>2. phase[e.session].state # "before"
    BY <1>1 DEF LiveInv, EventsAreTrue
  <1>3. PICK f \in spool \cup expired \cup taken : IsStart(f, e.session)
    BY <1>1, <1>2 DEF LiveInv, EventsAreKept
  <1>4. f \in EventSet /\ f.kind = "start" /\ f.session = e.session
    BY <1>1, <1>3 DEF LiveTyped, IsStart
  <1>5. CASE f \in taken
    BY <1>4, <1>5 DEF LiveInv, StartsAreKnown, Live!Never
  <1>6. CASE f \in expired
    BY <1>3, <1>6 DEF StartExpired
  <1>7. CASE f \in spool
    <2>1. f \in pass.todo /\ e.at <= f.at
      BY <1>3, <1>7 DEF LiveInv, PassIsWhole, Live!Sendable, Live!IsOldest
    <2>2. f.at < e.at
      BY <1>1, <1>4, <1>7 DEF LiveInv, FilesInOrder, IsEnd
    <2> QED
      BY <1>1, <1>4, <2>1, <2>2 DEF EventSet
  <1> QED
    BY <1>3, <1>5, <1>6, <1>7

LEMMA LateStep ==
    ASSUME LiveInv, NEW e \in late, Live!ServeLate(e)
    PROVE  LiveInv'
  <1>1. LiveTyped /\ e \in EventSet /\ late' = late \ {e}
    BY DEF LiveInv, LiveTyped, Live!ServeLate
  <1>2. Serves(e) /\ UNCHANGED <<clock, skew, phase, spool, expired, pass>>
    BY <1>1, ServeIs DEF Live!ServeLate
  <1>3. skew = 0 /\ e.kind = "end" /\ ~StartExpired(e.session) => rows[e.session].started # -1
    BY DEF LiveInv, EndsFindTheirStart, Live!Never
  <1>4. (StartsAreKnown /\ EndsFindTheirStart /\ EndsClose)' /\ Live!RegistryIsTrue'
    BY <1>1, <1>2, <1>3, Arrives
  <1>5. LiveTyped'
    BY <1>1, <1>2 DEF LiveTyped, Serves
  <1>6. EventsAreTrue'
    BY <1>1, <1>2 DEF LiveInv, EventsAreTrue, Serves
  <1>7. EventsAreKept'
    BY <1>2 DEF LiveInv, EventsAreKept, Serves
  <1>8. FilesInOrder' /\ PassIsWhole'
    BY <1>2 DEF LiveInv, FilesInOrder, PassIsWhole
  <1> QED
    BY <1>4, <1>5, <1>6, <1>7, <1>8 DEF LiveInv

(* An event goes from the files of the pass; a session may be held back. *)
LEMMA PassGoesOn ==
    ASSUME LiveInv, NEW e \in pass.todo, NEW back \in SUBSET Sessions,
           pass' = [pass EXCEPT !.todo = @ \ {e}, !.blocked = @ \cup back],
           spool' = spool \/ spool' = spool \ {e},
           spool' = spool => e.session \in pass.blocked \cup back,
           UNCHANGED <<clock, skew, phase>>
    PROVE  /\ pass' \in [on : BOOLEAN, todo : SUBSET spool', blocked : SUBSET Sessions]
           /\ FilesInOrder' /\ PassIsWhole'
  <1>1. LiveTyped
    BY DEF LiveInv
  <1>2. /\ pass' \in [on : BOOLEAN, todo : SUBSET spool, blocked : SUBSET Sessions]
        /\ pass'.todo = pass.todo \ {e} /\ pass'.blocked = pass.blocked \cup back
    BY <1>1 DEF LiveTyped
  <1>3. pass' \in [on : BOOLEAN, todo : SUBSET spool', blocked : SUBSET Sessions]
    BY <1>2
  <1>4. FilesInOrder'
    BY DEF LiveInv, FilesInOrder
  <1>5. PassIsWhole'
    BY <1>2 DEF LiveInv, PassIsWhole, IsStart
  <1> QED
    BY <1>3, <1>4, <1>5

LEMMA SkipStep ==
    ASSUME LiveInv, NEW e \in pass.todo, Live!Skip(e)
    PROVE  LiveInv'
  <1>1. LiveTyped /\ UNCHANGED <<clock, skew, phase, spool, expired, late, taken, rows>>
    BY DEF LiveInv, Live!Skip
  <1>2. PICK back \in SUBSET Sessions :
            pass' = [pass EXCEPT !.todo = @ \ {e}, !.blocked = @ \cup back]
    <2>1. [pass EXCEPT !.todo = @ \ {e}] = [pass EXCEPT !.todo = @ \ {e}, !.blocked = @ \cup {}]
      BY <1>1 DEF LiveTyped
    <2> QED
      BY <2>1 DEF Live!Skip
  <1>3. /\ pass' \in [on : BOOLEAN, todo : SUBSET spool', blocked : SUBSET Sessions]
        /\ FilesInOrder' /\ PassIsWhole'
    BY <1>1, <1>2, PassGoesOn DEF Live!Skip
  <1>4. LiveTyped'
    BY <1>1, <1>3 DEF LiveTyped
  <1>5. (EventsAreTrue /\ EventsAreKept)'
    BY <1>1 DEF LiveInv, EventsAreTrue, EventsAreKept
  <1>6. (StartsAreKnown /\ EndsFindTheirStart /\ EndsClose)' /\ Live!RegistryIsTrue'
    BY <1>1 DEF LiveInv, StartsAreKnown, EndsFindTheirStart, EndsClose, StartExpired, Live!RegistryIsTrue
  <1> QED
    BY <1>3, <1>4, <1>5, <1>6 DEF LiveInv

LEMMA SendStep ==
    ASSUME LiveInv, NEW e \in pass.todo, Live!SendAccepted(e)
    PROVE  LiveInv'
  <1>1. /\ LiveTyped /\ e \in spool /\ e \in EventSet
        /\ UNCHANGED <<clock, skew, phase, expired, late>> /\ spool' = spool \ {e}
    BY DEF LiveInv, LiveTyped, Live!SendAccepted
  <1>2. PICK back \in SUBSET Sessions :
            pass' = [pass EXCEPT !.todo = @ \ {e}, !.blocked = @ \cup back]
    <2>1. [pass EXCEPT !.todo = @ \ {e}] = [pass EXCEPT !.todo = @ \ {e}, !.blocked = @ \cup {}]
      BY <1>1 DEF LiveTyped
    <2> QED
      BY <2>1 DEF Live!SendAccepted
  <1>3. /\ pass' \in [on : BOOLEAN, todo : SUBSET spool', blocked : SUBSET Sessions]
        /\ FilesInOrder' /\ PassIsWhole'
    BY <1>1, <1>2, PassGoesOn
  <1>4. Serves(e)
    BY <1>1, ServeIs DEF Live!SendAccepted
  <1>5. skew = 0 /\ e.kind = "end" /\ ~StartExpired(e.session) => rows[e.session].started # -1
    BY StartWasTaken DEF Live!SendAccepted
  <1>6. (StartsAreKnown /\ EndsFindTheirStart /\ EndsClose)' /\ Live!RegistryIsTrue'
    BY <1>1, <1>4, <1>5, Arrives
  <1>7. LiveTyped'
    BY <1>1, <1>3, <1>4 DEF LiveTyped, Serves
  <1>8. EventsAreTrue'
    BY <1>1, <1>4 DEF LiveInv, EventsAreTrue, Serves
  <1>9. EventsAreKept'
    BY <1>1, <1>4 DEF LiveInv, EventsAreKept, Serves
  <1> QED
    BY <1>3, <1>6, <1>7, <1>8, <1>9 DEF LiveInv

LEMMA FailStep ==
    ASSUME LiveInv, NEW e \in pass.todo, Live!SendFails(e)
    PROVE  LiveInv'
  <1>1. /\ LiveTyped /\ e \in spool /\ e \in EventSet /\ e.session \in Sessions
        /\ UNCHANGED <<clock, skew, phase, spool, expired>>
    BY DEF LiveInv, LiveTyped, EventSet, Live!SendFails, Live!FilesAfterFailure
  <1>2. pass' = [pass EXCEPT !.todo = @ \ {e}, !.blocked = @ \cup {e.session}]
    BY DEF Live!SendFails, Live!Block
  <1>3. /\ pass' \in [on : BOOLEAN, todo : SUBSET spool', blocked : SUBSET Sessions]
        /\ FilesInOrder' /\ PassIsWhole'
    BY <1>1, <1>2, PassGoesOn, ZenonT(60)
  <1>4. skew = 0 /\ e.kind = "end" /\ ~StartExpired(e.session) => rows[e.session].started # -1
    BY StartWasTaken DEF Live!SendFails
  <1>5. CASE UNCHANGED <<late, taken, rows>>
    <2>1. LiveTyped'
      BY <1>1, <1>3, <1>5 DEF LiveTyped
    <2>2. (EventsAreTrue /\ EventsAreKept)'
      BY <1>1, <1>5 DEF LiveInv, EventsAreTrue, EventsAreKept
    <2>3. (StartsAreKnown /\ EndsFindTheirStart /\ EndsClose)' /\ Live!RegistryIsTrue'
      BY <1>1, <1>5 DEF LiveInv, StartsAreKnown, EndsFindTheirStart, EndsClose, StartExpired,
                        Live!RegistryIsTrue
    <2> QED
      BY <1>3, <2>1, <2>2, <2>3 DEF LiveInv
  <1>6. CASE Live!Serve(e) /\ UNCHANGED late
    <2>1. Serves(e)
      BY <1>1, <1>6, ServeIs
    <2>2. (StartsAreKnown /\ EndsFindTheirStart /\ EndsClose)' /\ Live!RegistryIsTrue'
      BY <1>1, <1>4, <1>6, <2>1, Arrives
    <2>3. LiveTyped'
      BY <1>1, <1>3, <1>6, <2>1 DEF LiveTyped, Serves
    <2>4. EventsAreTrue'
      BY <1>1, <1>6, <2>1 DEF LiveInv, EventsAreTrue, Serves
    <2>5. EventsAreKept'
      BY <1>1, <2>1 DEF LiveInv, EventsAreKept, Serves
    <2> QED
      BY <1>3, <2>2, <2>3, <2>4, <2>5 DEF LiveInv
  <1>7. CASE late' = late \cup {e} /\ UNCHANGED <<taken, rows>>
    <2>1. LiveTyped'
      BY <1>1, <1>3, <1>7 DEF LiveTyped
    <2>2. (EventsAreTrue /\ EventsAreKept)'
      BY <1>1, <1>7 DEF LiveInv, EventsAreTrue, EventsAreKept
    <2>3. (StartsAreKnown /\ EndsClose)' /\ Live!RegistryIsTrue'
      BY <1>1, <1>7 DEF LiveInv, StartsAreKnown, EndsClose, StartExpired, Live!RegistryIsTrue
    <2>4. EndsFindTheirStart'
      BY <1>1, <1>4, <1>7 DEF LiveInv, EndsFindTheirStart, StartExpired, Live!Never
    <2> QED
      BY <1>3, <2>1, <2>2, <2>3, <2>4 DEF LiveInv
  <1> QED
    BY <1>5, <1>6, <1>7 DEF Live!SendFails

(* A pass begins with all the files, and ends with those that are not old. *)
LEMMA ReadStep == LiveInv /\ Live!ReadSpool => LiveInv'
  <1> SUFFICES ASSUME LiveInv, Live!ReadSpool PROVE LiveInv'
    OBVIOUS
  <1>1. /\ LiveTyped /\ UNCHANGED <<clock, skew, phase, spool, expired, late, taken, rows>>
        /\ pass' = [on |-> TRUE, todo |-> spool, blocked |-> {}]
    BY DEF LiveInv, Live!ReadSpool
  <1>2. LiveTyped'
    BY <1>1 DEF LiveTyped
  <1>3. (EventsAreTrue /\ EventsAreKept /\ FilesInOrder /\ PassIsWhole)'
    BY <1>1 DEF LiveInv, EventsAreTrue, EventsAreKept, FilesInOrder, PassIsWhole
  <1>4. (StartsAreKnown /\ EndsFindTheirStart /\ EndsClose)' /\ Live!RegistryIsTrue'
    BY <1>1 DEF LiveInv, StartsAreKnown, EndsFindTheirStart, EndsClose, StartExpired, Live!RegistryIsTrue
  <1> QED
    BY <1>2, <1>3, <1>4 DEF LiveInv

LEMMA EndPassStep == LiveInv /\ Live!EndPass => LiveInv'
  <1> SUFFICES ASSUME LiveInv, Live!EndPass PROVE LiveInv'
    OBVIOUS
  <1>1. /\ LiveTyped /\ UNCHANGED <<clock, skew, phase, late, taken, rows>>
        /\ pass' = [on |-> FALSE, todo |-> {}, blocked |-> {}]
    BY DEF LiveInv, Live!EndPass, Live!Resting
  <1>2. PICK old \in SUBSET spool : spool' = spool \ old /\ expired' = expired \cup old
    <2>1. /\ spool' = {e \in spool : ~Live!TooOld(e)}
          /\ expired' = expired \cup {e \in spool : Live!TooOld(e)}
      BY DEF Live!EndPass
    <2>2. {e \in spool : ~Live!TooOld(e)} = spool \ {e \in spool : Live!TooOld(e)}
      OBVIOUS
    <2> QED
      BY <2>1, <2>2
  <1>3. LiveTyped'
    BY <1>1, <1>2 DEF LiveTyped
  <1>4. (EventsAreTrue /\ EventsAreKept /\ FilesInOrder /\ PassIsWhole)'
    BY <1>1, <1>2 DEF LiveInv, EventsAreTrue, EventsAreKept, FilesInOrder, PassIsWhole
  <1>5. StartsAreKnown' /\ Live!RegistryIsTrue'
    BY <1>1 DEF LiveInv, StartsAreKnown, Live!RegistryIsTrue
  <1>6. (EndsFindTheirStart /\ EndsClose)'
    BY <1>1, <1>2 DEF LiveInv, EndsFindTheirStart, EndsClose, StartExpired
  <1> QED
    BY <1>3, <1>4, <1>5, <1>6 DEF LiveInv

(* The clocks. *)
LEMMA ClockStep == LiveInv /\ (Live!Tick \/ Live!SetBack \/ UNCHANGED <<clock, skew, liveVars>>) => LiveInv'
  <1> SUFFICES ASSUME LiveInv, Live!Tick \/ Live!SetBack \/ UNCHANGED <<clock, skew, liveVars>>
               PROVE  LiveInv'
    OBVIOUS
  <1>1. /\ LiveTyped /\ UNCHANGED <<phase, spool, expired, pass, late, taken, rows>>
        /\ skew' = 0 => skew = 0
    BY DEF LiveInv, Live!Tick, Live!SetBack, liveVars
  <1>2. clock' = clock \/ clock' = clock + 1
    BY DEF Live!Tick, Live!SetBack
  <1>3. clock' \in Nat /\ (clock > 0 => clock' > 0)
    BY <1>1, <1>2 DEF LiveTyped
  <1>4. skew' \in {0, 1} /\ (skew' = 1 => clock' > 0)
    BY <1>1, <1>3 DEF LiveTyped, Live!Tick, Live!SetBack
  <1>5. LiveTyped'
    BY <1>1, <1>3, <1>4 DEF LiveTyped
  <1>6. (EventsAreTrue /\ EventsAreKept /\ PassIsWhole /\ StartsAreKnown)' /\ Live!RegistryIsTrue'
    BY <1>1 DEF LiveInv, EventsAreTrue, EventsAreKept, PassIsWhole, StartsAreKnown, Live!RegistryIsTrue
  <1>7. FilesInOrder'
    BY <1>1 DEF LiveInv, FilesInOrder
  <1>8. (EndsFindTheirStart /\ EndsClose)'
    BY <1>1 DEF LiveInv, EndsFindTheirStart, EndsClose, StartExpired
  <1> QED
    BY <1>5, <1>6, <1>7, <1>8 DEF LiveInv

LEMMA LiveNext == LiveInv /\ LiveStep => LiveInv'
  BY OpenStep, CloseStep, LateStep, SkipStep, SendStep, FailStep, ReadStep, EndPassStep, ClockStep
     DEF LiveStep, Live!ForwardStep

-----------------------------------------------------------------------------
LEMMA HostFirst == HostInit => HostInv
  BY PamFirst, LiveFirst DEF HostInit, HostInv

LEMMA HostSteps == HostInv /\ [HostNext]_allVars => HostInv'
  BY Halves, PamNext, LiveNext DEF HostInv

LEMMA Inductive == HostSpec => []HostInv
  BY HostFirst, HostSteps, PTL DEF HostSpec

(* The only session of its connection does not run on after the deadline,   *)
(* as the clock of the host has it: whatever requests there are, whether    *)
(* loginctl works or not, and however late the hook sets the timer.         *)
THEOREM TheTimerEndsTheSession == HostSpec => []LoneSessionEndsInTime
  <1>1. HostInv => LoneSessionEndsInTime
    BY DEF HostInv, PamInv
  <1> QED
    BY Inductive, <1>1, PTL

(* What the server lists is what the hosts have, as far as the events got   *)
(* through: no session before it started or closed while it runs, none open *)
(* whose end got through, and nothing missing once all files are gone.      *)
THEOREM TheRegistryIsRight == HostSpec => []RegistryFollowsTheHost
  <1>1. HostInv => RegistryFollowsTheHost
    <2> SUFFICES ASSUME LiveInv PROVE RegistryFollowsTheHost
      BY DEF HostInv
    <2>1. Live!EndClosesTheSession
      BY DEF LiveInv, EndsClose, StartExpired, IsStart, Live!EndClosesTheSession, Live!IsOpen
    <2>2. Live!SettledRegistryIsRight
      <3> SUFFICES ASSUME spool = {}, late = {}, expired = {}, skew = 0,
                          NEW s \in Sessions, phase[s].state # "before"
                   PROVE  /\ rows[s].started # Live!Never
                          /\ phase[s].state = "over" => ~Live!IsOpen(rows[s])
        BY DEF Live!SettledRegistryIsRight
      <3>1. \E e \in taken : IsStart(e, s)
        BY DEF LiveInv, EventsAreKept
      <3>2. rows[s].started # Live!Never
        BY <3>1 DEF LiveInv, StartsAreKnown, IsStart
      <3>3. ASSUME phase[s].state = "over" PROVE ~Live!IsOpen(rows[s])
        <4>1. PICK e \in taken : IsEnd(e, s)
          BY <3>3 DEF LiveInv, EventsAreKept
        <4> QED
          BY <2>1, <4>1 DEF IsEnd, Live!EndClosesTheSession
      <3> QED
        BY <3>2, <3>3
    <2> QED
      BY <2>1, <2>2 DEF LiveInv, RegistryFollowsTheHost
  <1> QED
    BY Inductive, <1>1, PTL

(* A request is given up only when no session was starting as the reaper    *)
(* first looked: the hook writes its record sooner than a request expires.  *)
THEOREM RequestsWaitForTheHook ==
    ASSUME HookTime < KillTTL
    PROVE  HostSpec => GivenUpOnlyForNobody
  <1> DEFINE Given == tick.step = "reading" /\ request /\ ~request' =>
                 \A s \in Sessions \ {NoId} :
                     In(s, {"login"}) => orphan # None /\ session[s].since > orphan
  <1>1. HostInv /\ [HostNext]_allVars => [Given]_vars
    <2> SUFFICES ASSUME HostInv, PamStep, tick.step = "reading", request, ~request',
                        NEW s \in Sessions \ {NoId}, In(s, {"login"})
                 PROVE  orphan # None /\ session[s].since > orphan
      BY Halves
    <2>1. Unclaimed
      BY DEF PamStep, Login, Record, SetTimer, Close, Vanish, TimerFires, Ask, ReaperStep,
             FindRequest, FindSessions, EndOne, Served, Pass, SetsBack, hostVars
    <2>2. orphan # None /\ clock - orphan >= KillTTL
      BY <2>1 DEF Unclaimed, Expired
    <2>3. PamTyped /\ session[s].since <= clock /\ clock <= session[s].since + HookTime
      BY DEF HostInv, PamInv, LoginsAreFresh
    <2>4. orphan \in Nat /\ session[s].since \in Nat /\ clock \in Nat
      BY <2>2, <2>3 DEF PamTyped
    <2> QED
      BY <2>2, <2>3, <2>4, PamAssumption
  <1> QED
    BY Inductive, HostSteps, <1>1, PTL DEF HostSpec, GivenUpOnlyForNobody

-----------------------------------------------------------------------------
(* The installation of a host. *)

(* What pf may have on the disk of a machine. *)
Known ==
    {"state", "config", "dropin", "bastion", "certs", "ca"}
        \cup (IF system = "linux"
              THEN {"logs", "refresh_unit", "bastion_unit", "reaper_unit", "dispatcher"} ELSE {})
        \cup (IF system = "macos" THEN {"logs", "deadlines", "requests"} ELSE {})
        \cup (IF system = "windows" THEN {"deadlines", "requests", "marker", "xml", "backup"} ELSE {})

AllJobs == {"refresh", "bastion", "reaper"}

OnSystem == system \in {"linux", "macos", "windows"}

(* Where the steps are that others rely on. *)
At(linux, macos, windows) ==
    IF system = "linux" THEN linux ELSE IF system = "macos" THEN macos ELSE windows

KeyAt == At(3, 4, 6)
ConfigAt == At(4, 5, 7)
AcceptAt == At(5, 9, 9)
RefreshAt == At(6, 10, 10)
DropinAt == At(7, 11, 11)
BastionAt == At(9, 7, 8)

StopsBastionAt == At(3, 2, 2)
StripAt == At(8, 0, 4)
DropsDropinAt == At(9, 4, 6)
DeletesAccountAt == At(14, 10, 9)

Commands == [name : {"none", "init", "uninit"}, at : Nat, read : SUBSET Lines]

MachineTyped ==
    /\ OnSystem
    /\ disk \subseteq Known /\ jobs \subseteq AllJobs /\ lines \subseteq Lines
    /\ key \in Nat /\ registered \in Nat
    /\ account \in {"none", "half", "ours", "foreign"}

CommandTyped ==
    /\ cmd \in Commands
    /\ cmd.name = "none" => cmd = NoCommand
    /\ cmd.name # "none" => cmd.at \in 1 .. Len(Steps(cmd.name))
    /\ cmd.name = "init" => due \subseteq cmd.read

(* The jobs are there with the configuration that they belong to.           *)
MachineIsSafe ==
    /\ InstallIsSafe
    /\ jobs \cap {"refresh", "bastion"} # {} => "dropin" \in disk
    /\ system = "macos" => ~block
    /\ system = "windows" /\ account = "ours" => "marker" \in disk

(* Before step k of init. *)
InitSoFar(k) ==
    /\ k > KeyAt => key > 0
    /\ k > ConfigAt => "config" \in disk
    /\ k > RefreshAt => key = registered /\ {"certs", "ca"} \subseteq disk
    /\ k > BastionAt => "bastion" \in disk
    /\ k > DropinAt <=> "dropin" \in disk

(* What a refresh that began under uninit writes. *)
RacedFiles == IF raced THEN {"certs", "ca"} ELSE {}

(* Before step k of uninit: what the steps before it took is gone.          *)
UninitSoFar(k) ==
    /\ \A j \in 1 .. k - 1 :
          LET item == Steps("uninit")[j] IN
          /\ item[1] = "drop" => disk \cap item[2] \subseteq RacedFiles
          /\ item[1] = "stop" => jobs \cap item[2] = {}
    /\ k > StripAt => ~block
    /\ k > DeletesAccountAt => account # "ours"
    /\ k > 1 /\ refresher # "idle" => raced

Progress ==
    /\ cmd.name = "init" => InitSoFar(cmd.at)
    /\ cmd.name = "uninit" => UninitSoFar(cmd.at)
    /\ last = "uninit" /\ cmd = NoCommand => UninitMakesRoom /\ (refresher # "idle" => raced)

InstallInv == MachineTyped /\ CommandTyped /\ MachineIsSafe /\ Progress

-----------------------------------------------------------------------------
(* What step k of init is, and what goes before it. *)
LEMMA InitList ==
    ASSUME OnSystem, NEW k \in 1 .. Len(Steps("init"))
    PROVE  LET list == Steps("init")
               verb == list[k][1]
               arg == list[k][2]
           IN  /\ verb \in {"put", "key", "accept", "refresh", "account", "block", "start", "load",
                            "drop", "marker", "include"}
               /\ verb = "put" => arg \subseteq Known /\ (list[k] = Put("dropin") \/ "dropin" \notin arg)
               /\ verb = "drop" => k = Len(list) /\ arg = {"xml"}
               /\ verb = "start" => arg \subseteq AllJobs
               /\ verb = "start" => k > RefreshAt /\ k > DropinAt /\ k > ConfigAt /\ k > BastionAt /\ k > KeyAt
               /\ list[k] = Put("dropin") <=> k = DropinAt
               /\ verb = "key" <=> k = KeyAt
               /\ verb = "accept" <=> k = AcceptAt
               /\ verb = "refresh" <=> k = RefreshAt
               /\ k = ConfigAt => list[k] = Put("config")
               /\ k = BastionAt => list[k] = Put("bastion")
               /\ verb \in {"marker", "include"} => system = "windows"
               /\ verb = "block" => system = "linux"
  <1>1. CASE system = "linux"
    <2>1. k = 1 \/ k = 2 \/ k = 3 \/ k = 4 \/ k = 5 \/ k = 6 \/ k = 7 \/ k = 8 \/ k = 9 \/ k = 10
          \/ k = 11 \/ k = 12 \/ k = 13 \/ k = 14 \/ k = 15 \/ k = 16 \/ k = 17 \/ k = 18
      BY <1>1 DEF Steps, LinuxInit
    <2> QED BY <1>1, <2>1 DEF Steps, LinuxInit, Put, Drop, Do, Start, Stop, Known, AllJobs,
                               At, KeyAt, ConfigAt, AcceptAt, RefreshAt, DropinAt, BastionAt
  <1>2. CASE system = "macos"
    <2>1. k = 1 \/ k = 2 \/ k = 3 \/ k = 4 \/ k = 5 \/ k = 6 \/ k = 7 \/ k = 8 \/ k = 9
          \/ k = 10 \/ k = 11 \/ k = 12 \/ k = 13 \/ k = 14
      BY <1>2 DEF Steps, MacInit
    <2> QED BY <1>2, <2>1 DEF Steps, MacInit, Put, Drop, Do, Start, Stop, Known, AllJobs,
                               At, KeyAt, ConfigAt, AcceptAt, RefreshAt, DropinAt, BastionAt
  <1>3. CASE system = "windows"
    <2>1. k = 1 \/ k = 2 \/ k = 3 \/ k = 4 \/ k = 5 \/ k = 6 \/ k = 7 \/ k = 8 \/ k = 9 \/ k = 10
          \/ k = 11 \/ k = 12 \/ k = 13 \/ k = 14 \/ k = 15 \/ k = 16 \/ k = 17
      BY <1>3 DEF Steps, WindowsInit
    <2> QED BY <1>3, <2>1 DEF Steps, WindowsInit, Put, Drop, Do, Start, Stop, Known, AllJobs,
                               At, KeyAt, ConfigAt, AcceptAt, RefreshAt, DropinAt, BastionAt
  <1> QED BY <1>1, <1>2, <1>3 DEF OnSystem

(* What step k of uninit is. *)
LEMMA UninitList ==
    ASSUME OnSystem, NEW k \in 1 .. Len(Steps("uninit"))
    PROVE  LET list == Steps("uninit")
               verb == list[k][1]
               arg == list[k][2]
           IN  /\ verb \in {"stop", "drop", "strip", "restart", "delete_account", "load"}
               /\ verb = "stop" => arg \subseteq AllJobs
               /\ k = 1 => list[k] = Stop("refresh")
               /\ verb = "stop" /\ "refresh" \in arg => k = 1
               /\ verb = "load" => k = Len(list)
  <1>1. CASE system = "linux"
    <2>1. k = 1 \/ k = 2 \/ k = 3 \/ k = 4 \/ k = 5 \/ k = 6 \/ k = 7 \/ k = 8 \/ k = 9 \/ k = 10
          \/ k = 11 \/ k = 12 \/ k = 13 \/ k = 14 \/ k = 15
      BY <1>1 DEF Steps, LinuxUninit
    <2> QED BY <1>1, <2>1 DEF Steps, LinuxUninit, Put, Drop, Do, Start, Stop, InState, Known, AllJobs, At,
                             StopsBastionAt, DropsDropinAt, DeletesAccountAt, StripAt
  <1>2. CASE system = "macos"
    <2>1. k = 1 \/ k = 2 \/ k = 3 \/ k = 4 \/ k = 5 \/ k = 6 \/ k = 7 \/ k = 8 \/ k = 9
          \/ k = 10 \/ k = 11
      BY <1>2 DEF Steps, MacUninit
    <2> QED BY <1>2, <2>1 DEF Steps, MacUninit, Put, Drop, Do, Start, Stop, InState, Known, AllJobs, At,
                             StopsBastionAt, DropsDropinAt, DeletesAccountAt, StripAt
  <1>3. CASE system = "windows"
    <2>1. k = 1 \/ k = 2 \/ k = 3 \/ k = 4 \/ k = 5 \/ k = 6 \/ k = 7 \/ k = 8 \/ k = 9 \/ k = 10
          \/ k = 11 \/ k = 12 \/ k = 13
      BY <1>3 DEF Steps, WindowsUninit
    <2> QED BY <1>3, <2>1 DEF Steps, WindowsUninit, Put, Drop, Do, Start, Stop, InState, Known, AllJobs, At,
                             StopsBastionAt, DropsDropinAt, DeletesAccountAt, StripAt
  <1> QED BY <1>1, <1>2, <1>3 DEF OnSystem

(* What goes before step k of uninit. *)
LEMMA UninitOrder ==
    ASSUME OnSystem, NEW k \in 1 .. Len(Steps("uninit"))
    PROVE  LET list == Steps("uninit")
               verb == list[k][1]
               arg == list[k][2]
           IN  /\ verb = "drop" /\ arg \cap {"state", "config", "bastion", "dropin"} # {} => k > StopsBastionAt
               /\ verb = "drop" /\ arg \cap {"certs", "ca"} # {} => k > DropsDropinAt
               /\ system = "windows" /\ verb = "drop" /\ "marker" \in arg => k > DeletesAccountAt
               /\ verb = "strip" <=> k = StripAt
               /\ verb = "delete_account" <=> k = DeletesAccountAt
               /\ k = StopsBastionAt => list[k] = Stop("bastion")
               /\ k = DropsDropinAt => list[k] = Drop("dropin")
  <1>1. CASE system = "linux"
    <2>1. k = 1 \/ k = 2 \/ k = 3 \/ k = 4 \/ k = 5 \/ k = 6 \/ k = 7 \/ k = 8 \/ k = 9 \/ k = 10
          \/ k = 11 \/ k = 12 \/ k = 13 \/ k = 14 \/ k = 15
      BY <1>1 DEF Steps, LinuxUninit
    <2> QED BY <1>1, <2>1 DEF Steps, LinuxUninit, Put, Drop, Do, Start, Stop, InState, Known, AllJobs, At,
                             StopsBastionAt, DropsDropinAt, DeletesAccountAt, StripAt
  <1>2. CASE system = "macos"
    <2>1. k = 1 \/ k = 2 \/ k = 3 \/ k = 4 \/ k = 5 \/ k = 6 \/ k = 7 \/ k = 8 \/ k = 9
          \/ k = 10 \/ k = 11
      BY <1>2 DEF Steps, MacUninit
    <2> QED BY <1>2, <2>1 DEF Steps, MacUninit, Put, Drop, Do, Start, Stop, InState, Known, AllJobs, At,
                             StopsBastionAt, DropsDropinAt, DeletesAccountAt, StripAt
  <1>3. CASE system = "windows"
    <2>1. k = 1 \/ k = 2 \/ k = 3 \/ k = 4 \/ k = 5 \/ k = 6 \/ k = 7 \/ k = 8 \/ k = 9 \/ k = 10
          \/ k = 11 \/ k = 12 \/ k = 13
      BY <1>3 DEF Steps, WindowsUninit
    <2> QED BY <1>3, <2>1 DEF Steps, WindowsUninit, Put, Drop, Do, Start, Stop, InState, Known, AllJobs, At,
                             StopsBastionAt, DropsDropinAt, DeletesAccountAt, StripAt
  <1> QED BY <1>1, <1>2, <1>3 DEF OnSystem

Fits(n) == n \in Nat /\ n > 1 /\ n > DeletesAccountAt /\ n > StripAt /\ n > DropsDropinAt

Takes(verb, x) ==
    \E j \in 1 .. Len(Steps("uninit")) : Steps("uninit")[j][1] = verb /\ x \in Steps("uninit")[j][2]

(* sshd is restarted right after its block is taken out, on Windows. *)
LEMMA StripIsFollowed ==
    ASSUME system = "windows", StripAt \in 1 .. Len(Steps("uninit"))
    PROVE  StripAt + 2 <= Len(Steps("uninit")) /\ Steps("uninit")[StripAt + 1] = Do("restart")
  BY DEF Steps, WindowsUninit, Do, At, StripAt

(* Uninit takes all that pf may have left. *)
LEMMA UninitTakesAll ==
    ASSUME OnSystem
    PROVE  LET list == Steps("uninit")
           IN  /\ Fits(Len(list))
               /\ \A x \in AllJobs : Takes("stop", x)
               /\ \A x \in Known :
                     x = "logs" \/ (x = "backup" /\ system = "windows") \/ Takes("drop", x)
               /\ system = "linux" => list[Len(list)] = Do("load")
  <1> DEFINE list == Steps("uninit")
  <1>1. CASE system = "linux"
    <2>1. list = LinuxUninit /\ Len(list) = 15
      BY <1>1 DEF Steps, LinuxUninit
    <2>2. \A x : \A j \in 1 .. 15 : x \in list[j][2] => Takes(list[j][1], x)
      BY <2>1 DEF Takes
    <2>3. \A x \in AllJobs : Takes("stop", x)
      BY <2>1, <2>2 DEF LinuxUninit, Drop, Do, Stop, AllJobs
    <2>4. \A x \in Known : x = "logs" \/ (x = "backup" /\ system = "windows") \/ Takes("drop", x)
      BY <1>1, <2>1, <2>2 DEF LinuxUninit, Drop, Do, Stop, InState, Known
    <2>5. 15 > DeletesAccountAt /\ 15 > StripAt /\ 15 > DropsDropinAt
      BY <1>1 DEF At, StripAt, DropsDropinAt, DeletesAccountAt
    <2>6. system = "linux" => LinuxUninit[15] = Do("load")
      BY <1>1 DEF LinuxUninit, Do
    <2>7. Fits(Len(list))
      <3> HIDE DEF list
      <3>1. Len(list) \in Nat /\ Len(list) > 1
        BY <2>1
      <3> QED BY <2>1, <2>5, <3>1 DEF Fits
    <2>8. system = "linux" => list[Len(list)] = Do("load")
      BY <2>1, <2>6
    <2> QED BY <2>3, <2>4, <2>7, <2>8
  <1>2. CASE system = "macos"
    <2>1. list = MacUninit /\ Len(list) = 11
      BY <1>2 DEF Steps, MacUninit
    <2>2. \A x : \A j \in 1 .. 11 : x \in list[j][2] => Takes(list[j][1], x)
      BY <2>1 DEF Takes
    <2>3. \A x \in AllJobs : Takes("stop", x)
      BY <2>1, <2>2 DEF MacUninit, Drop, Do, Stop, AllJobs
    <2>4. \A x \in Known : x = "logs" \/ (x = "backup" /\ system = "windows") \/ Takes("drop", x)
      BY <1>2, <2>1, <2>2 DEF MacUninit, Drop, Do, Stop, InState, Known
    <2>5. 11 > DeletesAccountAt /\ 11 > StripAt /\ 11 > DropsDropinAt
      BY <1>2 DEF At, StripAt, DropsDropinAt, DeletesAccountAt
    <2>6. system = "linux" => MacUninit[11] = Do("load")
      BY <1>2 DEF MacUninit, Do
    <2>7. Fits(Len(list))
      <3> HIDE DEF list
      <3>1. Len(list) \in Nat /\ Len(list) > 1
        BY <2>1
      <3> QED BY <2>1, <2>5, <3>1 DEF Fits
    <2>8. system = "linux" => list[Len(list)] = Do("load")
      BY <2>1, <2>6
    <2> QED BY <2>3, <2>4, <2>7, <2>8
  <1>3. CASE system = "windows"
    <2>1. list = WindowsUninit /\ Len(list) = 13
      BY <1>3 DEF Steps, WindowsUninit
    <2>2. \A x : \A j \in 1 .. 13 : x \in list[j][2] => Takes(list[j][1], x)
      BY <2>1 DEF Takes
    <2>3. \A x \in AllJobs : Takes("stop", x)
      BY <2>1, <2>2 DEF WindowsUninit, Drop, Do, Stop, AllJobs
    <2>4. \A x \in Known : x = "logs" \/ (x = "backup" /\ system = "windows") \/ Takes("drop", x)
      BY <1>3, <2>1, <2>2 DEF WindowsUninit, Drop, Do, Stop, InState, Known
    <2>5. 13 > DeletesAccountAt /\ 13 > StripAt /\ 13 > DropsDropinAt
      BY <1>3 DEF At, StripAt, DropsDropinAt, DeletesAccountAt
    <2>6. system = "linux" => WindowsUninit[13] = Do("load")
      BY <1>3 DEF WindowsUninit, Do
    <2>7. Fits(Len(list))
      <3> HIDE DEF list
      <3>1. Len(list) \in Nat /\ Len(list) > 1
        BY <2>1
      <3> QED BY <2>1, <2>5, <3>1 DEF Fits
    <2>8. system = "linux" => list[Len(list)] = Do("load")
      BY <2>1, <2>6
    <2> QED BY <2>3, <2>4, <2>7, <2>8
  <1> QED BY <1>1, <1>2, <1>3 DEF OnSystem

(* The order of the steps of init, and how long the lists are.              *)
LEMMA Positions ==
    ASSUME OnSystem
    PROVE  /\ KeyAt \in Nat /\ ConfigAt \in Nat /\ AcceptAt \in Nat /\ RefreshAt \in Nat
           /\ DropinAt \in Nat /\ BastionAt \in Nat
           /\ 0 < KeyAt /\ KeyAt < AcceptAt /\ AcceptAt < RefreshAt /\ RefreshAt < DropinAt
           /\ 0 < ConfigAt /\ 0 < BastionAt
           /\ StopsBastionAt \in Nat /\ StripAt \in Nat /\ DropsDropinAt \in Nat /\ DeletesAccountAt \in Nat
           /\ 1 < StopsBastionAt /\ 1 < DropsDropinAt
           /\ system # "macos" => StripAt > 1
  BY DEF OnSystem, At, KeyAt, ConfigAt, AcceptAt, RefreshAt, DropinAt, BastionAt,
         StopsBastionAt, StripAt, DropsDropinAt, DeletesAccountAt

(* Init has steps. *)
LEMMA InitLength == ASSUME OnSystem PROVE Len(Steps("init")) \in Nat /\ Len(Steps("init")) > 1
  <1>1. CASE system = "linux"
    BY <1>1 DEF Steps, LinuxInit
  <1>2. CASE system = "macos"
    BY <1>2 DEF Steps, MacInit
  <1>3. CASE system = "windows"
    BY <1>3 DEF Steps, WindowsInit
  <1> QED BY <1>1, <1>2, <1>3 DEF OnSystem

(* The platform of a machine does not change, and the lists with it.        *)
LEMMA SameLists ==
    ASSUME system' = system
    PROVE  /\ Known' = Known /\ (OnSystem' <=> OnSystem)
           /\ KeyAt' = KeyAt /\ ConfigAt' = ConfigAt /\ RefreshAt' = RefreshAt /\ DropinAt' = DropinAt
           /\ BastionAt' = BastionAt /\ StopsBastionAt' = StopsBastionAt /\ StripAt' = StripAt
           /\ DropsDropinAt' = DropsDropinAt /\ DeletesAccountAt' = DeletesAccountAt
           /\ Steps("init")' = Steps("init") /\ Steps("uninit")' = Steps("uninit")
  BY DEF Known, OnSystem, At, KeyAt, ConfigAt, AcceptAt, RefreshAt, DropinAt, BastionAt,
         StopsBastionAt, StripAt, DropsDropinAt, DeletesAccountAt, Steps

(* The command that runs, at its step k.                                    *)
LEMMA AtInit ==
    ASSUME InstallInv, cmd.name = "init", NEW k, k = cmd.at
    PROVE  /\ OnSystem /\ k \in 1 .. Len(Steps("init")) /\ k \in Nat /\ InitSoFar(k)
           /\ Steps("init")[k][1] = Verb /\ Steps("init")[k][2] = Arg
  BY InitLength DEF InstallInv, MachineTyped, CommandTyped, Progress, Verb, Arg

LEMMA AtUninit ==
    ASSUME InstallInv, cmd.name = "uninit", NEW k, k = cmd.at
    PROVE  /\ OnSystem /\ k \in 1 .. Len(Steps("uninit")) /\ k \in Nat /\ UninitSoFar(k)
           /\ Steps("uninit")[k][1] = Verb /\ Steps("uninit")[k][2] = Arg
  BY UninitTakesAll DEF InstallInv, MachineTyped, CommandTyped, Progress, Verb, Arg, Fits

(* What uninit has taken stays away, and its step k does what it is for.    *)
DoesItsPart(k) ==
    /\ disk' \subseteq disk \cup RacedFiles' /\ (raced => raced')
    /\ jobs' \subseteq jobs /\ (block' => block) /\ (account' = "ours" => account = "ours")
    /\ refresher' # "idle" => refresher # "idle" /\ k # 1
    /\ Verb = "drop" => disk' \cap Arg \subseteq RacedFiles'
    /\ Verb = "stop" => jobs' \cap Arg = {}
    /\ Verb = "strip" => ~block'
    /\ Verb = "delete_account" => account' # "ours"

(* What uninit has taken by its step k is gone before the next one. *)
LEMMA UninitGoesOn ==
    ASSUME InstallInv, cmd.name = "uninit", NEW k, k = cmd.at, system' = system, DoesItsPart(k)
    PROVE  UninitSoFar(k + 1)'
  <1>1. /\ OnSystem /\ k \in 1 .. Len(Steps("uninit")) /\ k \in Nat /\ UninitSoFar(k)
        /\ Steps("uninit")[k][1] = Verb /\ Steps("uninit")[k][2] = Arg
    BY AtUninit
  <1>2. RacedFiles \subseteq RacedFiles'
    BY DEF DoesItsPart, RacedFiles
  <1>3. ASSUME NEW j \in 1 .. (k + 1) - 1
        PROVE  /\ Steps("uninit")[j][1] = "drop" => disk' \cap Steps("uninit")[j][2] \subseteq RacedFiles'
               /\ Steps("uninit")[j][1] = "stop" => jobs' \cap Steps("uninit")[j][2] = {}
    <2>1. CASE j = k
      BY <1>1, <2>1 DEF DoesItsPart
    <2>2. CASE j # k
      <3>1. j \in 1 .. k - 1
        BY <1>1, <2>2
      <3>2. /\ Steps("uninit")[j][1] = "drop" => disk \cap Steps("uninit")[j][2] \subseteq RacedFiles
            /\ Steps("uninit")[j][1] = "stop" => jobs \cap Steps("uninit")[j][2] = {}
        BY <1>1, <3>1 DEF UninitSoFar
      <3> QED BY <1>2, <3>2 DEF DoesItsPart
    <2> QED BY <2>1, <2>2
  <1>4. k + 1 > StripAt => ~block'
    <2>1. k = StripAt => Verb = "strip"
      BY <1>1, UninitOrder
    <2> QED BY <1>1, <2>1, Positions DEF DoesItsPart, UninitSoFar
  <1>5. k + 1 > DeletesAccountAt => account' # "ours"
    <2>1. k = DeletesAccountAt => Verb = "delete_account"
      BY <1>1, UninitOrder
    <2> QED BY <1>1, <2>1, Positions DEF DoesItsPart, UninitSoFar
  <1>6. k + 1 > 1 /\ refresher' # "idle" => raced'
    BY <1>1 DEF DoesItsPart, UninitSoFar
  <1> QED BY <1>3, <1>4, <1>5, <1>6, SameLists DEF UninitSoFar

(* An uninit that has come to its end has made room.                        *)
LEMMA RoomAtTheEnd ==
    ASSUME InstallInv, system' = system, MachineTyped', cmd.name = "uninit",
           UninitSoFar(Len(Steps("uninit")) + 1)', system = "linux" => ~loaded', sound' = sound
    PROVE  UninitMakesRoom' /\ (refresher' # "idle" => raced')
  <1> DEFINE list == Steps("uninit")
             n == Len(list)
  <1>1. OnSystem
    BY DEF InstallInv, MachineTyped
  <1>2. /\ Fits(n)
        /\ \A x \in AllJobs : Takes("stop", x)
        /\ \A x \in Known : x = "logs" \/ (x = "backup" /\ system = "windows") \/ Takes("drop", x)
    BY <1>1, UninitTakesAll
  <1>3. \A j \in 1 .. n :
           /\ list[j][1] = "drop" => disk' \cap list[j][2] \subseteq RacedFiles'
           /\ list[j][1] = "stop" => jobs' \cap list[j][2] = {}
    <2>1. \A j \in 1 .. (n + 1) - 1 :
             /\ list[j][1] = "drop" => disk' \cap list[j][2] \subseteq RacedFiles'
             /\ list[j][1] = "stop" => jobs' \cap list[j][2] = {}
      BY SameLists DEF UninitSoFar
    <2>2. 1 .. (n + 1) - 1 = 1 .. n
      <3> HIDE DEF n
      <3> QED BY <1>2 DEF Fits
    <2> QED BY <2>1, <2>2
  <1>4. /\ n + 1 > StripAt => ~block'
        /\ n + 1 > DeletesAccountAt => account' # "ours"
        /\ n + 1 > 1 /\ refresher' # "idle" => raced'
    BY SameLists DEF UninitSoFar
  <1>5. ~block' /\ account' # "ours" /\ (refresher' # "idle" => raced')
    <2> HIDE DEF n
    <2> QED BY <1>1, <1>2, <1>4, Positions DEF Fits
  <1>6. jobs' = {}
    <2>1. \A x \in AllJobs : x \notin jobs'
      BY <1>2, <1>3 DEF Takes
    <2> QED BY <2>1 DEF MachineTyped
  <1>7. disk' \subseteq {"logs"} \cup (IF system = "windows" THEN {"backup"} ELSE {}) \cup RacedFiles'
    <2>1. disk' \subseteq Known
      BY SameLists DEF MachineTyped
    <2>2. \A x : Takes("drop", x) /\ x \in disk' => x \in RacedFiles'
      BY <1>3 DEF Takes
    <2> QED BY <1>2, <2>1, <2>2
  <1>8. disk' \subseteq Leftover'
    BY <1>7 DEF Leftover, RacedFiles
  <1>9. "dropin" \notin disk'
    BY <1>7 DEF RacedFiles
  <1>10. system # "windows" => ~Serving'
    BY <1>1, <1>9 DEF Serving, InForce, OnSystem
  <1>11. account' = "none" /\ sound' => ~Refused'
    BY <1>5, <1>9 DEF Refused, Conflict, BlockPresent, NotOurUser, NotOurAccount, UnsafePf, UnsafeAcl
  <1> QED BY <1>5, <1>6, <1>8, <1>10, <1>11 DEF UninitMakesRoom

(* A step that is done: all holds of the machine, and of the command one    *)
(* step further.                                                            *)
StepDone(k) ==
    /\ UNCHANGED <<system, sound, due>> /\ MachineTyped' /\ MachineIsSafe'
    /\ cmd.name = "init" => InitSoFar(k + 1)'
    /\ cmd.name = "uninit" => UninitSoFar(k + 1)'
    /\ cmd.name = "uninit" /\ system = "linux" /\ Verb = "load" => ~loaded'

(* The command goes on, or ends with all done. *)
LEMMA AdvanceInv ==
    ASSUME InstallInv, cmd.name \in {"init", "uninit"}, NEW k, k = cmd.at, StepDone(k), Advance
    PROVE  InstallInv'
  <1>1. CASE cmd.at = Len(Steps(cmd.name))
    <2>1. cmd' = NoCommand /\ last' = cmd.name
      BY <1>1 DEF Advance
    <2>2. CommandTyped'
      BY <2>1 DEF CommandTyped, Commands, NoCommand
    <2>3. CASE cmd.name = "init"
      BY <2>1, <2>2, <2>3 DEF StepDone, InstallInv, Progress, NoCommand
    <2>4. CASE cmd.name = "uninit"
      <3>1. k = Len(Steps("uninit"))
        BY <1>1, <2>4
      <3>2. system = "linux" => ~loaded'
        <4>1. system = "linux" => Steps("uninit")[k] = Do("load")
          BY <3>1, UninitTakesAll DEF InstallInv, MachineTyped
        <4>2. Steps("uninit")[k][1] = Verb
          BY <2>4, AtUninit
        <4> QED BY <2>4, <4>1, <4>2 DEF StepDone, Do
      <3>3. UninitSoFar(Len(Steps("uninit")) + 1)'
        <4>1. UninitSoFar(k + 1)'
          BY <2>4 DEF StepDone
        <4> QED BY <3>1, <4>1, SameLists DEF StepDone
      <3>4. UninitMakesRoom' /\ (refresher' # "idle" => raced')
        BY <2>4, <3>2, <3>3, RoomAtTheEnd DEF StepDone
      <3> QED BY <2>1, <2>2, <3>4 DEF StepDone, InstallInv, Progress, NoCommand
    <2> QED BY <2>3, <2>4
  <1>2. CASE cmd.at # Len(Steps(cmd.name))
    <2>1. cmd' = [cmd EXCEPT !.at = @ + 1] /\ last' = last
      BY <1>2 DEF Advance
    <2>2. cmd'.name = cmd.name /\ cmd'.at = k + 1 /\ cmd'.read = cmd.read /\ cmd' \in Commands
      BY <2>1 DEF InstallInv, CommandTyped, Commands
    <2>3. Len(Steps(cmd.name)) \in Nat
      BY InitLength, UninitTakesAll DEF InstallInv, MachineTyped, Fits
    <2>4. k + 1 \in 1 .. Len(Steps(cmd.name))
      BY <1>2, <2>3 DEF InstallInv, CommandTyped
    <2>5. Steps(cmd.name)' = Steps(cmd.name)
      BY <2>2, SameLists DEF StepDone
    <2>6. CommandTyped'
      BY <2>2, <2>4, <2>5 DEF CommandTyped, InstallInv, StepDone
    <2>7. Progress'
      BY <2>2 DEF Progress, StepDone, NoCommand
    <2> QED BY <2>6, <2>7 DEF InstallInv, StepDone
  <1> QED BY <1>1, <1>2

(* A command that fails leaves a machine that is as safe as before.         *)
LEMMA GiveUpInv ==
    ASSUME InstallInv, MachineTyped', MachineIsSafe', GiveUp
    PROVE  InstallInv'
  <1>1. cmd' = NoCommand /\ last' = "failed"
    BY DEF GiveUp
  <1>2. CommandTyped'
    BY <1>1 DEF CommandTyped, Commands, NoCommand
  <1> QED BY <1>1, <1>2 DEF InstallInv, Progress, NoCommand

-----------------------------------------------------------------------------
(* The steps. *)

(* What uninit has stopped when it is past the step.                        *)
LEMMA JobsAreStopped ==
    ASSUME InstallInv, cmd.name = "uninit", NEW k, k = cmd.at, k > StopsBastionAt
    PROVE  jobs \cap {"refresh", "bastion"} = {}
  <1>1. /\ OnSystem /\ k \in 1 .. Len(Steps("uninit")) /\ k \in Nat /\ UninitSoFar(k)
    BY AtUninit
  <1>2. 1 \in 1 .. k - 1 /\ StopsBastionAt \in 1 .. k - 1
    BY <1>1, Positions
  <1>3. Steps("uninit")[1] = Stop("refresh") /\ Steps("uninit")[StopsBastionAt] = Stop("bastion")
    <2>1. 1 \in 1 .. Len(Steps("uninit")) /\ StopsBastionAt \in 1 .. Len(Steps("uninit"))
      BY <1>1, <1>2, UninitTakesAll DEF Fits
    <2> QED BY <1>1, <2>1, UninitList, UninitOrder
  <1> QED BY <1>1, <1>2, <1>3 DEF UninitSoFar, Stop

(* The drop-in is gone when uninit is past the step that takes it. *)
LEMMA DropinIsGone ==
    ASSUME InstallInv, cmd.name = "uninit", NEW k, k = cmd.at, k > DropsDropinAt
    PROVE  "dropin" \notin disk
  <1>1. /\ OnSystem /\ k \in 1 .. Len(Steps("uninit")) /\ k \in Nat /\ UninitSoFar(k)
    BY AtUninit
  <1>2. DropsDropinAt \in 1 .. k - 1
    BY <1>1, Positions
  <1>3. Steps("uninit")[DropsDropinAt] = Drop("dropin")
    <2>1. DropsDropinAt \in 1 .. Len(Steps("uninit"))
      BY <1>1, <1>2, UninitTakesAll DEF Fits
    <2> QED BY <1>1, <2>1, UninitOrder
  <1> QED BY <1>1, <1>2, <1>3 DEF UninitSoFar, Drop, RacedFiles

(* Files that init puts there. *)
LEMMA PutInv ==
    ASSUME InstallInv, cmd # NoCommand, PutOrDrop, Verb = "put" PROVE InstallInv'
  <1> PICK k : k = cmd.at
    OBVIOUS
  <1>1. cmd.name \in {"init", "uninit"}
    BY DEF InstallInv, CommandTyped, Commands
  <1>2. cmd.name = "init"
    BY <1>1, AtUninit, UninitList
  <1>3. /\ OnSystem /\ k \in 1 .. Len(Steps("init")) /\ k \in Nat /\ InitSoFar(k)
        /\ Steps("init")[k][1] = Verb /\ Steps("init")[k][2] = Arg
    BY <1>2, AtInit
  <1>4. /\ disk' = disk \cup Arg /\ key' = key
        /\ UNCHANGED <<system, sound, theirs, block, lines, due, account, jobs, loaded, refresher,
                       raced, registered>>
        /\ Advance
    BY DEF PutOrDrop, server
  <1>5. /\ Arg \subseteq Known
        /\ k = DropinAt => Arg = {"dropin"}
        /\ k # DropinAt => "dropin" \notin Arg
        /\ k = ConfigAt => "config" \in Arg
        /\ k = BastionAt => "bastion" \in Arg
        /\ k # KeyAt /\ k # RefreshAt
    <2>1. /\ Verb = "put" => Arg \subseteq Known /\ (Steps("init")[k] = Put("dropin") \/ "dropin" \notin Arg)
          /\ Steps("init")[k] = Put("dropin") <=> k = DropinAt
          /\ Verb = "key" <=> k = KeyAt
          /\ Verb = "refresh" <=> k = RefreshAt
          /\ k = ConfigAt => Steps("init")[k] = Put("config")
          /\ k = BastionAt => Steps("init")[k] = Put("bastion")
      BY <1>3, InitList
    <2> QED BY <1>3, <2>1 DEF Put
  <1>6. MachineTyped'
    BY <1>4, <1>5, SameLists DEF InstallInv, MachineTyped
  <1>7. "dropin" \in disk' => {"certs", "ca"} \subseteq disk'
    BY <1>3, <1>4, <1>5, Positions DEF InstallInv, MachineIsSafe, InstallIsSafe, LiveConfigIsBacked, InitSoFar
  <1>8. MachineIsSafe'
    BY <1>4, <1>7 DEF InstallInv, MachineIsSafe, InstallIsSafe, LiveConfigIsBacked, RunningJobsAreRegistered,
                      AdministratorKeeps
  <1>9. InitSoFar(k + 1)'
    <2>1. /\ k + 1 > KeyAt => key' > 0
          /\ k + 1 > RefreshAt => key' = registered' /\ {"certs", "ca"} \subseteq disk'
      BY <1>3, <1>4, <1>5, Positions DEF InitSoFar
    <2>2. /\ k + 1 > ConfigAt => "config" \in disk'
          /\ k + 1 > BastionAt => "bastion" \in disk'
      BY SMTT(60), <1>3, <1>4, <1>5, Positions DEF InitSoFar
    <2>3. k + 1 > DropinAt <=> "dropin" \in disk'
      BY <1>3, <1>4, <1>5, Positions DEF InitSoFar
    <2> QED BY <1>4, <2>1, <2>2, <2>3, SameLists DEF InitSoFar
  <1> QED BY <1>2, <1>4, <1>6, <1>8, <1>9, AdvanceInv DEF StepDone

(* Files that uninit takes, and a task file that init on Windows does. *)
LEMMA DropInv ==
    ASSUME InstallInv, cmd # NoCommand, PutOrDrop, Verb = "drop" PROVE InstallInv'
  <1> PICK k : k = cmd.at
    OBVIOUS
  <1>1. cmd.name \in {"init", "uninit"}
    BY DEF InstallInv, CommandTyped, Commands
  <1>2. /\ disk' = disk \ Arg /\ key' = IF "state" \in Arg THEN 0 ELSE key
        /\ UNCHANGED <<system, sound, theirs, block, lines, due, account, jobs, loaded, refresher,
                       raced, registered>>
        /\ Advance
    BY DEF PutOrDrop, server
  <1>3. MachineTyped'
    BY <1>2, SameLists DEF InstallInv, MachineTyped
  <1>4. CASE cmd.name = "init"
    <2>1. /\ OnSystem /\ k \in 1 .. Len(Steps("init")) /\ k \in Nat /\ InitSoFar(k)
          /\ Steps("init")[k][1] = Verb /\ Steps("init")[k][2] = Arg
      BY <1>4, AtInit
    <2>2. /\ Arg = {"xml"} /\ k # KeyAt /\ k # RefreshAt /\ k # ConfigAt /\ k # BastionAt /\ k # DropinAt
      BY <2>1, InitList DEF Put
    <2>3. MachineIsSafe'
      BY <1>2, <2>2 DEF InstallInv, MachineIsSafe, InstallIsSafe, LiveConfigIsBacked,
                        RunningJobsAreRegistered, AdministratorKeeps
    <2>4. InitSoFar(k + 1)'
      BY SMTT(60), <1>2, <2>1, <2>2, Positions, SameLists DEF InitSoFar
    <2> QED BY <1>2, <1>3, <1>4, <2>3, <2>4, AdvanceInv DEF StepDone
  <1>5. CASE cmd.name = "uninit"
    <2>1. /\ OnSystem /\ k \in 1 .. Len(Steps("uninit")) /\ k \in Nat /\ UninitSoFar(k)
          /\ Steps("uninit")[k][1] = Verb /\ Steps("uninit")[k][2] = Arg
      BY <1>5, AtUninit
    <2>2. /\ Arg \cap {"state", "config", "bastion", "dropin"} # {} => k > StopsBastionAt
          /\ Arg \cap {"certs", "ca"} # {} => k > DropsDropinAt
          /\ system = "windows" /\ "marker" \in Arg => k > DeletesAccountAt
      BY <2>1, UninitOrder
    <2>3. /\ Arg \cap {"state", "config", "bastion", "dropin"} # {} => jobs \cap {"refresh", "bastion"} = {}
          /\ Arg \cap {"certs", "ca"} # {} => "dropin" \notin disk
          /\ system = "windows" /\ "marker" \in Arg => account # "ours"
      BY <1>5, <2>1, <2>2, JobsAreStopped, DropinIsGone DEF UninitSoFar
    <2>4. MachineIsSafe'
      BY <1>2, <2>3 DEF InstallInv, MachineIsSafe, InstallIsSafe, LiveConfigIsBacked,
                        RunningJobsAreRegistered, AdministratorKeeps
    <2>5. DoesItsPart(k)
      <3>1. RacedFiles' = RacedFiles
        BY <1>2 DEF RacedFiles
      <3>2. k # 1
        BY <2>1, UninitList DEF Stop
      <3> QED BY <1>2, <3>1, <3>2 DEF DoesItsPart
    <2>6. UninitSoFar(k + 1)'
      BY <1>2, <1>5, <2>5, UninitGoesOn
    <2> QED BY <1>2, <1>3, <1>5, <2>4, <2>6, AdvanceInv DEF StepDone
  <1> QED BY <1>1, <1>4, <1>5

(* A step of init that adds nothing that later ones rely on.                *)
LEMMA InitGoesOn ==
    ASSUME InstallInv, cmd.name = "init", NEW k, k = cmd.at, Verb \notin {"put", "key", "refresh"},
           disk \subseteq disk', "dropin" \in disk' <=> "dropin" \in disk, key' = key,
           registered' = registered \/ k = AcceptAt, system' = system
    PROVE  InitSoFar(k + 1)'
  <1>1. /\ OnSystem /\ k \in 1 .. Len(Steps("init")) /\ k \in Nat /\ InitSoFar(k)
        /\ Steps("init")[k][1] = Verb
    BY AtInit
  <1>2. k \notin {KeyAt, RefreshAt, ConfigAt, BastionAt, DropinAt}
    BY <1>1, InitList DEF Put
  <1>3. /\ k + 1 > KeyAt => key' > 0
        /\ k + 1 > ConfigAt => "config" \in disk'
        /\ k + 1 > BastionAt => "bastion" \in disk'
        /\ k + 1 > DropinAt <=> "dropin" \in disk'
    BY SMTT(60), <1>1, <1>2, Positions DEF InitSoFar
  <1>4. k + 1 > RefreshAt => key' = registered' /\ {"certs", "ca"} \subseteq disk'
    BY <1>1, <1>2, Positions DEF InitSoFar
  <1> QED BY <1>3, <1>4, SameLists DEF InitSoFar

(* Before the drop-in is there no job runs, and the key may change.         *)
LEMMA NoJobsYet ==
    ASSUME InstallInv, cmd.name = "init", cmd.at <= DropinAt
    PROVE  "dropin" \notin disk /\ jobs \cap {"refresh", "bastion"} = {}
  <1>1. InitSoFar(cmd.at) /\ cmd.at \in Nat /\ OnSystem
    BY AtInit
  <1> QED BY <1>1, Positions DEF InitSoFar, InstallInv, MachineIsSafe

(* Which command has which kinds of steps. *)
LEMMA CommandRuns ==
    ASSUME InstallInv, cmd # NoCommand
    PROVE  /\ cmd.name \in {"init", "uninit"}
           /\ Verb \in {"put", "key", "accept", "refresh", "account", "block", "start", "marker", "include"}
                => cmd.name = "init"
           /\ Verb \in {"stop", "strip", "restart", "delete_account"} => cmd.name = "uninit"
  <1>1. cmd.name \in {"init", "uninit"}
    BY DEF InstallInv, CommandTyped, Commands
  <1>2. CASE cmd.name = "init"
    BY <1>2, AtInit, InitList
  <1>3. CASE cmd.name = "uninit"
    BY <1>3, AtUninit, UninitList
  <1> QED BY <1>1, <1>2, <1>3

(* Jobs start last, with all they need. *)
LEMMA StartInv ==
    ASSUME InstallInv, cmd # NoCommand, StartOrStop, Verb = "start" PROVE InstallInv'
  <1> PICK k : k = cmd.at
    OBVIOUS
  <1>1. cmd.name = "init"
    BY CommandRuns
  <1>2. /\ OnSystem /\ k \in 1 .. Len(Steps("init")) /\ k \in Nat /\ InitSoFar(k)
        /\ Steps("init")[k][1] = Verb /\ Steps("init")[k][2] = Arg
    BY <1>1, AtInit
  <1>3. /\ jobs' = jobs \cup Arg
        /\ UNCHANGED <<system, sound, theirs, disk, key, block, lines, due, account, loaded, refresher,
                       raced, registered>>
        /\ Advance
    BY DEF StartOrStop, server
  <1>4. Arg \subseteq AllJobs /\ k > RefreshAt /\ k > DropinAt /\ k > ConfigAt /\ k > BastionAt /\ k > KeyAt
    BY <1>2, InitList
  <1>5. MachineTyped'
    BY <1>3, <1>4, SameLists DEF InstallInv, MachineTyped
  <1>6. /\ "dropin" \in disk /\ "config" \in disk /\ "bastion" \in disk
        /\ key > 0 /\ key = registered
    BY <1>2, <1>4 DEF InitSoFar
  <1>7. MachineIsSafe'
    BY <1>3, <1>6 DEF InstallInv, MachineIsSafe, InstallIsSafe, LiveConfigIsBacked, RunningJobsAreRegistered,
                      AdministratorKeeps
  <1>8. InitSoFar(k + 1)'
    BY <1>1, <1>3, InitGoesOn
  <1> QED BY <1>1, <1>3, <1>5, <1>7, <1>8, AdvanceInv DEF StepDone

(* Uninit stops them first. *)
LEMMA StopInv ==
    ASSUME InstallInv, cmd # NoCommand, StartOrStop, Verb = "stop" PROVE InstallInv'
  <1> PICK k : k = cmd.at
    OBVIOUS
  <1>1. cmd.name = "uninit"
    BY CommandRuns
  <1>2. /\ OnSystem /\ k \in 1 .. Len(Steps("uninit")) /\ k \in Nat
        /\ Steps("uninit")[k][1] = Verb /\ Steps("uninit")[k][2] = Arg
    BY <1>1, AtUninit
  <1>3. /\ jobs' = jobs \ Arg
        /\ refresher' = IF "refresh" \in Arg THEN "idle" ELSE refresher
        /\ UNCHANGED <<system, sound, theirs, disk, key, block, lines, due, account, loaded,
                       raced, registered>>
        /\ Advance
    BY DEF StartOrStop, server
  <1>4. MachineTyped'
    BY <1>3, SameLists DEF InstallInv, MachineTyped
  <1>5. MachineIsSafe'
    BY <1>3 DEF InstallInv, MachineIsSafe, InstallIsSafe, LiveConfigIsBacked, RunningJobsAreRegistered,
                AdministratorKeeps
  <1>6. k = 1 => "refresh" \in Arg
    BY <1>2, UninitList DEF Stop
  <1>7. DoesItsPart(k)
    BY <1>3, <1>6 DEF DoesItsPart, RacedFiles
  <1>8. UninitSoFar(k + 1)'
    BY <1>1, <1>3, <1>7, UninitGoesOn
  <1> QED BY <1>1, <1>3, <1>4, <1>5, <1>8, AdvanceInv DEF StepDone

(* A new account key comes before the drop-in and the jobs. *)
LEMMA NewKeyInv ==
    ASSUME InstallInv, cmd # NoCommand, NewKey PROVE InstallInv'
  <1> PICK k : k = cmd.at
    OBVIOUS
  <1>1. cmd.name = "init"
    BY CommandRuns DEF NewKey
  <1>2. /\ OnSystem /\ k \in 1 .. Len(Steps("init")) /\ k \in Nat /\ InitSoFar(k)
        /\ Steps("init")[k][1] = "key"
    BY <1>1, AtInit DEF NewKey
  <1>3. /\ key' > 0 /\ key' \in Nat
        /\ UNCHANGED <<system, sound, theirs, disk, block, lines, due, account, jobs, loaded, refresher,
                       raced, registered>>
        /\ Advance
    BY DEF NewKey, server, InstallInv, MachineTyped
  <1>4. k = KeyAt /\ k # ConfigAt /\ k # BastionAt
    BY <1>2, InitList DEF Put
  <1>5. "dropin" \notin disk /\ jobs \cap {"refresh", "bastion"} = {}
    BY <1>1, <1>2, <1>4, Positions, NoJobsYet
  <1>6. MachineTyped'
    BY <1>3, SameLists DEF InstallInv, MachineTyped
  <1>7. MachineIsSafe'
    BY <1>3, <1>5 DEF InstallInv, MachineIsSafe, InstallIsSafe, LiveConfigIsBacked, RunningJobsAreRegistered,
                      AdministratorKeeps
  <1>8. InitSoFar(k + 1)'
    BY <1>2, <1>3, <1>4, Positions, SameLists DEF InitSoFar
  <1> QED BY <1>1, <1>3, <1>6, <1>7, <1>8, AdvanceInv DEF StepDone

(* So does its acceptance by the server, also when the answer is lost. *)
LEMMA AcceptInv ==
    ASSUME InstallInv, cmd # NoCommand, Accept PROVE InstallInv'
  <1> PICK k : k = cmd.at
    OBVIOUS
  <1>1. cmd.name = "init"
    BY CommandRuns DEF Accept
  <1>2. /\ OnSystem /\ k \in 1 .. Len(Steps("init")) /\ k \in Nat /\ InitSoFar(k)
        /\ Steps("init")[k][1] = "accept"
    BY <1>1, AtInit DEF Accept
  <1>3. /\ registered' = key
        /\ UNCHANGED <<system, sound, theirs, disk, key, block, lines, due, account, jobs, loaded, refresher,
                       raced>>
        /\ Advance \/ GiveUp
    BY DEF Accept, machine
  <1>4. k = AcceptAt
    BY <1>2, InitList
  <1>5. "dropin" \notin disk /\ jobs \cap {"refresh", "bastion"} = {}
    BY <1>1, <1>2, <1>4, Positions, NoJobsYet
  <1>6. MachineTyped'
    BY <1>3, SameLists DEF InstallInv, MachineTyped
  <1>7. MachineIsSafe'
    BY <1>3, <1>5 DEF InstallInv, MachineIsSafe, InstallIsSafe, LiveConfigIsBacked, RunningJobsAreRegistered,
                      AdministratorKeeps
  <1>8. InitSoFar(k + 1)'
    BY <1>1, <1>3, <1>4, InitGoesOn DEF Accept
  <1>9. CASE Advance
    BY <1>1, <1>3, <1>6, <1>7, <1>8, <1>9, AdvanceInv DEF StepDone
  <1>10. CASE GiveUp
    BY <1>6, <1>7, <1>10, GiveUpInv
  <1> QED BY <1>3, <1>9, <1>10

(* And host-refresh, which brings what the drop-in names. *)
LEMMA RefreshInv ==
    ASSUME InstallInv, cmd # NoCommand, Refresh PROVE InstallInv'
  <1> PICK k : k = cmd.at
    OBVIOUS
  <1>1. cmd.name = "init"
    BY CommandRuns DEF Refresh
  <1>2. /\ OnSystem /\ k \in 1 .. Len(Steps("init")) /\ k \in Nat /\ InitSoFar(k)
        /\ Steps("init")[k][1] = "refresh"
    BY <1>1, AtInit DEF Refresh
  <1>3. /\ key = registered
        /\ \/ disk' = disk \cup {"certs", "ca"} /\ Advance
           \/ disk' = disk \cup {"certs"} /\ GiveUp
        /\ UNCHANGED <<system, sound, theirs, key, block, lines, due, account, jobs, loaded, refresher,
                       raced, registered>>
    BY DEF Refresh, server
  <1>4. k = RefreshAt /\ k # ConfigAt /\ k # BastionAt
    BY <1>2, InitList DEF Put
  <1>5. MachineTyped'
    BY <1>3, SameLists DEF InstallInv, MachineTyped, Known
  <1>6. MachineIsSafe'
    BY <1>3 DEF InstallInv, MachineIsSafe, InstallIsSafe, LiveConfigIsBacked, RunningJobsAreRegistered,
                AdministratorKeeps
  <1>7. CASE disk' = disk \cup {"certs", "ca"} /\ Advance
    <2>1. InitSoFar(k + 1)'
      BY <1>2, <1>3, <1>4, <1>7, Positions, SameLists DEF InitSoFar
    <2> QED BY <1>1, <1>3, <1>5, <1>6, <1>7, <2>1, AdvanceInv DEF StepDone
  <1>8. CASE GiveUp
    BY <1>5, <1>6, <1>8, GiveUpInv
  <1> QED BY <1>3, <1>7, <1>8

(* The account of the bastion job, made in one step or in several. *)
LEMMA CreateAccountInv ==
    ASSUME InstallInv, cmd # NoCommand, CreateAccount PROVE InstallInv'
  <1> PICK k : k = cmd.at
    OBVIOUS
  <1>1. cmd.name = "init"
    BY CommandRuns DEF CreateAccount
  <1>2. /\ account' \in {"half", "ours", account}
        /\ account' # account => account = "none"
        /\ account' = "ours" /\ account # "ours" => system # "windows"
        /\ UNCHANGED <<system, sound, theirs, disk, key, block, lines, due, jobs, loaded, refresher,
                       raced, registered>>
        /\ Advance \/ GiveUp
    BY DEF CreateAccount, Useradd, Dscl, AccountScript, server
  <1>3. MachineTyped'
    BY <1>2, SameLists DEF InstallInv, MachineTyped
  <1>4. MachineIsSafe'
    BY <1>2 DEF InstallInv, MachineIsSafe, InstallIsSafe, LiveConfigIsBacked, RunningJobsAreRegistered,
                AdministratorKeeps
  <1>5. InitSoFar(k + 1)'
    BY <1>1, <1>2, InitGoesOn DEF CreateAccount
  <1>6. CASE Advance
    BY <1>1, <1>2, <1>3, <1>4, <1>5, <1>6, AdvanceInv DEF StepDone
  <1>7. CASE GiveUp
    BY <1>3, <1>4, <1>7, GiveUpInv
  <1> QED BY <1>2, <1>6, <1>7

(* Windows: the account that was made is marked as ours. *)
LEMMA MarkInv ==
    ASSUME InstallInv, cmd # NoCommand, Mark PROVE InstallInv'
  <1> PICK k : k = cmd.at
    OBVIOUS
  <1>1. cmd.name = "init"
    BY CommandRuns DEF Mark
  <1>2. system = "windows"
    <2>1. /\ OnSystem /\ k \in 1 .. Len(Steps("init")) /\ Steps("init")[k][1] = "marker"
      BY <1>1, AtInit DEF Mark
    <2> QED BY <2>1, InitList
  <1>3. /\ account' = (IF account = "half" THEN "ours" ELSE account)
        /\ disk' = (IF account = "half" THEN disk \cup {"marker"} ELSE disk)
        /\ UNCHANGED <<system, sound, theirs, key, block, lines, due, jobs, loaded, refresher,
                       raced, registered>>
        /\ Advance
    BY DEF Mark, server
  <1>4. MachineTyped'
    BY <1>2, <1>3, SameLists DEF InstallInv, MachineTyped, Known
  <1>5. MachineIsSafe'
    BY <1>3 DEF InstallInv, MachineIsSafe, InstallIsSafe, LiveConfigIsBacked, RunningJobsAreRegistered,
                AdministratorKeeps
  <1>6. InitSoFar(k + 1)'
    BY <1>1, <1>3, InitGoesOn DEF Mark
  <1> QED BY <1>1, <1>3, <1>4, <1>5, <1>6, AdvanceInv DEF StepDone, Mark

(* And only a marked one is deleted. *)
LEMMA DeleteAccountInv ==
    ASSUME InstallInv, cmd # NoCommand, DeleteAccount PROVE InstallInv'
  <1> PICK k : k = cmd.at
    OBVIOUS
  <1>1. cmd.name = "uninit"
    BY CommandRuns DEF DeleteAccount
  <1>2. /\ account' = IF account = "ours" THEN "none" ELSE account
        /\ UNCHANGED <<system, sound, theirs, disk, key, block, lines, due, jobs, loaded, refresher,
                       raced, registered>>
        /\ Advance
    BY DEF DeleteAccount, server, InstallInv, MachineIsSafe
  <1>3. MachineTyped'
    BY <1>2, SameLists DEF InstallInv, MachineTyped
  <1>4. MachineIsSafe'
    BY <1>2 DEF InstallInv, MachineIsSafe, InstallIsSafe, LiveConfigIsBacked, RunningJobsAreRegistered,
                AdministratorKeeps
  <1>5. DoesItsPart(k)
    <2>1. k # 1
      <3>1. /\ OnSystem /\ k \in 1 .. Len(Steps("uninit")) /\ Steps("uninit")[k][1] = Verb
        BY <1>1, AtUninit
      <3> QED BY <3>1, UninitList DEF Stop, DeleteAccount
    <2> QED BY <1>2, <2>1 DEF DoesItsPart, DeleteAccount
  <1>6. UninitSoFar(k + 1)'
    BY <1>1, <1>2, <1>5, UninitGoesOn
  <1> QED BY <1>1, <1>2, <1>3, <1>4, <1>6, AdvanceInv DEF StepDone, DeleteAccount

(* The block is added to the text that was read when init began. *)
LEMMA AddBlockInv ==
    ASSUME InstallInv, cmd # NoCommand, AddBlock PROVE InstallInv'
  <1> PICK k : k = cmd.at
    OBVIOUS
  <1>1. cmd.name = "init"
    BY CommandRuns DEF AddBlock
  <1>2. system = "linux"
    <2>1. /\ OnSystem /\ k \in 1 .. Len(Steps("init")) /\ Steps("init")[k][1] = "block"
      BY <1>1, AtInit DEF AddBlock
    <2> QED BY <2>1, InitList
  <1>3. /\ lines' = cmd.read
        /\ UNCHANGED <<system, sound, theirs, disk, key, due, account, jobs, loaded, refresher,
                       raced, registered>>
        /\ Advance
    BY DEF AddBlock, server
  <1>4. cmd.read \subseteq Lines /\ due \subseteq cmd.read
    BY <1>1 DEF InstallInv, CommandTyped, Commands
  <1>5. MachineTyped'
    BY <1>3, <1>4, SameLists DEF InstallInv, MachineTyped
  <1>6. MachineIsSafe'
    BY <1>2, <1>3, <1>4 DEF InstallInv, MachineIsSafe, InstallIsSafe, LiveConfigIsBacked,
                            RunningJobsAreRegistered, AdministratorKeeps
  <1>7. InitSoFar(k + 1)'
    BY <1>1, <1>3, InitGoesOn DEF AddBlock
  <1> QED BY <1>1, <1>3, <1>5, <1>6, <1>7, AdvanceInv DEF StepDone

(* Windows: so is the include, which is taken back if sshd refuses it. *)
LEMMA EnableIncludeInv ==
    ASSUME InstallInv, cmd # NoCommand, EnableInclude PROVE InstallInv'
  <1> PICK k : k = cmd.at
    OBVIOUS
  <1>1. cmd.name = "init"
    BY CommandRuns DEF EnableInclude
  <1>2. system = "windows"
    <2>1. /\ OnSystem /\ k \in 1 .. Len(Steps("init")) /\ Steps("init")[k][1] = "include"
      BY <1>1, AtInit DEF EnableInclude
    <2> QED BY <2>1, InitList
  <1>3. /\ disk' = disk \cup {"backup"} /\ lines' = cmd.read
        /\ UNCHANGED <<system, sound, theirs, key, due, account, jobs, refresher, raced, registered>>
        /\ Advance \/ GiveUp
    BY DEF EnableInclude, server
  <1>4. cmd.read \subseteq Lines /\ due \subseteq cmd.read
    BY <1>1 DEF InstallInv, CommandTyped, Commands
  <1>5. MachineTyped'
    BY <1>2, <1>3, <1>4, SameLists DEF InstallInv, MachineTyped, Known
  <1>6. MachineIsSafe'
    BY <1>2, <1>3, <1>4 DEF InstallInv, MachineIsSafe, InstallIsSafe, LiveConfigIsBacked,
                            RunningJobsAreRegistered, AdministratorKeeps
  <1>7. InitSoFar(k + 1)'
    BY <1>1, <1>3, InitGoesOn DEF EnableInclude
  <1>8. CASE Advance
    BY <1>1, <1>3, <1>5, <1>6, <1>7, <1>8, AdvanceInv DEF StepDone
  <1>9. CASE GiveUp
    BY <1>5, <1>6, <1>9, GiveUpInv
  <1> QED BY <1>3, <1>8, <1>9

(* uninit on Windows that finds no block of pf's leaves sshd as it runs.    *)
LEMMA SkipRestart ==
    ASSUME InstallInv, cmd.name = "uninit", system = "windows", StripBlock, ~block
    PROVE  InstallInv'
  <1> PICK k : k = cmd.at
    OBVIOUS
  <1>1. /\ OnSystem /\ k \in 1 .. Len(Steps("uninit")) /\ k \in Nat /\ UninitSoFar(k)
        /\ Steps("uninit")[k][1] = "strip"
    BY AtUninit DEF StripBlock
  <1>2. k = StripAt /\ k > 1
    BY <1>1, UninitOrder, Positions
  <1>3. k + 2 <= Len(Steps("uninit")) /\ Steps("uninit")[k + 1] = Do("restart")
    BY <1>1, <1>2, StripIsFollowed
  <1>4. /\ block' = FALSE /\ cmd' = [cmd EXCEPT !.at = @ + 2] /\ last' = last
        /\ UNCHANGED <<system, sound, theirs, disk, key, lines, due, account, jobs, loaded, refresher,
                       raced, registered>>
    BY DEF StripBlock, server
  <1>5. cmd'.name = cmd.name /\ cmd'.at = k + 2 /\ cmd'.read = cmd.read /\ cmd' \in Commands
    BY <1>4 DEF InstallInv, CommandTyped, Commands
  <1>6. MachineTyped'
    BY <1>4, SameLists DEF InstallInv, MachineTyped
  <1>7. MachineIsSafe'
    BY <1>4 DEF InstallInv, MachineIsSafe, InstallIsSafe, LiveConfigIsBacked, RunningJobsAreRegistered,
                AdministratorKeeps
  <1>8. CommandTyped'
    <2>1. Len(Steps("uninit")) \in Nat
      BY <1>1, UninitTakesAll DEF Fits
    <2>2. k + 2 \in 1 .. Len(Steps("uninit"))
      BY <1>1, <1>3, <2>1
    <2> QED BY <1>4, <1>5, <2>2, SameLists DEF CommandTyped
  <1>9. UninitSoFar(k + 2)'
    <2>1. UninitSoFar(k + 1)'
      <3>1. DoesItsPart(k)
        BY <1>2, <1>4, <1>1 DEF DoesItsPart, StripBlock
      <3> QED BY <1>4, <3>1, UninitGoesOn
    <2>2. ASSUME NEW j \in 1 .. (k + 2) - 1
          PROVE  /\ Steps("uninit")[j][1] = "drop" => disk' \cap Steps("uninit")[j][2] \subseteq RacedFiles'
                 /\ Steps("uninit")[j][1] = "stop" => jobs' \cap Steps("uninit")[j][2] = {}
      <3>1. CASE j = k + 1
        BY <1>3, <3>1 DEF Do
      <3>2. CASE j # k + 1
        <4>1. j \in 1 .. (k + 1) - 1
          BY <1>1, <3>2
        <4> QED BY <1>4, <2>1, <4>1, SameLists DEF UninitSoFar
      <3> QED BY <3>1, <3>2
    <2>3. /\ k + 1 # DeletesAccountAt
      <3>1. k + 1 \in 1 .. Len(Steps("uninit"))
        BY <1>1, <1>3, UninitTakesAll DEF Fits
      <3> QED BY <1>1, <1>3, <3>1, UninitOrder DEF Do
    <2>4. /\ k + 2 > StripAt => ~block'
          /\ k + 2 > DeletesAccountAt => account' # "ours"
          /\ k + 2 > 1 /\ refresher' # "idle" => raced'
      BY <1>1, <1>2, <1>4, <2>1, <2>3, Positions, SameLists DEF UninitSoFar
    <2> QED BY <1>4, <2>2, <2>4, SameLists DEF UninitSoFar
  <1>10. Progress'
    BY <1>5, <1>9 DEF Progress, NoCommand
  <1> QED BY <1>6, <1>7, <1>8, <1>10 DEF InstallInv

(* The block is taken out. *)
LEMMA StripBlockInv ==
    ASSUME InstallInv, cmd # NoCommand, StripBlock PROVE InstallInv'
  <1> PICK k : k = cmd.at
    OBVIOUS
  <1>1. cmd.name = "uninit"
    BY CommandRuns DEF StripBlock
  <1>2. CASE system = "windows" /\ ~block
    BY <1>1, <1>2, SkipRestart
  <1>3. CASE ~(system = "windows" /\ ~block)
    <2>1. /\ block' = FALSE /\ disk' \in {disk, disk \ {"backup"}}
          /\ UNCHANGED <<system, sound, theirs, key, lines, due, account, jobs, loaded, refresher,
                         raced, registered>>
          /\ Advance
      BY <1>3 DEF StripBlock, server
    <2>2. MachineTyped'
      BY <2>1, SameLists DEF InstallInv, MachineTyped
    <2>3. MachineIsSafe'
      BY <2>1 DEF InstallInv, MachineIsSafe, InstallIsSafe, LiveConfigIsBacked, RunningJobsAreRegistered,
                  AdministratorKeeps
    <2>4. DoesItsPart(k)
      <3>1. k # 1
        <4>1. /\ OnSystem /\ k \in 1 .. Len(Steps("uninit")) /\ Steps("uninit")[k][1] = Verb
          BY <1>1, AtUninit
        <4> QED BY <4>1, UninitList DEF Stop, StripBlock
      <3> QED BY <2>1, <3>1 DEF DoesItsPart, StripBlock
    <2>5. UninitSoFar(k + 1)'
      BY <1>1, <2>1, <2>4, UninitGoesOn
    <2> QED BY <1>1, <2>1, <2>2, <2>3, <2>5, AdvanceInv DEF StepDone, StripBlock
  <1> QED BY <1>2, <1>3

(* sshd reads its configuration again. *)
LEMMA LoadInv ==
    ASSUME InstallInv, cmd # NoCommand, Load PROVE InstallInv'
  <1> PICK k : k = cmd.at
    OBVIOUS
  <1>1. cmd.name \in {"init", "uninit"}
    BY CommandRuns
  <1>2. /\ loaded' = InForce \/ Verb = "restart"
        /\ UNCHANGED <<system, sound, theirs, disk, key, block, lines, due, account, jobs, refresher,
                       raced, registered>>
        /\ Advance
    BY DEF Load, server
  <1>3. MachineTyped'
    BY <1>2, SameLists DEF InstallInv, MachineTyped
  <1>4. MachineIsSafe'
    BY <1>2 DEF InstallInv, MachineIsSafe, InstallIsSafe, LiveConfigIsBacked, RunningJobsAreRegistered,
                AdministratorKeeps
  <1>5. CASE cmd.name = "init"
    <2>1. InitSoFar(k + 1)'
      BY <1>2, <1>5, InitGoesOn DEF Load
    <2> QED BY <1>2, <1>3, <1>4, <1>5, <2>1, AdvanceInv DEF StepDone
  <1>6. CASE cmd.name = "uninit"
    <2>1. /\ OnSystem /\ k \in 1 .. Len(Steps("uninit")) /\ k \in Nat /\ Steps("uninit")[k][1] = Verb
      BY <1>6, AtUninit
    <2>2. DoesItsPart(k)
      <3>1. k # 1
        BY <2>1, UninitList DEF Stop, Load
      <3> QED BY <1>2, <3>1 DEF DoesItsPart, Load
    <2>3. UninitSoFar(k + 1)'
      BY <1>2, <1>6, <2>2, UninitGoesOn
    <2>4. Verb = "load" => ~loaded'
      <3>1. Verb = "load" => k > DropsDropinAt
        BY <2>1, UninitList, UninitTakesAll DEF Fits
      <3> QED BY <1>2, <1>6, <3>1, DropinIsGone DEF InForce
    <2> QED BY <1>2, <1>3, <1>4, <1>6, <2>3, <2>4, AdvanceInv DEF StepDone
  <1> QED BY <1>1, <1>5, <1>6

(* Before its first step a command has done nothing.                        *)
LEMMA BeginInitInv == ASSUME InstallInv, BeginInit PROVE InstallInv'
  <1>1. /\ cmd' = [name |-> "init", at |-> 1, read |-> lines] /\ "dropin" \notin disk
        /\ UNCHANGED <<system, theirs, disk, key, block, lines, due, account, jobs, registered>>
    BY DEF BeginInit, Refused, Conflict, machine
  <1>2. OnSystem
    BY DEF InstallInv, MachineTyped
  <1>3. MachineTyped'
    BY <1>1, SameLists DEF InstallInv, MachineTyped
  <1>4. MachineIsSafe'
    BY <1>1 DEF InstallInv, MachineIsSafe, InstallIsSafe, LiveConfigIsBacked, RunningJobsAreRegistered,
                AdministratorKeeps
  <1>5. CommandTyped'
    <2>1. 1 \in 1 .. Len(Steps("init"))
      BY <1>2, InitLength
    <2>2. cmd' \in Commands
      BY <1>1 DEF InstallInv, MachineTyped, Commands
    <2> QED BY <1>1, <2>1, <2>2, SameLists
            DEF CommandTyped, InstallInv, MachineIsSafe, InstallIsSafe, AdministratorKeeps
  <1>6. InitSoFar(1)'
    <2>1. /\ ~(1 > KeyAt) /\ ~(1 > ConfigAt) /\ ~(1 > RefreshAt) /\ ~(1 > BastionAt) /\ ~(1 > DropinAt)
      BY <1>2, Positions
    <2> QED BY <1>1, <2>1, SameLists DEF InitSoFar
  <1>7. Progress'
    BY <1>1, <1>6 DEF Progress, NoCommand
  <1> QED BY <1>3, <1>4, <1>5, <1>7 DEF InstallInv

LEMMA BeginUninitInv == ASSUME InstallInv, BeginUninit PROVE InstallInv'
  <1>1. /\ cmd' = [name |-> "uninit", at |-> 1, read |-> {}]
        /\ UNCHANGED <<system, theirs, disk, key, block, lines, due, account, jobs, registered>>
    BY DEF BeginUninit, machine
  <1>2. OnSystem
    BY DEF InstallInv, MachineTyped
  <1>3. MachineTyped'
    BY <1>1, SameLists DEF InstallInv, MachineTyped
  <1>4. MachineIsSafe'
    BY <1>1 DEF InstallInv, MachineIsSafe, InstallIsSafe, LiveConfigIsBacked, RunningJobsAreRegistered,
                AdministratorKeeps
  <1>5. CommandTyped'
    <2>1. 1 \in 1 .. Len(Steps("uninit"))
      BY <1>2, UninitTakesAll DEF Fits
    <2>2. cmd' \in Commands
      BY <1>1 DEF Commands
    <2> QED BY <1>1, <2>1, <2>2, SameLists DEF CommandTyped
  <1>6. UninitSoFar(1)'
    <2>1. ~(1 > DeletesAccountAt) /\ (1 > StripAt => system = "macos")
      BY <1>2 DEF OnSystem, At, DeletesAccountAt, StripAt
    <2>2. 1 > StripAt => ~block
      BY <2>1 DEF InstallInv, MachineIsSafe
    <2> QED BY <1>1, <2>1, <2>2, SameLists DEF UninitSoFar
  <1>7. Progress'
    BY <1>1, <1>6 DEF Progress, NoCommand
  <1> QED BY <1>3, <1>4, <1>5, <1>7 DEF InstallInv

LEMMA RefuseInitInv == ASSUME InstallInv, RefuseInit PROVE InstallInv'
  <1>1. /\ last' = "refused" /\ cmd = NoCommand
        /\ UNCHANGED <<system, theirs, disk, key, block, lines, due, account, jobs, registered, cmd>>
    BY DEF RefuseInit, machine
  <1>2. MachineTyped' /\ MachineIsSafe'
    BY <1>1, SameLists DEF InstallInv, MachineTyped, MachineIsSafe, InstallIsSafe, LiveConfigIsBacked,
                           RunningJobsAreRegistered, AdministratorKeeps
  <1> QED BY <1>1, <1>2 DEF InstallInv, CommandTyped, Commands, Progress, NoCommand

(* What happens on the machine while the command, if any, is between steps. *)
LEMMA BetweenSteps ==
    ASSUME InstallInv, UNCHANGED <<system, cmd>>, due' = due \/ cmd.name # "init"
    PROVE  CommandTyped'
  BY SameLists DEF InstallInv, CommandTyped, Commands, NoCommand

(* The network starts the refresh job, also under uninit. *)
LEMMA StartRefreshInv == ASSUME InstallInv, StartRefresh PROVE InstallInv'
  <1>1. /\ refresher' = "running" /\ "dispatcher" \in disk /\ cmd.name # "init"
        /\ raced' = (cmd.name = "uninit" /\ cmd.at > 1)
        /\ UNCHANGED <<system, theirs, disk, key, block, lines, due, account, jobs, registered, cmd, last>>
    BY DEF StartRefresh, machine, server
  <1>2. MachineTyped' /\ MachineIsSafe'
    BY <1>1, SameLists DEF InstallInv, MachineTyped, MachineIsSafe, InstallIsSafe, LiveConfigIsBacked,
                           RunningJobsAreRegistered, AdministratorKeeps
  <1>3. ~(last = "uninit" /\ cmd = NoCommand)
    BY <1>1 DEF InstallInv, Progress, UninitMakesRoom, Leftover
  <1>4. ASSUME cmd.name = "uninit" PROVE UninitSoFar(cmd.at)'
    <2>1. PICK k : k = cmd.at
      OBVIOUS
    <2>2. /\ OnSystem /\ k \in 1 .. Len(Steps("uninit")) /\ k \in Nat /\ UninitSoFar(k)
      BY <1>4, <2>1, AtUninit
    <2>3. CASE k = 1
      BY <1>1, <2>1, <2>2, <2>3, SameLists DEF UninitSoFar
    <2>4. CASE k > 1
      <3>1. RacedFiles \subseteq RacedFiles'
        BY <1>1, <1>4, <2>1, <2>4 DEF RacedFiles
      <3> QED BY <1>1, <1>4, <2>1, <2>2, <2>4, <3>1, SameLists DEF UninitSoFar
    <2> QED BY <2>2, <2>3, <2>4
  <1> QED BY <1>1, <1>2, <1>3, <1>4, BetweenSteps DEF InstallInv, Progress

(* What that job writes is what uninit may leave. *)
LEMMA RunRefreshInv == ASSUME InstallInv, RunRefresh PROVE InstallInv'
  <1>1. /\ disk \subseteq disk' /\ disk' \subseteq disk \cup {"certs", "ca"}
        /\ refresher # "idle"
        /\ UNCHANGED <<system, sound, theirs, key, block, lines, due, account, jobs, loaded, raced, registered,
                       cmd, last>>
    BY DEF RunRefresh, server
  <1>2. MachineTyped'
    BY <1>1, SameLists DEF InstallInv, MachineTyped, Known
  <1>3. MachineIsSafe'
    BY <1>1 DEF InstallInv, MachineIsSafe, InstallIsSafe, LiveConfigIsBacked, RunningJobsAreRegistered,
                AdministratorKeeps
  <1>4. ASSUME cmd.name = "init" PROVE InitSoFar(cmd.at)'
    <2>1. PICK k : k = cmd.at
      OBVIOUS
    <2>2. InitSoFar(k)
      BY <1>4, <2>1, AtInit
    <2> QED BY <1>1, <2>1, <2>2, SameLists DEF InitSoFar
  <1>5. ASSUME cmd.name = "uninit" PROVE UninitSoFar(cmd.at)'
    <2>1. PICK k : k = cmd.at
      OBVIOUS
    <2>2. OnSystem /\ k \in 1 .. Len(Steps("uninit")) /\ k \in Nat /\ UninitSoFar(k)
      BY <1>5, <2>1, AtUninit
    <2>3. k > 1 => RacedFiles = {"certs", "ca"}
      BY <1>1, <2>2 DEF UninitSoFar, RacedFiles
    <2>4. RacedFiles' = RacedFiles
      BY <1>1 DEF RacedFiles
    <2>5. \A j \in 1 .. k - 1 :
             /\ Steps("uninit")[j][1] = "drop" => disk' \cap Steps("uninit")[j][2] \subseteq RacedFiles'
             /\ Steps("uninit")[j][1] = "stop" => jobs' \cap Steps("uninit")[j][2] = {}
      BY <1>1, <2>2, <2>3, <2>4 DEF UninitSoFar
    <2>6. /\ k > StripAt => ~block'
          /\ k > DeletesAccountAt => account' # "ours"
          /\ k > 1 /\ refresher' # "idle" => raced'
      BY <1>1, <2>2 DEF UninitSoFar
    <2> QED BY <1>1, <2>1, <2>5, <2>6, SameLists DEF UninitSoFar
  <1>6. ASSUME last = "uninit", cmd = NoCommand PROVE UninitMakesRoom' /\ raced'
    <2>1. UninitMakesRoom /\ raced
      BY <1>1, <1>6 DEF InstallInv, Progress
    <2> QED BY <1>1, <1>6, <2>1
            DEF UninitMakesRoom, Leftover, Serving, InForce, Refused, Conflict, BlockPresent, NotOurUser,
                NotOurAccount, UnsafePf, UnsafeAcl
  <1> QED BY <1>1, <1>2, <1>3, <1>4, <1>5, <1>6, BetweenSteps DEF InstallInv, Progress

LEMMA RebootInv == ASSUME InstallInv, Reboot PROVE InstallInv'
  <1>1. /\ cmd = NoCommand /\ loaded' = InForce /\ refresher' = "idle"
        /\ UNCHANGED <<system, sound, theirs, disk, key, block, lines, due, account, jobs, raced, registered,
                       cmd, last>>
    BY DEF Reboot, server
  <1>2. MachineTyped' /\ MachineIsSafe'
    BY <1>1, SameLists DEF InstallInv, MachineTyped, MachineIsSafe, InstallIsSafe, LiveConfigIsBacked,
                           RunningJobsAreRegistered, AdministratorKeeps
  <1>3. ASSUME last = "uninit" PROVE UninitMakesRoom'
    <2>1. UninitMakesRoom
      BY <1>1, <1>3 DEF InstallInv, Progress
    <2>2. "dropin" \notin disk
      BY <1>1, <1>3, <2>1 DEF UninitMakesRoom, Leftover
    <2> QED BY <1>1, <1>3, <2>1, <2>2
            DEF UninitMakesRoom, Leftover, Serving, InForce, Refused, Conflict, BlockPresent, NotOurUser,
                NotOurAccount, UnsafePf, UnsafeAcl
  <1> QED BY <1>1, <1>2, <1>3, BetweenSteps DEF InstallInv, Progress, NoCommand

LEMMA InviteInv == ASSUME InstallInv, Invite PROVE InstallInv'
  <1>1. /\ cmd = NoCommand
        /\ UNCHANGED <<system, sound, theirs, disk, key, block, lines, due, account, jobs, loaded, refresher,
                       raced, registered, cmd, last>>
    BY DEF Invite, machine
  <1>2. MachineTyped' /\ MachineIsSafe'
    BY <1>1, SameLists DEF InstallInv, MachineTyped, MachineIsSafe, InstallIsSafe, LiveConfigIsBacked,
                           RunningJobsAreRegistered, AdministratorKeeps
  <1>3. UninitMakesRoom' <=> UninitMakesRoom
    BY <1>1 DEF UninitMakesRoom, Leftover, Serving, InForce, Refused, Conflict, BlockPresent, NotOurUser,
                NotOurAccount, UnsafePf, UnsafeAcl
  <1> QED BY <1>1, <1>2, <1>3, BetweenSteps DEF InstallInv, Progress, NoCommand

(* A line that is added while init runs is not promised to stay. *)
LEMMA EditInv == ASSUME InstallInv, NEW l \in Lines, Edit(l) PROVE InstallInv'
  <1>1. /\ lines' = lines \cup {l}
        /\ due' = IF cmd.name = "init" THEN due ELSE due \cup {l}
        /\ UNCHANGED <<system, sound, theirs, disk, key, block, account, jobs, loaded, refresher,
                       raced, registered, cmd, last>>
    BY DEF Edit, server
  <1>2. MachineTyped' /\ MachineIsSafe'
    BY <1>1, SameLists DEF InstallInv, MachineTyped, MachineIsSafe, InstallIsSafe, LiveConfigIsBacked,
                           RunningJobsAreRegistered, AdministratorKeeps
  <1>3. UninitMakesRoom' <=> UninitMakesRoom
    BY <1>1 DEF UninitMakesRoom, Leftover, Serving, InForce, Refused, Conflict, BlockPresent, NotOurUser,
                NotOurAccount, UnsafePf, UnsafeAcl
  <1>4. /\ cmd.name = "init" => InitSoFar(cmd.at)'
        /\ cmd.name = "uninit" => UninitSoFar(cmd.at)'
    <2>1. RacedFiles' = RacedFiles
      BY <1>1 DEF RacedFiles
    <2> QED BY <1>1, <2>1, SameLists DEF InstallInv, Progress, InitSoFar, UninitSoFar
  <1> QED BY <1>1, <1>2, <1>3, <1>4, BetweenSteps DEF InstallInv, Progress

(* The command stops before a step. *)
LEMMA BreakInv == ASSUME InstallInv, Break PROVE InstallInv'
  <1>1. /\ GiveUp
        /\ UNCHANGED <<system, theirs, disk, key, block, lines, due, account, jobs, registered>>
    BY DEF Break, machine, server
  <1>2. MachineTyped' /\ MachineIsSafe'
    BY <1>1, SameLists DEF InstallInv, MachineTyped, MachineIsSafe, InstallIsSafe, LiveConfigIsBacked,
                           RunningJobsAreRegistered, AdministratorKeeps
  <1> QED BY <1>1, <1>2, GiveUpInv

LEMMA InstallStutters == ASSUME InstallInv, UNCHANGED installVars PROVE InstallInv'
  <1>1. UNCHANGED <<system, sound, theirs, disk, key, block, lines, due, account, jobs, loaded, refresher,
                    raced, registered, cmd, last>>
    BY DEF installVars
  <1>2. MachineTyped' /\ MachineIsSafe'
    BY <1>1, SameLists DEF InstallInv, MachineTyped, MachineIsSafe, InstallIsSafe, LiveConfigIsBacked,
                           RunningJobsAreRegistered, AdministratorKeeps
  <1>3. UninitMakesRoom' <=> UninitMakesRoom
    BY <1>1 DEF UninitMakesRoom, Leftover, Serving, InForce, Refused, Conflict, BlockPresent, NotOurUser,
                NotOurAccount, UnsafePf, UnsafeAcl
  <1>4. /\ cmd.name = "init" => InitSoFar(cmd.at)'
        /\ cmd.name = "uninit" => UninitSoFar(cmd.at)'
    <2>1. RacedFiles' = RacedFiles
      BY <1>1 DEF RacedFiles
    <2> QED BY <1>1, <2>1, SameLists DEF InstallInv, Progress, InitSoFar, UninitSoFar
  <1> QED BY <1>1, <1>2, <1>3, <1>4, BetweenSteps DEF InstallInv, Progress

(* Any step of the command. *)
LEMMA InstallStepInv == ASSUME InstallInv, Step PROVE InstallInv'
  <1>1. CASE PutOrDrop
    BY <1>1, PutInv, DropInv DEF Step, PutOrDrop
  <1>2. CASE StartOrStop
    BY <1>2, StartInv, StopInv DEF Step, StartOrStop
  <1>3. CASE NewKey \/ Accept \/ Refresh
    BY <1>3, NewKeyInv, AcceptInv, RefreshInv DEF Step
  <1>4. CASE CreateAccount \/ Mark \/ DeleteAccount
    BY <1>4, CreateAccountInv, MarkInv, DeleteAccountInv DEF Step
  <1>5. CASE AddBlock \/ EnableInclude \/ StripBlock \/ Load \/ Break
    BY <1>5, AddBlockInv, EnableIncludeInv, StripBlockInv, LoadInv, BreakInv DEF Step
  <1> QED BY <1>1, <1>2, <1>3, <1>4, <1>5 DEF Step

LEMMA InstallBegins == InstallInit => InstallInv
  <1> SUFFICES ASSUME InstallInit PROVE InstallInv
    OBVIOUS
  <1>1. MachineTyped /\ MachineIsSafe /\ CommandTyped /\ Progress
    BY InstallAssumption
    DEF InstallInit, MachineTyped, OnSystem, MachineIsSafe, InstallIsSafe, LiveConfigIsBacked,
        RunningJobsAreRegistered, AdministratorKeeps, CommandTyped, Commands, NoCommand, Progress
  <1> QED BY <1>1 DEF InstallInv

LEMMA InstallGoesOn == ASSUME ~FollowAdvice, InstallInv, [InstallNext]_installVars PROVE InstallInv'
  <1>1. CASE BeginInit \/ RefuseInit \/ BeginUninit
    BY <1>1, BeginInitInv, RefuseInitInv, BeginUninitInv
  <1>2. CASE Step
    BY <1>2, InstallStepInv
  <1>3. CASE StartRefresh \/ RunRefresh \/ Reboot \/ Invite
    BY <1>3, StartRefreshInv, RunRefreshInv, RebootInv, InviteInv
  <1>4. ASSUME NEW l \in Lines, Edit(l) PROVE InstallInv'
    BY <1>4, EditInv
  <1>5. CASE UNCHANGED installVars
    BY <1>5, InstallStutters
  <1>6. ~Advised
    BY DEF Advised
  <1> QED BY <1>1, <1>2, <1>3, <1>4, <1>5, <1>6 DEF InstallNext

(* As long as nobody removes by hand what a refused init names, host-init   *)
(* and host-uninit leave a machine that can be set up again, whatever their *)
(* order is and wherever they fail or are killed.                           *)
THEOREM InitAndUninitMakeRoom == ~FollowAdvice => (InstallSpec => []InitAndUninitAreSafe)
  <1> SUFFICES ASSUME ~FollowAdvice PROVE InstallSpec => []InitAndUninitAreSafe
    OBVIOUS
  <1>1. InstallInit => InstallInv
    BY InstallBegins
  <1>2. InstallInv /\ [InstallNext]_installVars => InstallInv'
    BY InstallGoesOn
  <1>3. InstallInv => InitAndUninitAreSafe
    BY DEF InstallInv, MachineIsSafe, Progress, InitAndUninitAreSafe, UninitMakesRoom
  <1> QED BY <1>1, <1>2, <1>3, PTL DEF InstallSpec

-----------------------------------------------------------------------------
(* The tunnels of a relay. *)

TunnelShapes ==
    /\ now \in Nat /\ seen \subseteq Tokens
    /\ fails \in Nat /\ drops \in Nat
    /\ step \in [Tokens -> {"none", "accepted", "pumping", "closing", "done"}]
    /\ start \in [Tokens -> {"none", "sent", "over"}]
    /\ live \in [Tokens -> {"none", "open", "ended"}]
    /\ opened \in [Tokens -> {0, 1}]

(* A token that opened a tunnel is remembered as long as it is valid, and   *)
(* one that did not has left no trace.                                      *)
OpenedAreSeen ==
    \A t \in Tokens :
        /\ opened[t] = 1 => t \in seen \/ Exp[t] <= now
        /\ opened[t] = 0 => step[t] = "none" /\ start[t] = "none" /\ live[t] = "none"

(* How far the reports of a tunnel are, as long as all of them get through. *)
ReportsInOrder ==
    fails = 0 /\ drops = 0 =>
        \A t \in Tokens :
            /\ step[t] \in {"none", "accepted"} => start[t] = "none"
            /\ step[t] \in {"pumping", "closing"} => start[t] # "none"
            /\ start[t] # "over" => live[t] = "none"
            /\ start[t] = "sent" => step[t] \in {"pumping", "closing"}
            /\ start[t] = "over" /\ step[t] # "done" => live[t] = "open"
            /\ start[t] = "over" /\ step[t] = "done" => live[t] = "ended"

TunnelsInv == TunnelShapes /\ OpenedAreSeen /\ ReportsInOrder

(* A token is accepted once. *)
LEMMA PresentInv == ASSUME TunnelsInv, NEW t \in Tokens, Present(t) PROVE TunnelsInv'
  <1>1. /\ UNCHANGED <<now, start, live, fails, drops>>
        /\ \A u \in seen : u \in seen' \/ Exp[u] <= now
    BY TunnelsAssumption DEF Present, Swept, TunnelsInv, TunnelShapes
  <1>2. CASE Verified(t)
    <2>1. /\ step' = [step EXCEPT ![t] = "accepted"]
          /\ opened' = [opened EXCEPT ![t] = @ + 1]
          /\ t \in seen' /\ seen' \subseteq Tokens
      BY <1>2 DEF Present, Swept, TunnelsInv, TunnelShapes
    <2>2. opened[t] = 0
      BY <1>2, TunnelsAssumption DEF Verified, Swept, TunnelsInv, TunnelShapes, OpenedAreSeen
    <2>3. TunnelShapes'
      BY <1>1, <2>1, <2>2 DEF TunnelsInv, TunnelShapes
    <2>4. OpenedAreSeen'
      BY <1>1, <2>1, <2>2 DEF TunnelsInv, TunnelShapes, OpenedAreSeen
    <2>5. ReportsInOrder'
      BY <1>1, <2>1, <2>2 DEF TunnelsInv, TunnelShapes, OpenedAreSeen, ReportsInOrder
    <2> QED BY <2>3, <2>4, <2>5 DEF TunnelsInv
  <1>3. CASE ~Verified(t)
    <2>1. UNCHANGED <<step, opened>> /\ seen' \subseteq Tokens
      BY <1>3 DEF Present, Swept, TunnelsInv, TunnelShapes
    <2> QED BY <1>1, <2>1 DEF TunnelsInv, TunnelShapes, OpenedAreSeen, ReportsInOrder
  <1> QED BY <1>2, <1>3

(* A tunnel goes on: it has a token that was accepted.                      *)
LEMMA TaskStepInv == ASSUME TunnelsInv, NEW t \in Tokens, TaskStep(t) PROVE TunnelsInv'
  <1>1. /\ UNCHANGED <<now, seen, drops, opened>>
        /\ \A u \in Tokens \ {t} : step'[u] = step[u] /\ start'[u] = start[u] /\ live'[u] = live[u]
        /\ fails' \in {fails, fails + 1}
    BY DEF TaskStep, Connected, NotConnected, CloseTunnel, StartReported, EndReported, TunnelsInv, TunnelShapes
  <1>2. opened[t] = 1
    BY DEF TaskStep, Connected, NotConnected, CloseTunnel, StartReported, EndReported, TunnelsInv, TunnelShapes,
           OpenedAreSeen
  <1>3. TunnelShapes'
    BY <1>1 DEF TaskStep, Connected, NotConnected, CloseTunnel, StartReported, EndReported, TunnelsInv,
                TunnelShapes
  <1>4. OpenedAreSeen'
    BY <1>1, <1>2 DEF TunnelsInv, TunnelShapes, OpenedAreSeen
  <1>5. ReportsInOrder'
    <2> SUFFICES ASSUME fails' = 0, drops = 0, NEW u \in Tokens
                 PROVE  /\ step'[u] \in {"none", "accepted"} => start'[u] = "none"
                        /\ step'[u] \in {"pumping", "closing"} => start'[u] # "none"
                        /\ start'[u] # "over" => live'[u] = "none"
                        /\ start'[u] = "sent" => step'[u] \in {"pumping", "closing"}
                        /\ start'[u] = "over" /\ step'[u] # "done" => live'[u] = "open"
                        /\ start'[u] = "over" /\ step'[u] = "done" => live'[u] = "ended"
      BY <1>1 DEF ReportsInOrder
    <2>1. fails = 0
      BY <1>1 DEF TunnelsInv, TunnelShapes
    <2>2. CASE u # t
      BY <1>1, <2>1, <2>2 DEF TunnelsInv, ReportsInOrder
    <2>3. CASE u = t
      <3>1. CASE Connected(t)
        BY <2>1, <2>3, <3>1 DEF Connected, TunnelsInv, TunnelShapes, ReportsInOrder
      <3>2. CASE NotConnected(t)
        BY <2>1, <2>3, <3>2 DEF NotConnected, TunnelsInv, TunnelShapes, ReportsInOrder
      <3>3. CASE CloseTunnel(t)
        BY <2>1, <2>3, <3>3 DEF CloseTunnel, TunnelsInv, TunnelShapes, ReportsInOrder
      <3>4. CASE StartReported(t)
        BY <2>1, <2>3, <3>4 DEF StartReported, TunnelsInv, TunnelShapes, ReportsInOrder
      <3>5. CASE EndReported(t)
        BY <2>1, <2>3, <3>5 DEF EndReported, MayReportEnd, TunnelsInv, TunnelShapes, ReportsInOrder
      <3> QED BY <3>1, <3>2, <3>3, <3>4, <3>5 DEF TaskStep
    <2> QED BY <2>2, <2>3
  <1> QED BY <1>3, <1>4, <1>5 DEF TunnelsInv

(* A link that drops ends the promise of reports. *)
LEMMA LinkDropsInv == ASSUME TunnelsInv, LinkDrops PROVE TunnelsInv'
  <1>1. /\ UNCHANGED <<now, seen, start, live, opened, fails>> /\ drops' = drops + 1
        /\ step' = [t \in Tokens |-> IF step[t] \in {"accepted", "closing"} THEN "done" ELSE step[t]]
    BY DEF LinkDrops
  <1> QED BY <1>1 DEF TunnelsInv, TunnelShapes, OpenedAreSeen, ReportsInOrder

(* All else leaves the tunnels where they are; time makes tokens expire.    *)
LEMMA TunnelsGoOn == TunnelsInv /\ [TunnelsNext]_tunnelVars => TunnelsInv'
  <1> SUFFICES ASSUME TunnelsInv, [TunnelsNext]_tunnelVars PROVE TunnelsInv'
    OBVIOUS
  <1>1. ASSUME NEW t \in Tokens, TaskStep(t) \/ Present(t) PROVE TunnelsInv'
    BY <1>1, TaskStepInv, PresentInv
  <1>2. CASE LinkDrops
    BY <1>2, LinkDropsInv
  <1>3. ASSUME now' \in {now, now + 1}, UNCHANGED <<seen, step, start, live, opened, fails, drops>>
        PROVE TunnelsInv'
    BY <1>3, TunnelsAssumption DEF TunnelsInv, TunnelShapes, OpenedAreSeen, ReportsInOrder
  <1>4. ASSUME NEW t \in Tokens, VisitorCloses(t) \/ SshdCloses(t) PROVE TunnelsInv'
    BY <1>3, <1>4 DEF VisitorCloses, SshdCloses
  <1>5. ASSUME NEW c \in Connections, Terminate(c) \/ Reap(c) PROVE TunnelsInv'
    BY <1>3, <1>5 DEF Terminate, Reap
  <1>6. CASE LinkReturns \/ Tick \/ UNCHANGED tunnelVars
    BY <1>3, <1>6 DEF LinkReturns, Tick, tunnelVars
  <1> QED BY <1>1, <1>2, <1>4, <1>5, <1>6 DEF TunnelsNext

-----------------------------------------------------------------------------
(* The registrar. *)

CallStates == {"none", "sent", "renews", "again"}

RegistrarShapes ==
    /\ active \in [Bastions -> Clients \cup {Absent}]
    /\ of \in [Clients -> Bastions \cup {Absent}]
    /\ cancelled \subseteq ClientTasks
    /\ call \in [Callers -> CallStates]

(* A bastion has one client, which active_tasks has unless it was cancelled. *)
OneClientEach ==
    /\ \A i, j \in ClientTasks : of[i] = of[j] => i = j
    /\ \A i \in ClientTasks : active[of[i]] = i \/ (active[of[i]] = Absent /\ i \in cancelled)
    /\ \A b \in Bastions : active[b] # Absent => of[active[b]] = b

(* The registrar asks again when those that it cancelled have ended.        *)
EndedBeforeAsked ==
    /\ call[Registrar] # "none" => main = "asks"
    /\ main \in {"asks", "applies"} => cancelled = {}

RegistrarInv == RegistrarShapes /\ OneClientEach /\ EndedBeforeAsked

(* No client of a bastion is left when a new one starts. *)
LEMMA ApplyInv == ASSUME RegistrarInv, Apply PROVE RegistrarInv'
  <1>1. cancelled = {} /\ \A i \in ClientTasks : active[of[i]] = i
    BY DEF RegistrarInv, OneClientEach, EndedBeforeAsked, Apply
  <1>2. PICK new \in [NewClients -> Clients \ ClientTasks] :
          /\ \A b, d \in NewClients : b # d => new[b] # new[d]
          /\ active' = [b \in Bastions |->
                IF b \in NewClients THEN new[b] ELSE IF b \in reply THEN active[b] ELSE Absent]
          /\ of' = [i \in Clients |->
                IF \E b \in NewClients : new[b] = i THEN CHOOSE b \in NewClients : new[b] = i ELSE of[i]]
          /\ call' = [p \in Callers |-> IF \E b \in NewClients : new[b] = p THEN "sent" ELSE call[p]]
    BY DEF Apply
  <1>3. cancelled' = Dropped(Bastions \ reply) /\ main' = "waits" /\ main = "applies"
    BY <1>1 DEF Apply
  <1>4. /\ NewClients \subseteq Bastions
        /\ \A b \in NewClients : b \in reply /\ active[b] = Absent
        /\ \A b \in NewClients : new[b] \in Clients /\ new[b] \notin ClientTasks
    BY <1>2 DEF NewClients, NeedsClient
  <1>5. \A b \in NewClients : of'[new[b]] = b
    <2> TAKE b \in NewClients
    <2>1. \A d \in NewClients : new[d] = new[b] => d = b
      BY <1>2
    <2>2. new[b] \in Clients
      BY <1>4
    <2>3. of'[new[b]] = CHOOSE d \in NewClients : new[d] = new[b]
      BY <1>2, <2>2
    <2> QED BY <2>1, <2>3
  <1>6. \A i \in Clients : (\A b \in NewClients : new[b] # i) => of'[i] = of[i]
    BY <1>2
  <1>7. \A i \in ClientTasks : of'[i] = of[i]
    BY <1>4, <1>6 DEF ClientTasks
  <1>8. ClientTasks' = ClientTasks \cup {new[b] : b \in NewClients}
    BY <1>4, <1>5, <1>6, <1>7, RegistrarAssumption DEF ClientTasks
  <1>9. \A b \in Bastions :
           /\ b \in NewClients => active'[b] = new[b]
           /\ b \notin NewClients /\ b \in reply => active'[b] = active[b]
           /\ b \notin reply => active'[b] = Absent
    BY <1>2, <1>4
  <1>10. \A i \in ClientTasks :
            active'[of[i]] = i \/ (active'[of[i]] = Absent /\ i \in cancelled')
    <2> TAKE i \in ClientTasks
    <2>1. of[i] \in Bastions /\ active[of[i]] = i /\ i # Absent
      BY <1>1, RegistrarAssumption DEF ClientTasks, RegistrarInv, RegistrarShapes
    <2>2. of[i] \notin NewClients
      BY <1>4, <2>1
    <2> QED BY <1>3, <1>9, <2>1, <2>2 DEF Dropped
  <1>11. RegistrarShapes'
    <2>1. of' \in [Clients -> Bastions \cup {Absent}]
      BY <1>2, <1>4, <1>5, <1>6 DEF RegistrarInv, RegistrarShapes
    <2>2. active' \in [Bastions -> Clients \cup {Absent}]
      BY <1>2, <1>4 DEF RegistrarInv, RegistrarShapes
    <2>3. call' \in [Callers -> CallStates]
      BY <1>2 DEF RegistrarInv, RegistrarShapes, CallStates
    <2>4. cancelled' \subseteq ClientTasks
      <3>1. \A b \in Bastions : active[b] # Absent => active[b] \in ClientTasks
        BY RegistrarAssumption DEF RegistrarInv, RegistrarShapes, OneClientEach, ClientTasks
      <3> QED BY <1>3, <3>1 DEF Dropped
    <2> QED BY <1>8, <2>1, <2>2, <2>3, <2>4 DEF RegistrarShapes
  <1>12. OneClientEach'
    <2>1. \A i \in ClientTasks' : active'[of'[i]] = i \/ (active'[of'[i]] = Absent /\ i \in cancelled')
      BY <1>4, <1>5, <1>7, <1>8, <1>9, <1>10
    <2>2. \A b \in Bastions : active'[b] # Absent => of'[active'[b]] = b
      <3> SUFFICES ASSUME NEW b \in Bastions, active'[b] # Absent PROVE of'[active'[b]] = b
        OBVIOUS
      <3>1. CASE b \in NewClients
        BY <1>5, <1>9, <3>1
      <3>2. CASE b \notin NewClients
        <4>1. active'[b] = active[b]
          BY <1>9, <3>2
        <4>2. of[active[b]] = b /\ active[b] \in ClientTasks
          BY <4>1, RegistrarAssumption DEF RegistrarInv, RegistrarShapes, OneClientEach, ClientTasks
        <4> QED BY <1>7, <4>1, <4>2
      <3> QED BY <3>1, <3>2
    <2>3. \A i, j \in ClientTasks' : of'[i] = of'[j] => i = j
      <3>1. \A i \in ClientTasks, b \in NewClients : of'[i] # b
        BY <1>1, <1>4, <1>7, RegistrarAssumption DEF ClientTasks
      <3> QED BY <1>5, <1>7, <1>8, <3>1 DEF RegistrarInv, OneClientEach
    <2> QED BY <2>1, <2>2, <2>3 DEF OneClientEach
  <1>13. EndedBeforeAsked'
    <2>1. Registrar \in Callers /\ \A b \in NewClients : new[b] # Registrar
      BY <1>4, RegistrarAssumption DEF Callers, Registrar
    <2> QED BY <1>2, <1>3, <2>1 DEF RegistrarInv, EndedBeforeAsked
  <1> QED BY <1>11, <1>12, <1>13 DEF RegistrarInv

(* A client that ends is the one that active_tasks has, or it has none. *)
LEMMA DoneInv == ASSUME RegistrarInv, NEW i \in Clients, Done(i) PROVE RegistrarInv'
  <1>1. /\ active' = [active EXCEPT ![of[i]] = Absent]
        /\ of' = [of EXCEPT ![i] = Absent]
        /\ cancelled' = cancelled \ {i}
        /\ UNCHANGED <<main, call>>
    BY DEF Done, sessionVars
  <1>2. ClientTasks' = ClientTasks \ {i}
    BY <1>1 DEF ClientTasks, RegistrarInv, RegistrarShapes
  <1>3. \A b \in Bastions : active'[b] = IF b = of[i] THEN Absent ELSE active[b]
    BY <1>1 DEF RegistrarInv, RegistrarShapes
  <1>4. \A j \in Clients : of'[j] = IF j = i THEN Absent ELSE of[j]
    BY <1>1 DEF RegistrarInv, RegistrarShapes
  <1>5. RegistrarShapes'
    BY <1>1, <1>2 DEF RegistrarInv, RegistrarShapes
  <1>6. OneClientEach'
    <2>1. \A j \in ClientTasks \ {i} : of[j] \in Bastions /\ of[j] # of[i]
      BY DEF RegistrarInv, RegistrarShapes, OneClientEach, ClientTasks
    <2>2. \A b \in Bastions : b # of[i] /\ active[b] # Absent => active[b] # i /\ active[b] \in Clients
      BY DEF RegistrarInv, RegistrarShapes, OneClientEach
    <2>3. \A j \in ClientTasks : j \in Clients
      BY DEF ClientTasks
    <2>4. \A j \in ClientTasks' : active'[of'[j]] = j \/ (active'[of'[j]] = Absent /\ j \in cancelled')
      BY <1>1, <1>2, <1>3, <1>4, <2>1, <2>3 DEF RegistrarInv, OneClientEach
    <2>5. \A b \in Bastions : active'[b] # Absent => of'[active'[b]] = b
      BY <1>3, <1>4, <2>2 DEF RegistrarInv, OneClientEach
    <2>6. \A j, k \in ClientTasks' : of'[j] = of'[k] => j = k
      BY <1>2, <1>4, <2>3 DEF RegistrarInv, OneClientEach
    <2> QED BY <2>4, <2>5, <2>6 DEF OneClientEach
  <1>7. EndedBeforeAsked'
    BY <1>1 DEF RegistrarInv, EndedBeforeAsked
  <1> QED BY <1>5, <1>6, <1>7 DEF RegistrarInv

(* The clients stay as they are, and some may be cancelled.                 *)
LEMMA SameClients ==
    ASSUME RegistrarInv, UNCHANGED <<active, of>>,
           cancelled' \subseteq ClientTasks, cancelled \subseteq cancelled',
           call' \in [Callers -> CallStates], EndedBeforeAsked'
    PROVE  RegistrarInv'
  <1>1. ClientTasks' = ClientTasks
    BY DEF ClientTasks
  <1> QED BY <1>1 DEF RegistrarInv, RegistrarShapes, OneClientEach

(* The end of the registrar cancels clients, and it does not ask again.     *)
LEMMA ClosingInv == ASSUME RegistrarInv, Leave \/ Over PROVE RegistrarInv'
  <1>1. /\ UNCHANGED <<active, of, call>> /\ cancelled \subseteq cancelled'
        /\ main' \in {"closes", "over"} /\ main # "asks"
    BY DEF Leave, Over, sessionVars, RegistrarInv, RegistrarShapes
  <1>2. cancelled' \subseteq ClientTasks
    <2>1. \A b \in Bastions : active[b] # Absent => active[b] \in ClientTasks
      BY RegistrarAssumption DEF RegistrarInv, RegistrarShapes, OneClientEach, ClientTasks
    <2> QED BY <2>1 DEF Leave, Over, Dropped, RegistrarInv, RegistrarShapes
  <1>3. EndedBeforeAsked'
    BY <1>1 DEF RegistrarInv, EndedBeforeAsked
  <1> QED BY <1>1, <1>2, <1>3, SameClients DEF RegistrarInv, RegistrarShapes

(* A call of a client, or of the registrar while it asks.                   *)
LEMMA CallInv ==
    ASSUME RegistrarInv, NEW p \in Callers, Answered(p) \/ Renew(p) \/ CallFails(p) PROVE RegistrarInv'
  <1>1. /\ UNCHANGED <<active, of, cancelled>>
        /\ call[p] # "none" /\ \E v \in CallStates : call' = [call EXCEPT ![p] = v]
        /\ main' # main => p = Registrar /\ call'[p] = "none"
    BY DEF Answered, Renew, CallFails, Returns, registry, clientVars, RegistrarInv, RegistrarShapes, CallStates
  <1>2. call' \in [Callers -> CallStates]
    BY <1>1 DEF RegistrarInv, RegistrarShapes
  <1>3. EndedBeforeAsked'
    <2>1. Registrar \in Callers
      BY DEF Callers
    <2>2. main' # main => main' \in {"applies", "waits"}
      BY <1>1 DEF Answered, Renew, CallFails, Returns, registry
    <2> QED BY <1>1, <1>2, <2>1, <2>2 DEF RegistrarInv, RegistrarShapes, EndedBeforeAsked
  <1> QED BY <1>1, <1>2, <1>3, SameClients DEF RegistrarInv, RegistrarShapes

(* The registrar asks when no cancelled client is left. *)
LEMMA PollInv == ASSUME ~SlowClosing, RegistrarInv, Poll PROVE RegistrarInv'
  <1>1. /\ cancelled = {} /\ main' = "asks" /\ call' = [call EXCEPT ![Registrar] = "sent"]
        /\ UNCHANGED <<active, of, cancelled>>
    BY DEF Poll, clientVars
  <1> QED BY <1>1, SameClients DEF RegistrarInv, RegistrarShapes, EndedBeforeAsked, CallStates

(* A client calls the server again, or no more.                             *)
LEMMA ClientCallInv == ASSUME RegistrarInv, NEW i \in Clients, Retry(i) \/ Cancelled(i) PROVE RegistrarInv'
  <1>1. /\ UNCHANGED <<active, of, cancelled, main>>
        /\ \/ call' = call
           \/ \E v \in CallStates : call' = [call EXCEPT ![i] = v]
    BY DEF Retry, Cancelled, registry, CallStates
  <1>2. i # Registrar
    BY RegistrarAssumption DEF Registrar
  <1> QED BY <1>1, <1>2, SameClients DEF RegistrarInv, RegistrarShapes, EndedBeforeAsked, Callers

(* All steps of the registrar and its clients. *)
LEMMA RegistrarGoesOn ==
    ASSUME ~SlowClosing PROVE RegistrarInv /\ [RegistrarNext]_registrarVars => RegistrarInv'
  <1> SUFFICES ASSUME RegistrarInv, [RegistrarNext]_registrarVars PROVE RegistrarInv'
    OBVIOUS
  <1>1. ASSUME UNCHANGED <<active, of, cancelled, main, call>> PROVE RegistrarInv'
    BY <1>1, SameClients DEF RegistrarInv, RegistrarShapes, EndedBeforeAsked
  <1>2. CASE RegistrarStep
    <2>1. Registrar \in Callers
      BY DEF Callers
    <2> QED BY <1>2, <2>1, CallInv, ApplyInv, PollInv, ClosingInv DEF RegistrarStep
  <1>3. ASSUME NEW i \in Clients, ClientStep(i) \/ LinkBreaks(i) PROVE RegistrarInv'
    <2>1. i \in Callers
      BY DEF Callers
    <2>2. CASE Answered(i) \/ Renew(i)
      BY <2>1, <2>2, CallInv
    <2>3. CASE Retry(i) \/ Cancelled(i)
      BY <2>3, ClientCallInv
    <2>4. CASE Done(i)
      BY <2>4, DoneInv
    <2>5. CASE Connect(i) \/ Registered(i) \/ Unlink(i) \/ ConnOver(i) \/ LoopOver(i) \/ LinkBreaks(i)
      BY <1>1, <2>5 DEF Connect, Registered, Unlink, ConnOver, LoopOver, LinkBreaks, registry, sessionVars
    <2> QED BY <1>3, <2>2, <2>3, <2>4, <2>5 DEF ClientStep
  <1>4. ASSUME NEW p \in Callers, CallFails(p) PROVE RegistrarInv'
    BY <1>4, CallInv
  <1>5. ASSUME NEW b \in Bastions, BastionForgets(b) \/ Visit(b) \/ VisitorLeaves(b) PROVE RegistrarInv'
    BY <1>1, <1>5 DEF BastionForgets, Visit, VisitorLeaves, registry, clientVars, sessionVars
  <1>6. CASE Expire \/ HostNotices \/ Signal \/ Relist \/ UNCHANGED registrarVars
    BY <1>1, <1>6 DEF Expire, HostNotices, Signal, Relist, registry, clientVars, sessionVars, registrarVars
  <1> QED BY <1>2, <1>3, <1>4, <1>5, <1>6 DEF RegistrarNext

(* A token opens one tunnel, however often it is presented and whenever; an *)
(* end is reported for every start, unless a report failed or the link      *)
(* dropped; and a bastion has one client, which its registrar can cancel,   *)
(* as long as a cancelled client ends before the next poll.                 *)
THEOREM RelaysKeepTrack ==
    ~SlowClosing => (TunnelsSpec /\ RegistrarSpec => []TunnelsAndClientsAreTracked)
  <1> SUFFICES ASSUME ~SlowClosing PROVE TunnelsSpec /\ RegistrarSpec => []TunnelsAndClientsAreTracked
    OBVIOUS
  <1>1. TunnelsInit => TunnelsInv
    BY DEF TunnelsInit, TunnelsInv, TunnelShapes, OpenedAreSeen, ReportsInOrder
  <1>2. TunnelsInv /\ [TunnelsNext]_tunnelVars => TunnelsInv'
    BY TunnelsGoOn
  <1>3. RegistrarInit => RegistrarInv
    BY RegistrarAssumption
    DEF RegistrarInit, RegistrarInv, RegistrarShapes, OneClientEach, EndedBeforeAsked, ClientTasks, CallStates,
        Callers
  <1>4. RegistrarInv /\ [RegistrarNext]_registrarVars => RegistrarInv'
    BY RegistrarGoesOn
  <1>5. TunnelsInv /\ RegistrarInv => TunnelsAndClientsAreTracked
    <2>1. TunnelsInv => OneTunnelOneReport
      BY DEF TunnelsInv, TunnelShapes, ReportsInOrder, OneTunnelOneReport, TokenOpensOnce, EndFollowsStart
    <2>2. RegistrarInv => ClientsAreTracked
      BY DEF RegistrarInv, OneClientEach, ClientsAreTracked
    <2> QED BY <2>1, <2>2 DEF TunnelsAndClientsAreTracked
  <1> QED BY <1>1, <1>2, <1>3, <1>4, <1>5, PTL DEF TunnelsSpec, RegistrarSpec
=============================================================================
