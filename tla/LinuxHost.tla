----------------------------- MODULE LinuxHost -----------------------------
(***************************************************************************)
(* A Linux host and the registry of the server: the PAM hook, the timer    *)
(* and the reaper of PamSessions, which end the sessions of a connection,  *)
(* and the live events of LiveEvents, which report them.  The two have the *)
(* clocks in common, and the hook: each of its runs leaves an event.       *)
(***************************************************************************)
EXTENDS PamSessions

CONSTANTS MaxAge, MaxFailures

VARIABLES phase, spool, expired, pass, late, taken, rows, failures

Live == INSTANCE LiveEvents

hostVars == <<session, records, timer, request, orphan, asked, tick>>
liveVars == <<phase, spool, expired, pass, late, taken, rows, failures>>
allVars == <<clock, skew, hostVars, liveVars>>

HostInit == Init /\ Live!Init

(* The hook reports a start before it writes the record, and an end before *)
(* it removes it.                                                          *)
HookOpens(s) == Record(s) /\ Live!OpenSession(s)
HookCloses(s) == Close(s) /\ Live!CloseSession(s)

Time == Pass /\ Live!Tick

HostStep ==
    /\ \/ \E s \in Sessions : Login(s) \/ SetTimer(s) \/ Vanish(s)
       \/ TimerFires \/ Ask \/ ReaperStep
    /\ UNCHANGED liveVars

Forwarding == Live!ForwardStep /\ UNCHANGED hostVars

NetworkStep ==
    /\ Live!SetBack \/ \E e \in late : Live!ServeLate(e)
    /\ UNCHANGED hostVars

HostNext ==
    \/ \E s \in Sessions : HookOpens(s) \/ HookCloses(s)
    \/ HostStep \/ Forwarding \/ NetworkStep \/ Time

HostSpec == HostInit /\ [][HostNext]_allVars

-----------------------------------------------------------------------------
(* The live sessions that the server lists are those of the host, as far as *)
(* the events got through: no session is open that never was, one whose end *)
(* got through is closed, and once nothing is left to be forwarded the list *)
(* is right (live_events forward_pass, the live endpoint).                  *)
RegistryFollowsTheHost ==
    Live!RegistryIsTrue /\ Live!EndClosesTheSession /\ Live!SettledRegistryIsRight
=============================================================================
