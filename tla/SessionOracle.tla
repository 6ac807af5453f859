--------------------------- MODULE SessionOracle ---------------------------
(***************************************************************************)
(* The oracles that hold session keys and the pf commands that use them.   *)
(* A login generates a key, starts an oracle that holds it at a name made  *)
(* of the process it was run from (a socket on POSIX, a pipe on Windows),  *)
(* has the server accept the key and writes its fingerprint to the         *)
(* context.  A command finds the name of the nearest process above it that *)
(* has one, asks for the list of keys and, at the same name, for a         *)
(* signature.  An oracle serves one connection at a time and ends when its *)
(* time is over or its anchor is gone; on Windows also when a newer login  *)
(* asks for its name.  One tenant: each tenant has names of its own.       *)
(***************************************************************************)
EXTENDS Integers, Sequences, SequencesExt, FiniteSetsExt

CONSTANTS
    Processes, Line, Launchers, Logons,  \* the process tree, see below
    Mortal,         \* the processes that may exit
    Contexts, Commands, Keys,
    TTL,            \* life of an oracle
    MaxAncestors,   \* processes a search goes up
    Platforms, MaxClock, None

Listening == {"starting", "serving"}   \* states of an oracle

\* Line[p] is p and the processes above it, nearest first.  Logons: what
\* the kernel may say of their logins, audit session and terminal or logon SID.
ASSUME TreeAssumption ==
    /\ \A p \in Processes : Line[p] \in Seq(Processes) \ {<<>>} /\ Head(Line[p]) = p
    /\ Logons \subseteq [Processes -> Nat] /\ Mortal \subseteq Processes
    /\ {TTL, MaxAncestors, MaxClock} \subseteq Nat \ {0}
    /\ Platforms \subseteq {"posix", "windows"}
    /\ None \notin Keys /\ None \notin Commands /\ None \notin Listening \cup {"ended"}

VARIABLES
    platform,   \* of the machine
    logon,      \* the login of each process
    alive,      \* the processes that run
    oracle,     \* Keys -> its oracle: state, anchor, deadline, the peer it
                \* serves; told: history, a login asked it for its name
    place,      \* Processes -> the oracle whose socket or pipe has its name
    event,      \* Processes -> the new-login event of that name (Windows)
    config,     \* Contexts -> session_key_fingerprint
    command,    \* Commands -> a running pf
    latest,     \* history: Processes -> the last oracle started for it
    clock

vars == <<platform, logon, alive, oracle, place, event, config, command, latest, clock>>

Windows == platform = "windows"
NoOracle == [state |-> None, anchor |-> None, deadline |-> 0, peer |-> None,
             told |-> FALSE]
NoCommand == [pc |-> "idle", kind |-> "use", by |-> None, ctx |-> None,
              key |-> None, at |-> None, conn |-> None]
Ended == [NoOracle EXCEPT !.state = "ended"]
TypeOK ==
    /\ platform \in Platforms /\ logon \in Logons /\ alive \subseteq Processes /\ clock \in 0..MaxClock
    /\ oracle \in [Keys -> [state : {None, "ended"} \cup Listening,
                            anchor : Processes \cup {None}, deadline : 0..MaxClock + TTL,
                            peer : Commands \cup {None}, told : BOOLEAN]]
    /\ place \in [Processes -> Keys \cup {None}]
    /\ event \in [Processes -> {"absent", "unset", "set"}]
    /\ config \in [Contexts -> Keys \cup {None}]
    /\ latest \in [Processes -> Keys \cup {None}]
    /\ command \in [Commands ->
           [pc : {"idle", "start", "wait", "post", "find", "list", "sign"},
            kind : {"http_sig", "oidc", "use"}, by : Processes \cup {None},
            ctx : Contexts \cup {None}, key : Keys \cup {None},
            at : Processes \cup {None}, conn : Keys \cup {None}]]

Init ==
    /\ platform \in Platforms /\ logon \in Logons /\ alive = Processes /\ clock = 0
    /\ oracle = [k \in Keys |-> NoOracle]
    /\ place = [p \in Processes |-> None] /\ latest = [p \in Processes |-> None]
    /\ event = [p \in Processes |-> "absent"]
    /\ config = [x \in Contexts |-> None]
    /\ command = [c \in Commands |-> NoCommand]

-----------------------------------------------------------------------------
(* The process tree.                                                       *)

\* A process that is gone takes the trail with it: its children hang from
\* init, or show a pid that is nobody's or a younger process's.
Trail(p) ==
    LET n == Max({i \in 0..Len(Line[p]) : \A j \in 1..i : Line[p][j] \in alive})
    IN  SubSeq(Line[p], 1, n)

Ancestors(p) == SubSeq(Trail(p), 1, Min({MaxAncestors, Len(Trail(p))}))

IsDescendantOf(p, anchor) == anchor \in ToSet(Ancestors(p))

WindowsIsDescendantOf(p, anchor) ==
    anchor \in ToSet(SubSeq(Trail(p), 1, Min({MaxAncestors, Len(Trail(p))})))

\* The first of a line that is in S.
FirstIn(line, S, otherwise) ==
    LET found == {i \in DOMAIN line : line[i] \in S}
    IN  IF found = {} THEN otherwise ELSE line[Min(found)]

\* On Windows the launchers between pf and its shell are skipped; when there
\* is nothing else, the farthest one is taken.
LoginShell(p) == FirstIn(Trail(p), Processes \ Launchers, Last(Trail(p)))

WindowsAncestors(p) ==
    LET line == Trail(LoginShell(p))
    IN  SubSeq(line, 1, Min({MaxAncestors + 1, Len(line)}))

Anchor(p) == IF Windows THEN LoginShell(p) ELSE p

\* The first name that exists; the own one when there is none.  A socket file
\* exists until somebody removes it, a pipe as long as its oracle.
FirstNamed(line) == FirstIn(line, {q \in Processes : place[q] # None}, Head(line))

CurrentSocketPath(p) == FirstNamed(Ancestors(p))
CurrentPipe(p) == FirstNamed(WindowsAncestors(p))

-----------------------------------------------------------------------------
(* A login.                                                                *)

Become(c, pc) == command' = [command EXCEPT ![c].pc = pc]
Rest(c) == command' = [command EXCEPT ![c] = NoCommand]

Used == {k \in Keys : oracle[k].state # None}
        \cup {command[c].key : c \in {d \in Commands : command[d].pc # "idle"}}

(* The login of the command line and of the device flow: the key is new    *)
(* and the server has not seen it yet.                                     *)
StartLogin(c, p, x, kind) ==
    /\ command[c].pc = "idle" /\ p \in alive
    /\ \E k \in Keys \ Used :
          /\ \A j \in Keys \ Used : k <= j
          /\ command' = [command EXCEPT ![c] = [NoCommand EXCEPT
                 !.pc = "start", !.kind = kind, !.by = p, !.ctx = x, !.key = k]]
    /\ UNCHANGED <<platform, logon, alive, oracle, place, event, config, latest, clock>>

Started(k, p, state) ==
    oracle' = [oracle EXCEPT ![k] = [state |-> state, anchor |-> p,
                                     deadline |-> clock + TTL, peer |-> None,
                                     told |-> FALSE]]

AfterSpawn(c) == IF command[c].kind = "oidc" THEN "find" ELSE "post"

(* bind_socket with replace: whoever listens at the path is cut off.  The  *)
(* start of the process may fail after that.                               *)
PosixSpawn(c) ==
    LET p == command[c].by k == command[c].key IN
    /\ ~Windows /\ command[c].pc = "start" /\ p \in alive
    /\ place' = [place EXCEPT ![p] = k] /\ latest' = [latest EXCEPT ![p] = k]
    /\ \/ Started(k, p, "serving") /\ Become(c, AfterSpawn(c))
       \/ oracle' = [oracle EXCEPT ![k] = Ended] /\ Rest(c)
    /\ UNCHANGED <<platform, logon, alive, event, config, clock>>

LoseShell(c) ==
    /\ command[c].pc \in {"start", "wait"} /\ command[c].by \notin alive
    /\ Rest(c)
    /\ UNCHANGED <<platform, logon, alive, oracle, place, event, config, latest, clock>>

(* The pipe of a name can be created once; a login waits for it.           *)
PipeIsFree(p) == place[p] = None

WindowsSpawn(c) ==
    LET p == Anchor(command[c].by) k == command[c].key IN
    /\ Windows /\ command[c].pc \in {"start", "wait"} /\ command[c].by \in alive
    /\ IF PipeIsFree(p)
       THEN /\ place' = [place EXCEPT ![p] = k] /\ latest' = [latest EXCEPT ![p] = k]
            /\ Started(k, p, "starting") /\ Become(c, AfterSpawn(c))
       ELSE /\ command[c].pc = "start" /\ Become(c, "wait")
            /\ UNCHANGED <<oracle, place, latest>>
    /\ UNCHANGED <<platform, logon, alive, event, config, clock>>

(* It says so again and again, by the event its predecessor has opened.    *)
Announce(c) ==
    /\ command[c].pc = "wait" /\ command[c].by \in alive /\ event[Anchor(command[c].by)] = "unset"
    /\ event' = [event EXCEPT ![Anchor(command[c].by)] = "set"]
    /\ oracle' = [k \in Keys |->
           IF k = place[Anchor(command[c].by)] /\ oracle[k].state = "serving"
           THEN [oracle[k] EXCEPT !.told = TRUE] ELSE oracle[k]]
    /\ UNCHANGED <<platform, logon, alive, place, config, command, latest, clock>>

GiveUp(c) ==
    /\ command[c].pc = "wait" /\ Rest(c)
    /\ UNCHANGED <<platform, logon, alive, oracle, place, event, config, latest, clock>>

(* The answer of the server to an http_sig login, signed with the key in   *)
(* memory, and to a device login, signed by the oracle.                    *)
Answered(c) ==
    /\ command[c].pc = "post"
    /\ \/ Rest(c) /\ UNCHANGED config
       \/ /\ config' = [config EXCEPT ![command[c].ctx] = command[c].key]
          /\ Rest(c)
    /\ UNCHANGED <<platform, logon, alive, oracle, place, event, latest, clock>>

-----------------------------------------------------------------------------
(* A command that signs.                                                   *)

StartUse(c, p, x) ==
    /\ command[c].pc = "idle" /\ p \in alive /\ config[x] # None
    /\ command' = [command EXCEPT ![c] = [NoCommand EXCEPT
           !.pc = "find", !.by = p, !.ctx = x, !.key = config[x]]]
    /\ UNCHANGED <<platform, logon, alive, oracle, place, event, config, latest, clock>>

Find(c) ==
    LET p == command[c].by IN
    /\ command[c].pc = "find"
    /\ IF p \notin alive THEN Rest(c)
       ELSE command' = [command EXCEPT
                ![c].pc = "list",
                ![c].at = IF Windows THEN CurrentPipe(p) ELSE CurrentSocketPath(p)]
    /\ UNCHANGED <<platform, logon, alive, oracle, place, event, config, latest, clock>>

(* Connections queue at the socket; nobody listens at the file of an       *)
(* oracle that has ended.                                                  *)
Connect(c) ==
    /\ command[c].pc \in {"list", "sign"} /\ command[c].conn = None
    /\ LET k == place[command[c].at] IN
       IF k = None \/ oracle[k].state \notin Listening THEN Rest(c)
       ELSE command' = [command EXCEPT ![c].conn = k]
    /\ UNCHANGED <<platform, logon, alive, oracle, place, event, config, latest, clock>>

-----------------------------------------------------------------------------
(* An oracle.                                                              *)

(* The new process of a Windows oracle opens the event and resets it.      *)
EventAtStart_NotOpened(e) == e
EventAtStart(e) == "unset"

Ready(k) ==
    /\ oracle[k].state = "starting"
    /\ oracle' = [oracle EXCEPT ![k].state = "serving"]
    /\ event' = [event EXCEPT ![oracle[k].anchor] = EventAtStart(@)]
    /\ UNCHANGED <<platform, logon, alive, place, config, command, latest, clock>>

Over(k) == clock >= oracle[k].deadline \/ oracle[k].anchor \notin alive
Displaced(k) == Windows /\ event[oracle[k].anchor] = "set"

SameLogon(k, c) == logon[command[c].by] = logon[oracle[k].anchor]

PosixAuthorized(k, c) ==
    IsDescendantOf(command[c].by, oracle[k].anchor) /\ SameLogon(k, c)

WindowsAuthorized(k, c) ==
    WindowsIsDescendantOf(command[c].by, oracle[k].anchor) /\ SameLogon(k, c)

Authorized(k, c) == IF Windows THEN WindowsAuthorized(k, c) ELSE PosixAuthorized(k, c)

(* POSIX looks at the clock and the anchor before each connection and each *)
(* message; Windows leaves that to a thread that ends the process.         *)
WindowsMayServe(k) == Windows /\ oracle[k].state = "serving"
PosixMayServe_Accepted(k) ==
    oracle[k].state = "serving" /\ (~Over(k) \/ oracle[k].peer # None)
PosixMayServe(k) == oracle[k].state = "serving" /\ ~Over(k)
MayServe(k) == IF Windows THEN WindowsMayServe(k) ELSE PosixMayServe(k)

Accept(k, c) ==
    /\ MayServe(k) /\ oracle[k].peer = None /\ command[c].conn = k
    /\ IF Authorized(k, c)
       THEN oracle' = [oracle EXCEPT ![k].peer = c] /\ UNCHANGED command
       ELSE Rest(c) /\ UNCHANGED oracle
    /\ UNCHANGED <<platform, logon, alive, place, event, config, latest, clock>>

(* The list, with the one key; a command whose key is not in it stops.  Or *)
(* the signature; the server takes the key of a device login with it.      *)
KeyListed(k, c) == command[c].key = k

Reply(k) ==
    LET c == oracle[k].peer IN
    /\ MayServe(k) /\ c # None
    /\ oracle' = [oracle EXCEPT ![k].peer = None]
    /\ IF ~KeyListed(k, c) THEN Rest(c) /\ UNCHANGED config
       ELSE IF command[c].pc = "list"
       THEN /\ command' = [command EXCEPT ![c].pc = "sign", ![c].conn = None]
            /\ UNCHANGED config
       ELSE /\ Rest(c)
            /\ \/ command[c].kind = "oidc"
                  /\ config' = [config EXCEPT ![command[c].ctx] = k]
               \/ UNCHANGED config
    /\ UNCHANGED <<platform, logon, alive, place, event, latest, clock>>

(* The file stays: os.fstat of a socket never equals os.stat of its path.  *)
PosixPlaceAfter(k) == place

Dropped(k) ==
    [c \in Commands |-> IF command[c].conn = k THEN NoCommand ELSE command[c]]

PosixEnd(k) ==
    /\ ~Windows /\ oracle[k].state = "serving" /\ Over(k)
    /\ place' = PosixPlaceAfter(k)
    /\ oracle' = [oracle EXCEPT ![k] = Ended]
    /\ command' = Dropped(k)
    /\ UNCHANGED <<platform, logon, alive, event, config, latest, clock>>

(* The watchdog ends the process, and its pipe with it.  Its event goes    *)
(* when nobody else holds it.                                              *)
Watchdog(k) ==
    /\ Windows /\ oracle[k].state = "serving" /\ (Over(k) \/ Displaced(k))
    /\ place' = [place EXCEPT ![oracle[k].anchor] = None]
    /\ \E e \in {"absent", event[oracle[k].anchor]} :
          event' = [event EXCEPT ![oracle[k].anchor] = e]
    /\ oracle' = [oracle EXCEPT ![k] = Ended]
    /\ command' = Dropped(k)
    /\ UNCHANGED <<platform, logon, alive, config, latest, clock>>

-----------------------------------------------------------------------------
Exit(p) ==
    /\ p \in alive \cap Mortal /\ alive' = alive \ {p}
    /\ UNCHANGED <<platform, logon, oracle, place, event, config, command, latest, clock>>

Tick ==
    /\ clock < MaxClock /\ clock' = clock + 1
    /\ UNCHANGED <<platform, logon, alive, oracle, place, event, config, command, latest>>

LoginStep(c) ==
    \/ PosixSpawn(c) \/ WindowsSpawn(c) \/ LoseShell(c)
    \/ Announce(c) \/ GiveUp(c) \/ Answered(c)

Start(c) ==
    \E p \in Processes, x \in Contexts :
       StartUse(c, p, x) \/ \E kind \in {"http_sig", "oidc"} : StartLogin(c, p, x, kind)

OracleStep(k) ==
    Ready(k) \/ Reply(k) \/ PosixEnd(k) \/ Watchdog(k) \/ \E c \in Commands : Accept(k, c)

Next ==
    \/ \E c \in Commands : Start(c) \/ LoginStep(c) \/ Find(c) \/ Connect(c)
    \/ \E k \in Keys : OracleStep(k)
    \/ \E p \in Processes : Exit(p)
    \/ Tick

Spec == Init /\ [][Next]_vars

\* Oracles run by themselves, and a login that waits tries every 50 ms.
Fairness ==
    /\ \A k \in Keys : WF_vars(Ready(k)) /\ WF_vars(Watchdog(k)) /\ WF_vars(PosixEnd(k))
    /\ \A c \in Commands :
          WF_vars(LoseShell(c)) /\ WF_vars(WindowsSpawn(c)) /\ WF_vars(Announce(c))

FairSpec == Spec /\ Fairness

-----------------------------------------------------------------------------
\* The oracle of the latest login of a shell is the one at its name as long
\* as it runs: older ones that end do not take the name from it.
LatestLoginAnswers ==
    \A p \in Processes :
       LET k == latest[p] IN
       k # None /\ oracle[k].state \in Listening => place[p] = k

\* An oracle ends for a reason: its time is over, its anchor has exited, or,
\* while it served, a newer login asked it for its name.  What logins asked of
\* the oracle before it does not end it.
EndsForAReason ==
    [][\A k \in Keys : oracle[k].state = "serving" /\ oracle'[k].state = "ended" =>
         Over(k) \/ oracle[k].told]_vars

\* A signature is made for a command below the anchor, of the same login, that
\* asked for this key; on POSIX, before the deadline and while the anchor runs,
\* however long the connection has been open.
Signs(k, c) ==
    /\ command[c].pc = "sign" /\ oracle[k].peer = c /\ command[c].key = k
    /\ oracle'[k].peer = None /\ oracle'[k].state = "serving"

SignsInTimeForItsOwn ==
    [][\A k \in Keys, c \in Commands : Signs(k, c) =>
         /\ oracle[k].anchor \in ToSet(Line[command[c].by]) /\ SameLogon(k, c)
         /\ Windows \/ ~Over(k)]_vars

\* A login that waits for the oracle before it does not wait for ever, even if
\* it never gives up: the announcement may fall before the reset, and is made
\* again.
LoginGetsItsName ==
    \A c \in Commands : command[c].pc = "wait" ~> command[c].pc # "wait"

\* What session.py says of the search: it finds "the nearest ancestor that has
\* an oracle".  Broken by the socket file of an oracle that has ended.
NearestHasAnOracle ==
    \A c \in Commands :
       command[c].pc = "list" /\ command[c].conn = None =>
          LET p == command[c].at
              listens(q) == place[q] # None /\ oracle[place[q]].state \in Listening
          IN  listens(p) \/ \A q \in ToSet(Trail(command[c].by)) : ~listens(q)

\* What bind_socket says of an oracle that lost its path: "nothing connects to
\* it again since the config was already updated to the new session key".
\* Broken by a login that the server refuses, and by another context.
SupersededIsForgotten ==
    \A k \in Keys :
       oracle[k].state = "serving" /\ place[oracle[k].anchor] # k =>
          \A x \in Contexts : config[x] # k
=============================================================================
