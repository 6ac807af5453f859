---------------------------- MODULE ReaperProofs ----------------------------
(***************************************************************************)
(* Proofs about the session reaper: what it ends, when, and what it leaves *)
(* alone.  They are about hosts where ps works and where a pid that got    *)
(* free is not used again in the same second: Reliable.                    *)
(***************************************************************************)
EXTENDS SessionReaper, TLAPS

Reliable == ~PsMayFail /\ ReuseAfter > 0

(* A process has a pid and the second of its start; a pid that none has is   *)
(* free.                                                                     *)
AProc == [owner : Conns \cup {Nobody}, start : Int]

ASession == [state : {"none", "open", "over"}, pid : Pids,
             deadline : Deadlines \cup {NoDeadline}, since : Int]

ARecord == [name : Names, written : Nat, deadline : Deadlines \cup {NoDeadline}]

Dicts(Keys) == UNION {[keys -> Int] : keys \in SUBSET Keys}

AMemory == [bound : Dicts(Names), ending : Dicts(Names), reported : SUBSET Names, orphans : Dicts(Conns)]

ATick == [step : {"asleep", "listed", "handling", "signal"}, names : SUBSET Names, todo : SUBSET Names,
          snap : [Pids -> AProc], asked : SUBSET Conns, live : SUBSET Conns, force : BOOLEAN, target : Pids]

Types ==
    /\ clock \in Nat
    /\ table \in [Pids -> AProc] /\ freed \in [Pids -> Int]
    /\ session \in [Conns -> ASession]
    /\ records \subseteq ARecord
    /\ requests \in [Conns -> [first : Int, last : Int]]
    /\ events \in [Conns -> Seq({"start", "end"})]
    /\ up \in [on : BOOLEAN, since : Nat]
    /\ memory \in AMemory /\ tick \in ATick /\ ticked \in BOOLEAN

(* An open session is a process, which started some time ago.               *)
Processes ==
    /\ \A p \in Pids : /\ freed[p] <= clock /\ table[p].start <= clock
                       /\ table[p] # Free => table[p].start >= 0
    /\ \A p \in Pids, c \in Conns : table[p].owner = c <=> Open(c) /\ session[c].pid = p
    /\ \A c \in Conns : session[c].since <= clock

(* What had the pid p at time t has it no more.                             *)
Past(p, t) ==
    /\ table[p] # Free => table[p].start > t
    /\ table[p] = Free => freed[p] >= t \/ clock > t

NameOf(c) == <<session[c].pid, c>>

IsNameOf(n) == session[n[2]].state # "none" /\ (Open(n[2]) => n = NameOf(n[2]))

(* A session that was registered has its one record as long as it is open.  *)
RecordsHold ==
    /\ \A r \in records :
          /\ IsNameOf(r.name) /\ r.written <= clock
          /\ Open(r.name[2]) => /\ table[r.name[1]].start <= r.written
                                /\ r.deadline = session[r.name[2]].deadline
          /\ ~Open(r.name[2]) => Past(r.name[1], r.written)
    /\ \A r, s \in records : r.name[2] = s.name[2] => r = s
    /\ \A c \in Conns : Open(c) /\ Registered(c) => \E r \in records : r.name = NameOf(c)

(* What the reaper remembers of a process is of the process of the session. *)
MemoryHolds ==
    /\ \A n \in DOMAIN memory.bound :
          /\ \E r \in records : r.name = n
          /\ memory.bound[n] <= clock
          /\ Open(n[2]) => memory.bound[n] = table[n[1]].start
          /\ ~Open(n[2]) => Past(n[1], memory.bound[n])
    /\ memory.reported \subseteq DOMAIN memory.bound
    /\ DOMAIN memory.ending \subseteq DOMAIN memory.bound
    /\ \A n \in DOMAIN memory.ending : memory.ending[n] <= clock

(* A tick has read what is still so of the sessions that are open.          *)
TickHolds ==
    /\ tick.step # "asleep" => up.on /\ DOMAIN memory.bound \subseteq tick.names
    /\ tick.todo \subseteq tick.names /\ (tick.step = "listed" => tick.todo = tick.names)
    /\ \A n \in tick.names : IsNameOf(n)
    /\ tick.step \in {"handling", "signal"} =>
          /\ \A n \in tick.names : Open(n[2]) => tick.snap[n[1]] = table[n[1]]
          /\ \A n \in tick.names \ tick.todo : Open(n[2]) => n[2] \in tick.live

(* Between the decision and the signal the clock moves once at most.        *)
SignalHolds ==
    /\ ~misfired
    /\ tick.step = "signal" =>
          /\ table[tick.target] # Free /\ table[tick.target].owner \notin tick.live =>
                table[tick.target].start = clock /\ ~ticked
          /\ ticked => table[tick.target] # Free \/ freed[tick.target] = clock

RequestsHold ==
    /\ \A c \in Conns : requests[c].first <= clock /\ requests[c].last <= clock
    /\ \A c \in DOMAIN memory.orphans : requests[c] # NoRequest /\ requests[c].first <= memory.orphans[c]
    /\ tick.step \in {"handling", "signal"} => \A c \in tick.asked : requests[c] # NoRequest

EventsHold ==
    /\ \A c \in Conns : events[c] # <<>> => events[c][1] = "start"
    /\ \A n \in memory.reported : events[n[2]] # <<>>
    /\ \A c \in Conns : \A i \in DOMAIN events[c] :
          events[c][i] = "end" =>
             /\ i = Len(events[c]) /\ session[c].state = "over"
             /\ \A r \in records : r.name[2] # c

(* The tick at work, or the next one, is in time to ask, or to kill.        *)
WillAsk(c, asks) ==
    \/ tick.step = "asleep"
    \/ NameOf(c) \in tick.todo /\ (asks /\ tick.step # "listed" => c \in tick.asked)

WillKill(c) ==
    \/ tick.step = "asleep"
    \/ NameOf(c) \in tick.todo
    \/ tick.step = "signal" /\ tick.force /\ tick.target = session[c].pid

EndsBy(c, k, asks) ==
    LET n == NameOf(c) IN
    IF n \in DOMAIN memory.ending
    THEN /\ memory.ending[n] <= k + 2 /\ clock <= k + Grace + 3
         /\ clock = k + Grace + 2 /\ ticked => WillKill(c)
         /\ clock = k + Grace + 3 => ~ticked /\ WillKill(c)
    ELSE /\ clock <= k + 2
         /\ clock = k + 1 /\ ticked => WillAsk(c, asks)
         /\ clock = k + 2 => ~ticked /\ WillAsk(c, asks)

KnownSince(c) == Latest(session[c].since, up.since)

Watched(c) == Open(c) /\ Registered(c) /\ up.on

(* What the session c must end for, at k: a request, or its deadline.       *)
Cause(c, k, asks) ==
    IF asks THEN requests[c] # NoRequest /\ k = Latest(requests[c].last, KnownSince(c))
            ELSE session[c].deadline # NoDeadline /\ k = Latest(session[c].deadline, KnownSince(c))

InTime ==
    \A c \in Conns, k \in Nat, asks \in BOOLEAN :
        Watched(c) /\ Cause(c, k, asks) => EndsBy(c, k, asks)

-----------------------------------------------------------------------------
(* Dicts.                                                                  *)

LEMMA WithIs ==
    \A f, k, v : /\ DOMAIN With(f, k, v) = DOMAIN f \cup {k}
                 /\ With(f, k, v)[k] = v
                 /\ \A x \in DOMAIN f : x # k => With(f, k, v)[x] = f[x]
  BY DEF With

LEMMA WithoutIs ==
    \A f, ks : /\ DOMAIN Without(f, ks) = DOMAIN f \ ks
               /\ \A x \in DOMAIN f \ ks : Without(f, ks)[x] = f[x]
  BY DEF Without

LEMMA DictWith ==
    ASSUME NEW Keys, NEW f \in Dicts(Keys), NEW k \in Keys, NEW v \in Int
    PROVE  With(f, k, v) \in Dicts(Keys)
  <1>1. PICK D \in SUBSET Keys : f \in [D -> Int]
    BY DEF Dicts
  <1>2. With(f, k, v) \in [D \cup {k} -> Int]
    BY <1>1 DEF With
  <1>3. D \cup {k} \in SUBSET Keys
    OBVIOUS
  <1> QED
    BY <1>2, <1>3 DEF Dicts

LEMMA DictWithout ==
    ASSUME NEW Keys, NEW f \in Dicts(Keys), NEW ks
    PROVE  Without(f, ks) \in Dicts(Keys)
  <1>1. PICK D \in SUBSET Keys : f \in [D -> Int]
    BY DEF Dicts
  <1>2. Without(f, ks) \in [D \ ks -> Int]
    BY <1>1 DEF Without
  <1>3. D \ ks \in SUBSET Keys
    OBVIOUS
  <1> QED
    BY <1>2, <1>3 DEF Dicts

LEMMA DictTypes ==
    ASSUME NEW Keys, NEW f \in Dicts(Keys)
    PROVE  DOMAIN f \subseteq Keys /\ \A k \in DOMAIN f : f[k] \in Int
  BY DEF Dicts

LEMMA NoDict == \A Keys : <<>> \in Dicts(Keys) /\ DOMAIN <<>> = {}
  <1> TAKE Keys
  <1>1. <<>> \in [{} -> Int] /\ {} \in SUBSET Keys
    OBVIOUS
  <1> QED
    BY <1>1 DEF Dicts

-----------------------------------------------------------------------------
(* Types.                                                                  *)

LEMMA BlankTypes ==
    /\ NotBegun \in ASession /\ NotBegun.state = "none"
    /\ Over \in ASession /\ Over.state = "over"
    /\ Free \in AProc
    /\ Blank \in AMemory /\ DOMAIN Blank.bound = {} /\ DOMAIN Blank.ending = {}
    /\ Blank.reported = {} /\ DOMAIN Blank.orphans = {}
    /\ Asleep \in ATick /\ Asleep.step = "asleep" /\ Asleep.names = {} /\ Asleep.todo = {}
    /\ NoRequest \in [first : Int, last : Int]
  <1>1. (CHOOSE p \in Pids : TRUE) \in Pids
    BY ReaperAssumption
  <1>2. NotBegun \in ASession /\ NotBegun.state = "none"
    BY <1>1 DEF NotBegun, ASession
  <1>3. Over \in ASession /\ Over.state = "over"
    BY <1>2 DEF Over, ASession
  <1>4. Free \in AProc
    BY DEF Free, AProc
  <1>5. /\ Blank \in AMemory /\ DOMAIN Blank.bound = {} /\ DOMAIN Blank.ending = {}
        /\ Blank.reported = {} /\ DOMAIN Blank.orphans = {}
    BY NoDict DEF Blank, AMemory
  <1>6. Asleep \in ATick /\ Asleep.step = "asleep" /\ Asleep.names = {} /\ Asleep.todo = {}
    BY <1>1, <1>4 DEF Asleep, ATick
  <1>7. NoRequest \in [first : Int, last : Int]
    BY DEF NoRequest
  <1> QED
    BY <1>2, <1>3, <1>4, <1>5, <1>6, <1>7
LEMMA EndTypes ==
    ASSUME Types, NEW p \in Pids, EndOf(p)
    PROVE  table' \in [Pids -> AProc] /\ freed' \in [Pids -> Int] /\ session' \in [Conns -> ASession]
  <1>1. table' \in [Pids -> AProc]
    BY BlankTypes DEF Types, EndOf
  <1>2. freed' \in [Pids -> Int]
    BY DEF Types, EndOf
  <1>3. session' \in [Conns -> ASession]
    BY BlankTypes DEF Types, EndOf
  <1> QED
    BY <1>1, <1>2, <1>3

LEMMA ForgetTypes ==
    ASSUME Types, NEW gone, ForgetNames(gone)
    PROVE  memory' \in AMemory /\ events' \in [Conns -> Seq({"start", "end"})]
  <1>0. memory \in AMemory /\ events \in [Conns -> Seq({"start", "end"})]
    BY DEF Types
  <1>1. /\ memory.bound \in Dicts(Names) /\ memory.ending \in Dicts(Names)
        /\ memory.reported \in SUBSET Names /\ memory.orphans \in Dicts(Conns)
    BY <1>0 DEF AMemory
  <1>2. /\ Without(memory.bound, gone) \in Dicts(Names) /\ Without(memory.ending, gone) \in Dicts(Names)
        /\ memory.reported \ gone \in SUBSET Names
    BY <1>1, DictWithout
  <1>3. memory' = [bound |-> Without(memory.bound, gone), ending |-> Without(memory.ending, gone),
                   reported |-> memory.reported \ gone, orphans |-> memory.orphans]
    BY <1>0 DEF AMemory, ForgetNames
  <1>4. memory' \in AMemory
    BY <1>1, <1>2, <1>3 DEF AMemory
  <1>5. \A c \in Conns : Append(events[c], "end") \in Seq({"start", "end"})
    BY <1>0
  <1>6. events' \in [Conns -> Seq({"start", "end"})]
    BY <1>0, <1>5 DEF ForgetNames
  <1> QED
    BY <1>4, <1>6

(* What Handle writes, by field.                                           *)
Starts(r) == r.name \notin DOMAIN memory.ending /\ IsDue(r)
Forces(r) == r.name \in DOMAIN memory.ending /\ clock - memory.ending[r.name] >= Grace

LEMMA HandleWrites ==
    ASSUME Types, NEW r \in records, Handle(r)
    PROVE  /\ r \in ARecord /\ r.name \in Names /\ r.name[1] \in Pids /\ r.name[2] \in Conns
           /\ memory' = [bound |-> With(memory.bound, r.name, table[r.name[1]].start),
                         reported |-> memory.reported \cup {r.name},
                         ending |-> IF Starts(r) THEN With(memory.ending, r.name, clock) ELSE memory.ending,
                         orphans |-> memory.orphans]
           /\ memory' \in AMemory
           /\ tick' = [tick EXCEPT !.todo = tick.todo \ {r.name}, !.live = tick.live \cup {r.name[2]},
                                   !.step = IF Starts(r) \/ Forces(r) THEN "signal" ELSE tick.step,
                                   !.target = r.name[1], !.force = Forces(r)]
           /\ tick' \in ATick
           /\ tick'.todo = tick.todo \ {r.name} /\ tick'.live = tick.live \cup {r.name[2]}
           /\ tick'.step = IF Starts(r) \/ Forces(r) THEN "signal" ELSE tick.step
           /\ tick'.target = r.name[1] /\ tick'.force = Forces(r) /\ tick'.names = tick.names
           /\ tick'.asked = tick.asked /\ tick'.snap = tick.snap
           /\ events' = [events EXCEPT ![r.name[2]] =
                            IF r.name \in memory.reported THEN events[r.name[2]]
                            ELSE Append(events[r.name[2]], "start")]
           /\ events' \in [Conns -> Seq({"start", "end"})]
  <1>0. /\ memory \in AMemory /\ events \in [Conns -> Seq({"start", "end"})] /\ tick \in ATick
        /\ records \subseteq ARecord /\ clock \in Nat /\ table \in [Pids -> AProc]
    BY DEF Types
  <1>1. r \in ARecord /\ r.name \in Names /\ r.name[1] \in Pids /\ r.name[2] \in Conns
    BY <1>0 DEF ARecord, Names
  <1>2. /\ memory.bound \in Dicts(Names) /\ memory.ending \in Dicts(Names)
        /\ memory.reported \in SUBSET Names /\ memory.orphans \in Dicts(Conns)
    BY <1>0 DEF AMemory
  <1>3. table[r.name[1]].start \in Int
    BY <1>0, <1>1 DEF AProc
  <1>4. memory' = [memory EXCEPT !.bound = With(memory.bound, r.name, table[r.name[1]].start),
                         !.reported = memory.reported \cup {r.name},
                         !.ending = IF Starts(r) THEN With(memory.ending, r.name, clock) ELSE memory.ending]
    BY DEF Handle, Starts
  <1>5. memory' = [bound |-> With(memory.bound, r.name, table[r.name[1]].start),
                         reported |-> memory.reported \cup {r.name},
                         ending |-> IF Starts(r) THEN With(memory.ending, r.name, clock) ELSE memory.ending,
                         orphans |-> memory.orphans]
    BY <1>0, <1>4 DEF AMemory
  <1>6. With(memory.bound, r.name, table[r.name[1]].start) \in Dicts(Names)
    BY <1>1, <1>2, <1>3, DictWith
  <1>7. (IF Starts(r) THEN With(memory.ending, r.name, clock) ELSE memory.ending) \in Dicts(Names)
    <2>1. With(memory.ending, r.name, clock) \in Dicts(Names)
      <3>1. clock \in Int /\ memory.ending \in Dicts(Names) /\ r.name \in Names
        BY <1>0, <1>1, <1>2
      <3> QED
        BY <3>1, DictWith
    <2> QED
      BY <1>2, <2>1
  <1>8. memory' \in AMemory
    BY <1>1, <1>2, <1>5, <1>6, <1>7 DEF AMemory
  <1>9. tick' = [tick EXCEPT !.todo = tick.todo \ {r.name}, !.live = tick.live \cup {r.name[2]},
                                   !.step = IF Starts(r) \/ Forces(r) THEN "signal" ELSE tick.step,
                                   !.target = r.name[1], !.force = Forces(r)]
    BY DEF Handle, Starts, Forces
  <1>10. Forces(r) \in BOOLEAN
    BY DEF Forces
  <1>11. /\ tick' \in ATick
         /\ tick'.todo = tick.todo \ {r.name} /\ tick'.live = tick.live \cup {r.name[2]}
         /\ tick'.step = IF Starts(r) \/ Forces(r) THEN "signal" ELSE tick.step
         /\ tick'.target = r.name[1] /\ tick'.force = Forces(r) /\ tick'.names = tick.names
         /\ tick'.asked = tick.asked /\ tick'.snap = tick.snap
    <2> HIDE DEF Starts, Forces
    <2> QED
      BY <1>0, <1>1, <1>9, <1>10 DEF ATick
  <1>12. events' = [events EXCEPT ![r.name[2]] =
                            IF r.name \in memory.reported THEN events[r.name[2]]
                            ELSE Append(events[r.name[2]], "start")]
    BY DEF Handle
  <1>13. Append(events[r.name[2]], "start") \in Seq({"start", "end"})
    BY <1>0, <1>1
  <1>14. events' \in [Conns -> Seq({"start", "end"})]
    BY <1>0, <1>1, <1>12, <1>13
  <1> QED
    BY <1>1, <1>5, <1>8, <1>9, <1>11, <1>12, <1>14

LEMMA ForgetDicts ==
    ASSUME Types, NEW gone, ForgetNames(gone)
    PROVE  /\ DOMAIN memory'.bound = DOMAIN memory.bound \ gone
           /\ \A n \in DOMAIN memory.bound \ gone : memory'.bound[n] = memory.bound[n]
           /\ DOMAIN memory'.ending = DOMAIN memory.ending \ gone
           /\ \A n \in DOMAIN memory.ending \ gone : memory'.ending[n] = memory.ending[n]
           /\ memory'.reported = memory.reported \ gone /\ memory'.orphans = memory.orphans
  <1>1. memory \in AMemory
    BY DEF Types
  <1>3. /\ memory'.bound = Without(memory.bound, gone) /\ memory'.ending = Without(memory.ending, gone)
        /\ memory'.reported = memory.reported \ gone /\ memory'.orphans = memory.orphans
    BY <1>1 DEF ForgetNames, AMemory
  <1>4. /\ DOMAIN Without(memory.bound, gone) = DOMAIN memory.bound \ gone
        /\ \A n \in DOMAIN memory.bound \ gone : Without(memory.bound, gone)[n] = memory.bound[n]
    BY WithoutIs
  <1>5. /\ DOMAIN Without(memory.ending, gone) = DOMAIN memory.ending \ gone
        /\ \A n \in DOMAIN memory.ending \ gone : Without(memory.ending, gone)[n] = memory.ending[n]
    BY WithoutIs
  <1> QED
    BY <1>3, <1>4, <1>5

LEMMA HandleDicts ==
    ASSUME Types, NEW r \in records, Handle(r)
    PROVE  /\ r.name \in Names /\ r.name[1] \in Pids /\ r.name[2] \in Conns
           /\ DOMAIN memory'.bound = DOMAIN memory.bound \cup {r.name}
           /\ memory'.bound[r.name] = table[r.name[1]].start
           /\ \A n \in DOMAIN memory.bound : n # r.name => memory'.bound[n] = memory.bound[n]
           /\ memory'.reported = memory.reported \cup {r.name} /\ memory'.orphans = memory.orphans
           /\ ~Starts(r) => memory'.ending = memory.ending
           /\ Starts(r) => /\ DOMAIN memory'.ending = DOMAIN memory.ending \cup {r.name}
                           /\ memory'.ending[r.name] = clock
                           /\ \A n \in DOMAIN memory.ending : n # r.name => memory'.ending[n] = memory.ending[n]
  <1>1. r.name \in Names /\ r.name[1] \in Pids /\ r.name[2] \in Conns
    BY HandleWrites
  <1>2. /\ memory'.bound = With(memory.bound, r.name, table[r.name[1]].start)
        /\ memory'.reported = memory.reported \cup {r.name} /\ memory'.orphans = memory.orphans
        /\ memory'.ending = IF Starts(r) THEN With(memory.ending, r.name, clock) ELSE memory.ending
    <2>1. memory' = [bound |-> With(memory.bound, r.name, table[r.name[1]].start),
                         reported |-> memory.reported \cup {r.name},
                         ending |-> IF Starts(r) THEN With(memory.ending, r.name, clock) ELSE memory.ending,
                         orphans |-> memory.orphans]
      BY HandleWrites
    <2> QED
      BY <2>1
  <1>6. /\ DOMAIN memory'.bound = DOMAIN memory.bound \cup {r.name}
        /\ memory'.bound[r.name] = table[r.name[1]].start
        /\ \A n \in DOMAIN memory.bound : n # r.name => memory'.bound[n] = memory.bound[n]
    <2>1. memory'.bound = With(memory.bound, r.name, table[r.name[1]].start)
      BY <1>2
    <2>2. PICK f, v : f = memory.bound /\ v = table[r.name[1]].start
      OBVIOUS
    <2>3. memory'.bound = With(f, r.name, v)
      BY <2>1, <2>2
    <2>4. /\ DOMAIN memory'.bound = DOMAIN f \cup {r.name} /\ memory'.bound[r.name] = v
          /\ \A n \in DOMAIN f : n # r.name => memory'.bound[n] = f[n]
      <3>1. DOMAIN memory'.bound = DOMAIN f \cup {r.name}
        BY <2>3 DEF With
      <3>2. memory'.bound[r.name] = v
        BY <2>3 DEF With
      <3>3. \A n \in DOMAIN f : n # r.name => memory'.bound[n] = f[n]
        BY <2>3 DEF With
      <3> QED
        BY <3>1, <3>2, <3>3
    <2> QED
      BY <2>2, <2>4
  <1>7. ASSUME Starts(r)
        PROVE  /\ DOMAIN memory'.ending = DOMAIN memory.ending \cup {r.name}
               /\ memory'.ending[r.name] = clock
               /\ \A n \in DOMAIN memory.ending : n # r.name => memory'.ending[n] = memory.ending[n]
    <2>1. PICK f, v : f = memory.ending /\ v = clock
      OBVIOUS
    <2>2. memory'.ending = With(f, r.name, v)
      BY <1>2, <1>7, <2>1
    <2>3. /\ DOMAIN memory'.ending = DOMAIN f \cup {r.name} /\ memory'.ending[r.name] = v
          /\ \A n \in DOMAIN f : n # r.name => memory'.ending[n] = f[n]
      <3>1. DOMAIN memory'.ending = DOMAIN f \cup {r.name}
        BY <2>2 DEF With
      <3>2. memory'.ending[r.name] = v
        BY <2>2 DEF With
      <3>3. \A n \in DOMAIN f : n # r.name => memory'.ending[n] = f[n]
        BY <2>2 DEF With
      <3> QED
        BY <3>1, <3>2, <3>3
    <2> QED
      BY <2>1, <2>3
  <1>8. ~Starts(r) => memory'.ending = memory.ending
    BY <1>2
  <1> QED
    BY <1>1, <1>2, <1>6, <1>7, <1>8

LEMMA HandleTick ==
    ASSUME Types, NEW r \in records, Handle(r)
    PROVE  /\ tick'.todo = tick.todo \ {r.name} /\ tick'.live = tick.live \cup {r.name[2]}
           /\ tick'.step = IF Starts(r) \/ Forces(r) THEN "signal" ELSE "handling"
           /\ tick'.target = r.name[1] /\ tick'.force = Forces(r) /\ tick'.names = tick.names
           /\ tick'.asked = tick.asked /\ tick'.snap = tick.snap
           /\ tick.step = "handling" /\ r.name \in tick.todo /\ ~ShouldDrop(r)
           /\ UNCHANGED <<clock, table, freed, session, records, requests, disturbed, up, ticked, misfired>>
  <1>1. /\ tick'.todo = tick.todo \ {r.name} /\ tick'.live = tick.live \cup {r.name[2]}
        /\ tick'.step = IF Starts(r) \/ Forces(r) THEN "signal" ELSE tick.step
        /\ tick'.target = r.name[1] /\ tick'.force = Forces(r) /\ tick'.names = tick.names
        /\ tick'.asked = tick.asked /\ tick'.snap = tick.snap
    BY HandleWrites
  <1> QED
    BY <1>1 DEF Handle

LEMMA FinishWrites ==
    ASSUME Types, Finish, DOMAIN memory.bound \subseteq tick.names
    PROVE  /\ memory'.bound = memory.bound /\ memory'.ending = memory.ending
           /\ memory'.reported = memory.reported
           /\ memory'.orphans = [c \in Orphans \ Expired |-> FirstSeen(c)]
           /\ memory' \in AMemory
           /\ events' = events
           /\ requests' \in [Conns -> [first : Int, last : Int]]
  <1>0. /\ memory \in AMemory /\ events \in [Conns -> Seq({"start", "end"})] /\ tick \in ATick
        /\ clock \in Nat /\ requests \in [Conns -> [first : Int, last : Int]]
    BY DEF Types
  <1>1. /\ memory.bound \in Dicts(Names) /\ memory.ending \in Dicts(Names)
        /\ memory.reported \in SUBSET Names /\ memory.orphans \in Dicts(Conns)
    BY <1>0 DEF AMemory
  <1>2. DOMAIN memory.bound \ tick.names = {}
    OBVIOUS
  <1>3. \A f \in Dicts(Names) : Without(f, {}) = f
    BY DEF Without, Dicts
  <1>4. memory' = [bound |-> memory.bound, ending |-> memory.ending, reported |-> memory.reported,
                   orphans |-> [c \in Orphans \ Expired |-> FirstSeen(c)]]
    <2>1. memory' = [bound |-> Without(memory.bound, {}), ending |-> Without(memory.ending, {}),
                     reported |-> memory.reported \ {},
                     orphans |-> [c \in Orphans \ Expired |-> FirstSeen(c)]]
      BY <1>2 DEF Finish
    <2> QED
      BY <1>1, <1>3, <2>1
  <1>5. \A c : FirstSeen(c) \in Int
    BY <1>0, <1>1, DictTypes DEF FirstSeen
  <1>6. Orphans \ Expired \in SUBSET Conns
    BY <1>0 DEF Orphans, ATick
  <1>7. [c \in Orphans \ Expired |-> FirstSeen(c)] \in Dicts(Conns)
    <2>1. [c \in Orphans \ Expired |-> FirstSeen(c)] \in [Orphans \ Expired -> Int]
      BY <1>5
    <2> QED
      BY <1>6, <2>1 DEF Dicts
  <1>8. memory' \in AMemory
    BY <1>1, <1>4, <1>7 DEF AMemory
  <1>9. events' = events
    <2>1. events' = [c \in Conns |-> IF \E n \in {} \cap memory.reported : n[2] = c
                                     THEN Append(events[c], "end") ELSE events[c]]
      BY <1>2 DEF Finish
    <2>2. \A c \in Conns : events'[c] = events[c]
      BY <2>1
    <2> QED
      BY <1>0, <2>1, <2>2
  <1>10. requests' \in [Conns -> [first : Int, last : Int]]
    BY <1>0, BlankTypes DEF Finish
  <1> QED
    BY <1>4, <1>8, <1>9, <1>10
LEMMA TypesInit == Init => Types
  <1> SUFFICES ASSUME Init PROVE Types
    OBVIOUS
  <1>1. clock \in Nat /\ ticked \in BOOLEAN /\ up \in [on : BOOLEAN, since : Nat] /\ records \subseteq ARecord
    BY DEF Init
  <1>2. table \in [Pids -> AProc] /\ freed \in [Pids -> Int] /\ session \in [Conns -> ASession]
    BY BlankTypes DEF Init
  <1>3. requests \in [Conns -> [first : Int, last : Int]] /\ memory \in AMemory /\ tick \in ATick
    BY BlankTypes DEF Init
  <1>4. events \in [Conns -> Seq({"start", "end"})]
    BY DEF Init
  <1> QED
    BY <1>1, <1>2, <1>3, <1>4 DEF Types

LEMMA TypesNext ==
    ASSUME Types, DOMAIN memory.bound \subseteq tick.names \/ tick.step = "asleep", [Next]_vars
    PROVE  Types'
  <1>0. /\ clock \in Nat /\ table \in [Pids -> AProc] /\ freed \in [Pids -> Int]
        /\ session \in [Conns -> ASession] /\ records \subseteq ARecord
        /\ requests \in [Conns -> [first : Int, last : Int]]
        /\ events \in [Conns -> Seq({"start", "end"})] /\ up \in [on : BOOLEAN, since : Nat]
        /\ memory \in AMemory /\ tick \in ATick /\ ticked \in BOOLEAN
    BY DEF Types
  <1>1. CASE UNCHANGED vars
    BY <1>1 DEF vars, Types
  <1>2. ASSUME NEW c \in Conns, Register(c) PROVE Types'
    <2>1. records' \subseteq ARecord
      <3>1. [name |-> <<session[c].pid, c>>, written |-> clock, deadline |-> session[c].deadline] \in ARecord
        BY <1>0 DEF ARecord, ASession, Names
      <3> QED
        BY <1>0, <1>2, <3>1 DEF Register
    <2>2. session' \in [Conns -> ASession]
      <3>1. [session[c] EXCEPT !.since = IF session[c].since < 0 THEN clock ELSE session[c].since] \in ASession
        <4>1. \A x \in ASession, v \in Int : [x EXCEPT !.since = v] \in ASession
          BY DEF ASession
        <4>2. (IF session[c].since < 0 THEN clock ELSE session[c].since) \in Int
          BY <1>0 DEF ASession
        <4> QED
          BY <1>0, <4>1, <4>2
      <3>2. session' = [session EXCEPT ![c] =
                           [session[c] EXCEPT !.since = IF session[c].since < 0 THEN clock ELSE session[c].since]]
        BY <1>2 DEF Register
      <3> QED
        BY <1>0, <3>1, <3>2
    <2> QED
      BY <1>0, <1>2, <2>1, <2>2 DEF Register, Types
  <1>3. ASSUME NEW c \in Conns, Request(c) PROVE Types'
    <2>1. requests' \in [Conns -> [first : Int, last : Int]]
      BY <1>0, <1>3 DEF Request
    <2> QED
      BY <1>0, <1>3, <2>1 DEF Request, Types
  <1>4. ASSUME NEW c \in Conns, NEW p \in Pids, Connect(c, p) PROVE Types'
    <2>1. table' \in [Pids -> AProc]
      BY <1>0, <1>4 DEF Connect, AProc
    <2>2. session' \in [Conns -> ASession]
      <3>1. PICK d \in Deadlines \cup {NoDeadline} :
                session' = [session EXCEPT ![c] =
                               [state |-> "open", pid |-> p, deadline |-> d, since |-> -1]]
        BY <1>4 DEF Connect
      <3>2. [state |-> "open", pid |-> p, deadline |-> d, since |-> -1] \in ASession
        BY DEF ASession
      <3> QED
        BY <1>0, <3>1, <3>2
    <2> QED
      BY <1>0, <1>4, <2>1, <2>2 DEF Connect, Types
  <1>5. ASSUME NEW p \in Pids, Spawn(p) PROVE Types'
    <2>1. table' \in [Pids -> AProc]
      BY <1>0, <1>5 DEF Spawn, AProc
    <2> QED
      BY <1>0, <1>5, <2>1 DEF Spawn, Types
  <1>6. ASSUME NEW p \in Pids, Exit(p) PROVE Types'
    <2>1. EndOf(p)
      BY <1>6 DEF Exit
    <2> QED
      BY <1>0, <1>6, <2>1, EndTypes DEF Exit, Types
  <1>7. CASE List
    <2>1. tick' \in ATick
      <3>1. {r.name : r \in records} \in SUBSET Names
        BY <1>0 DEF ARecord
      <3>2. tick' = [tick EXCEPT !.step = "listed", !.names = {r.name : r \in records},
                                 !.todo = {r.name : r \in records}]
        BY <1>7 DEF List
      <3> QED
        BY <1>0, <3>1, <3>2 DEF ATick
    <2> QED
      BY <1>0, <1>7, <2>1 DEF List, Types
  <1>8. CASE Look
    <2>1. tick' \in ATick
      <3>1. PICK t \in Seen : tick' = [tick EXCEPT !.step = "handling", !.snap = t,
                                                   !.asked = {c \in Conns : requests[c] # NoRequest}]
        BY <1>8 DEF Look
      <3>2. t \in [Pids -> AProc]
        BY <1>0, BlankTypes DEF Seen
      <3> QED
        BY <1>0, <3>1, <3>2 DEF ATick
    <2> QED
      BY <1>0, <1>8, <2>1 DEF Look, Types
  <1>9. CASE Signal
    <2>1. tick' \in ATick /\ tick.target \in Pids
      BY <1>0, <1>9 DEF Signal, ATick
    <2>2. table' \in [Pids -> AProc] /\ freed' \in [Pids -> Int] /\ session' \in [Conns -> ASession]
      <3>1. CASE tick.force /\ Busy(table, tick.target)
        BY <1>9, <2>1, <3>1, EndTypes DEF Signal
      <3>2. CASE ~(tick.force /\ Busy(table, tick.target))
        BY <1>0, <1>9, <3>2 DEF Signal
      <3> QED
        BY <3>1, <3>2
    <2> QED
      BY <1>0, <1>9, <2>1, <2>2 DEF Signal, Types
  <1>10. CASE Finish
    <2>1. DOMAIN memory.bound \subseteq tick.names
      BY <1>10 DEF Finish
    <2>2. tick' \in ATick
      BY <1>10, BlankTypes DEF Finish
    <2> QED
      BY <1>0, <1>10, <2>1, <2>2, FinishWrites DEF Finish, Types
  <1>11. CASE Start
    BY <1>0, <1>11 DEF Start, Types
  <1>12. ASSUME NEW r \in records, Drop(r) PROVE Types'
    <2>1. tick' \in ATick
      BY <1>0, <1>12 DEF Drop, ATick
    <2>2. ForgetNames({r.name})
      BY <1>12 DEF Drop
    <2> QED
      BY <1>0, <1>12, <2>1, <2>2, ForgetTypes DEF Drop, Types
  <1>13. ASSUME NEW r \in records, Handle(r) PROVE Types'
    <2>1. memory' \in AMemory /\ tick' \in ATick /\ events' \in [Conns -> Seq({"start", "end"})]
      BY <1>13, HandleWrites
    <2> QED
      BY <1>0, <1>13, <2>1 DEF Handle, Types
  <1>14. CASE Stop
    <2>1. memory' \in AMemory /\ tick' \in ATick
      BY <1>14, BlankTypes DEF Stop
    <2> QED
      BY <1>0, <1>14, <2>1 DEF Stop, Types
  <1>15. CASE Pass
    <2>1. clock' \in Nat /\ ticked' \in BOOLEAN
      <3>1. clock' = clock + 1 /\ ticked' = FALSE
        BY <1>15 DEF Pass
      <3>2. clock' \in Nat
        BY <1>0, <3>1
      <3> QED
        BY <3>1, <3>2
    <2>2. freed' \in [Pids -> Int]
      BY <1>0, <1>15 DEF Pass
    <2>3. UNCHANGED <<table, session, records, requests, events, up, memory, tick>>
      BY <1>15 DEF Pass
    <2> QED
      BY <1>0, <2>1, <2>2, <2>3 DEF Types
  <1> QED
    BY <1>1, <1>2, <1>3, <1>4, <1>5, <1>6, <1>7, <1>8, <1>9, <1>10, <1>11, <1>12, <1>13, <1>14, <1>15
       DEF Next, ReaperStep
-----------------------------------------------------------------------------
(* Processes: what a step may do to them.                                  *)

SessionsMove ==
    \A c \in Conns :
        /\ session[c].state # "none" => session'[c].state # "none"
        /\ session'[c].state = "open" /\ session[c].state # "none" =>
              /\ session[c].state = "open" /\ session'[c].pid = session[c].pid
              /\ session'[c].deadline = session[c].deadline
              /\ table'[session[c].pid] = table[session[c].pid]
        /\ session'[c].state = "open" /\ session[c].state = "none" => session'[c].since < 0
        /\ session[c].state = "open" /\ session'[c].state # "open" =>
              /\ clock' = clock /\ table'[session[c].pid] = Free /\ freed'[session[c].pid] = clock

PastStays ==
    \A p \in Pids, t \in Int : t <= clock =>
        (Past(p, t) => /\ table'[p] # Free => table'[p].start > t
                       /\ table'[p] = Free => freed'[p] >= t \/ clock' > t)

WorldMoves == clock' >= clock /\ SessionsMove /\ PastStays

NothingRegistered == \A c \in Conns : Open(c) /\ session'[c].state = "open" => session'[c] = session[c]

LEMMA ProcessFacts ==
    ASSUME Types
    PROVE  /\ \A p \in Pids : /\ table[p].start \in Int /\ freed[p] \in Int
                              /\ table[p].owner \in Conns \cup {Nobody}
           /\ \A c \in Conns : /\ session[c].pid \in Pids /\ session[c].since \in Int
                               /\ session[c].deadline \in Deadlines \cup {NoDeadline}
           /\ clock \in Nat /\ clock \in Int
           /\ Free.owner \notin Conns /\ Free.start = -1
  BY ReaperAssumption DEF Types, AProc, ASession, Free

LEMMA EndMoves ==
    ASSUME Types, Processes, NEW p \in Pids, Busy(table, p), EndOf(p), UNCHANGED clock
    PROVE  WorldMoves /\ Processes' /\ NothingRegistered
  <1>0. /\ \A q \in Pids : /\ table[q].start \in Int /\ freed[q] \in Int
                           /\ freed[q] <= clock /\ table[q].start <= clock
                           /\ table[q] # Free => table[q].start >= 0
        /\ \A c \in Conns : /\ session[c].pid \in Pids /\ session[c].since \in Int
                            /\ session[c].since <= clock
        /\ clock \in Nat
    BY ProcessFacts DEF Processes
  <1>1. /\ \A q \in Pids : table'[q] = IF q = p THEN Free ELSE table[q]
        /\ \A q \in Pids : freed'[q] = IF q = p THEN clock ELSE freed[q]
    BY DEF EndOf, Types
  <1>2. \A c \in Conns : session'[c] = IF Open(c) /\ session[c].pid = p THEN Over ELSE session[c]
    BY DEF EndOf, Types, Processes
  <1>3. Over.state = "over" /\ Over.since = -1
    BY DEF Over, NotBegun
  <1>4. Free.start = -1 /\ Free.owner \notin Conns
    BY ReaperAssumption DEF Free
  <1>5. SessionsMove
    BY <1>0, <1>1, <1>2, <1>3 DEF SessionsMove, Open
  <1>6. PastStays
    BY <1>0, <1>1 DEF PastStays, Past, Busy
  <1>7. NothingRegistered
    BY <1>2, <1>3 DEF NothingRegistered, Open
  <1>8. \A q \in Pids : /\ freed'[q] <= clock' /\ table'[q].start <= clock'
                        /\ table'[q] # Free => table'[q].start >= 0
    BY <1>0, <1>1, <1>4
  <1>9. \A q \in Pids, c \in Conns :
            table'[q].owner = c <=> session'[c].state = "open" /\ session'[c].pid = q
    BY <1>1, <1>2, <1>3, <1>4 DEF Processes, Open
  <1>10. \A c \in Conns : session'[c].since <= clock'
    BY <1>0, <1>2, <1>3
  <1> QED
    BY <1>0, <1>5, <1>6, <1>7, <1>8, <1>9, <1>10 DEF WorldMoves, Processes, Open

LEMMA StandStill ==
    ASSUME Types, Processes, UNCHANGED <<clock, table, freed, session>>
    PROVE  WorldMoves /\ Processes' /\ NothingRegistered
  <1>1. WorldMoves
    BY ProcessFacts DEF WorldMoves, SessionsMove, PastStays, Past
  <1>2. Processes'
    BY DEF Processes, Open
  <1> QED
    BY <1>1, <1>2 DEF NothingRegistered

LEMMA WorldNext ==
    ASSUME Reliable, Types, Processes, [Next]_vars
    PROVE  /\ WorldMoves /\ Processes'
           /\ NothingRegistered \/ \E c \in Conns : Register(c)
  <1>0. /\ \A q \in Pids : /\ table[q].start \in Int /\ freed[q] \in Int
                           /\ freed[q] <= clock /\ table[q].start <= clock
                           /\ table[q] # Free => table[q].start >= 0
        /\ \A c \in Conns : /\ session[c].pid \in Pids /\ session[c].since \in Int
                            /\ session[c].since <= clock
        /\ clock \in Nat
        /\ Free.start = -1 /\ Free.owner \notin Conns
    BY ProcessFacts DEF Processes
  <1>1. CASE UNCHANGED vars
    BY <1>1, StandStill DEF vars
  <1>2. ASSUME NEW c \in Conns, Register(c) PROVE WorldMoves /\ Processes'
    <2>1. UNCHANGED <<clock, table, freed>> /\ Open(c)
      BY <1>2 DEF Register
    <2>2. \A d \in Conns : /\ session'[d].state = session[d].state /\ session'[d].pid = session[d].pid
                           /\ session'[d].deadline = session[d].deadline
                           /\ session'[d].since <= clock
      <3>1. session' = [session EXCEPT ![c] =
                           [session[c] EXCEPT !.since = IF session[c].since < 0 THEN clock ELSE session[c].since]]
        BY <1>2 DEF Register
      <3>2. \A x \in ASession : \A v : /\ [x EXCEPT !.since = v].state = x.state
                                   /\ [x EXCEPT !.since = v].pid = x.pid
                                   /\ [x EXCEPT !.since = v].deadline = x.deadline
                                   /\ [x EXCEPT !.since = v].since = v
        BY DEF ASession
      <3>3. session[c] \in ASession
        BY DEF Types
      <3>4. (IF session[c].since < 0 THEN clock ELSE session[c].since) <= clock
        BY <1>0
      <3>5. \A d \in Conns \ {c} : session'[d] = session[d]
        BY <3>1 DEF Types
      <3>6. session'[c] = [session[c] EXCEPT !.since = IF session[c].since < 0 THEN clock ELSE session[c].since]
        BY <3>1 DEF Types
      <3>7. /\ session'[c].state = session[c].state /\ session'[c].pid = session[c].pid
            /\ session'[c].deadline = session[c].deadline /\ session'[c].since <= clock
        <4> DEFINE v == IF session[c].since < 0 THEN clock ELSE session[c].since
        <4>1. session'[c] = [session[c] EXCEPT !.since = v] /\ v <= clock
          BY <3>4, <3>6
        <4> HIDE DEF v
        <4> QED
          BY <3>2, <3>3, <4>1
      <3> QED
        BY <1>0, <3>5, <3>7
    <2>3. SessionsMove
      BY <2>1, <2>2 DEF SessionsMove, Open
    <2>4. PastStays
      BY <2>1 DEF PastStays, Past
    <2>5. Processes'
      BY <2>1, <2>2 DEF Processes, Open
    <2> QED
      BY <1>0, <2>1, <2>3, <2>4, <2>5 DEF WorldMoves
  <1>3. ASSUME NEW c \in Conns, NEW p \in Pids, Connect(c, p)
        PROVE WorldMoves /\ Processes' /\ NothingRegistered
    <2>1. /\ session[c].state = "none" /\ CanStart(p) /\ table[p] = Free
          /\ UNCHANGED <<clock, freed>>
      BY <1>3 DEF Connect, CanStart, Busy
    <2>2. \A q \in Pids : table'[q] = IF q = p THEN [owner |-> c, start |-> clock] ELSE table[q]
      BY <1>3 DEF Connect, Types
    <2>3. /\ session'[c].state = "open" /\ session'[c].pid = p /\ session'[c].since = -1
          /\ \A d \in Conns \ {c} : session'[d] = session[d]
      BY <1>3 DEF Connect, Types
    <2>4. SessionsMove
      <3>1. \A d \in Conns : Open(d) => session[d].pid # p
        BY <1>0, <2>1 DEF Processes
      <3> QED
        BY <1>0, <2>1, <2>2, <2>3, <3>1 DEF SessionsMove, Open
    <2>5. PastStays
      <3>1. freed[p] >= 0 => clock > freed[p]
        BY <1>0, <2>1, ReaperAssumption DEF CanStart, Reliable
      <3>2. ASSUME NEW t \in Int, t <= clock, Past(p, t) PROVE clock > t
        BY <1>0, <2>1, <3>1, <3>2 DEF Past
      <3>3. [owner |-> c, start |-> clock] # Free
        BY <1>0 DEF Free
      <3> QED
        BY <1>0, <2>1, <2>2, <3>2, <3>3 DEF PastStays, Past
    <2>6. Processes'
      <3>1. \A q \in Pids : /\ freed'[q] <= clock' /\ table'[q].start <= clock'
                            /\ table'[q] # Free => table'[q].start >= 0
        BY <1>0, <2>1, <2>2
      <3>2. \A q \in Pids, d \in Conns :
                table'[q].owner = d <=> session'[d].state = "open" /\ session'[d].pid = q
        <4> TAKE q \in Pids, d \in Conns
        <4>1. table[q].owner = d <=> session[d].state = "open" /\ session[d].pid = q
          BY DEF Processes, Open
        <4> QED
          BY <1>0, <2>1, <2>2, <2>3, <4>1
      <3>3. \A d \in Conns : session'[d].since <= clock'
        BY <1>0, <2>1, <2>3
      <3> QED
        BY <3>1, <3>2, <3>3 DEF Processes, Open
    <2>7. NothingRegistered
      BY <2>1, <2>3 DEF NothingRegistered, Open
    <2> QED
      BY <1>0, <2>1, <2>4, <2>5, <2>6, <2>7 DEF WorldMoves
  <1>4. ASSUME NEW p \in Pids, Spawn(p) PROVE WorldMoves /\ Processes' /\ NothingRegistered
    <2>1. CanStart(p) /\ table[p] = Free /\ UNCHANGED <<clock, freed, session>>
      BY <1>4 DEF Spawn, CanStart, Busy
    <2>2. \A q \in Pids : table'[q] = IF q = p THEN [owner |-> Nobody, start |-> clock] ELSE table[q]
      BY <1>4 DEF Spawn, Types
    <2>3. \A d \in Conns : Open(d) => session[d].pid # p
      BY <1>0, <2>1 DEF Processes
    <2>4. SessionsMove
      BY <1>0, <2>1, <2>2, <2>3 DEF SessionsMove, Open
    <2>5. PastStays
      <3>1. freed[p] >= 0 => clock > freed[p]
        BY <1>0, <2>1, ReaperAssumption DEF CanStart, Reliable
      <3>2. ASSUME NEW t \in Int, t <= clock, Past(p, t) PROVE clock > t
        BY <1>0, <2>1, <3>1, <3>2 DEF Past
      <3>3. [owner |-> Nobody, start |-> clock] # Free
        BY <1>0 DEF Free
      <3> QED
        BY <1>0, <2>1, <2>2, <3>2, <3>3 DEF PastStays, Past
    <2>6. Processes'
      <3>1. \A q \in Pids : /\ freed'[q] <= clock' /\ table'[q].start <= clock'
                            /\ table'[q] # Free => table'[q].start >= 0
        BY <1>0, <2>1, <2>2
      <3>2. \A q \in Pids, d \in Conns :
                table'[q].owner = d <=> session'[d].state = "open" /\ session'[d].pid = q
        <4> TAKE q \in Pids, d \in Conns
        <4>1. table[q].owner = d <=> session[d].state = "open" /\ session[d].pid = q
          BY DEF Processes, Open
        <4> QED
          BY <2>1, <2>2, <2>3, <4>1, ReaperAssumption DEF Open
      <3>3. \A d \in Conns : session'[d].since <= clock'
        BY <1>0, <2>1
      <3> QED
        BY <3>1, <3>2, <3>3 DEF Processes, Open
    <2>7. NothingRegistered
      BY <2>1 DEF NothingRegistered
    <2> QED
      BY <1>0, <2>1, <2>4, <2>5, <2>6, <2>7 DEF WorldMoves
  <1>5. ASSUME NEW p \in Pids, Exit(p) PROVE WorldMoves /\ Processes' /\ NothingRegistered
    <2>1. Busy(table, p) /\ EndOf(p) /\ UNCHANGED clock
      BY <1>5 DEF Exit
    <2> QED
      BY <2>1, EndMoves
  <1>6. CASE Signal
    <2>1. CASE tick.force /\ Busy(table, tick.target)
      <3>1. tick.target \in Pids /\ EndOf(tick.target) /\ UNCHANGED clock
        BY <1>6, <2>1 DEF Signal, Types, ATick
      <3> QED
        BY <2>1, <3>1, EndMoves
    <2>2. CASE ~(tick.force /\ Busy(table, tick.target))
      BY <1>6, <2>2, StandStill DEF Signal
    <2> QED
      BY <2>1, <2>2
  <1>7. CASE Pass
    <2>1. clock' = clock + 1 /\ UNCHANGED <<table, session>>
      BY <1>7 DEF Pass
    <2>2. \A q \in Pids : freed'[q] = freed[q] \/ freed'[q] = -1
      BY <1>7 DEF Pass
    <2>3. SessionsMove
      BY <2>1 DEF SessionsMove
    <2>4. PastStays
      BY <1>0, <2>1, <2>2 DEF PastStays, Past
    <2>5. Processes'
      <3>1. \A q \in Pids : /\ freed'[q] <= clock' /\ table'[q].start <= clock'
                            /\ table'[q] # Free => table'[q].start >= 0
        BY <1>0, <2>1, <2>2
      <3>2. \A d \in Conns : session'[d].since <= clock'
        BY <1>0, <2>1
      <3> QED
        BY <2>1, <3>1, <3>2 DEF Processes, Open
    <2>6. NothingRegistered
      BY <2>1 DEF NothingRegistered
    <2> QED
      BY <1>0, <2>1, <2>3, <2>4, <2>5, <2>6 DEF WorldMoves
  <1>8. CASE \/ List \/ Look \/ Finish \/ Start \/ Stop
             \/ \E c \in Conns : Request(c)
             \/ \E r \in records : Drop(r) \/ Handle(r)
    <2>1. UNCHANGED <<clock, table, freed, session>>
      BY <1>8 DEF List, Look, Finish, Start, Stop, Request, Drop, Handle
    <2> QED
      BY <2>1, StandStill
  <1> QED
    BY <1>1, <1>2, <1>3, <1>4, <1>5, <1>6, <1>7, <1>8 DEF Next, ReaperStep
-----------------------------------------------------------------------------
(* Records.                                                                *)

LEMMA NameFacts ==
    /\ \A n \in Names : n[1] \in Pids /\ n[2] \in Conns /\ n = <<n[1], n[2]>>
    /\ Types => /\ \A c \in Conns : NameOf(c) \in Names /\ NameOf(c)[1] = session[c].pid /\ NameOf(c)[2] = c
                /\ \A r \in records : /\ r.name \in Names /\ r.written \in Nat /\ r.written \in Int
                                      /\ r.deadline \in Deadlines \cup {NoDeadline}
  BY DEF Names, NameOf, Types, ASession, ARecord

(* What is known of one record stays so.                                   *)
ARecordHolds(r) ==
    /\ IsNameOf(r.name) /\ r.written <= clock
    /\ Open(r.name[2]) => /\ table[r.name[1]].start <= r.written
                          /\ r.deadline = session[r.name[2]].deadline
    /\ ~Open(r.name[2]) => Past(r.name[1], r.written)

LEMMA NamesStay ==
    ASSUME Types, WorldMoves
    PROVE  \A n \in Names : IsNameOf(n) => IsNameOf(n)'
  <1> SUFFICES ASSUME NEW n \in Names, IsNameOf(n) PROVE IsNameOf(n)'
    OBVIOUS
  <1>1. n[2] \in Conns
    BY NameFacts
  <1> QED
    BY <1>1 DEF IsNameOf, NameOf, Open, WorldMoves, SessionsMove

LEMMA RecordStays ==
    ASSUME Types, Types', Processes, WorldMoves
    PROVE  \A r \in records : ARecordHolds(r) => ARecordHolds(r)'
  <1> SUFFICES ASSUME NEW r \in records, ARecordHolds(r) PROVE ARecordHolds(r)'
    OBVIOUS
  <1>0. /\ r.name \in Names /\ r.name[1] \in Pids /\ r.name[2] \in Conns
        /\ r.written \in Int /\ clock \in Int /\ clock' \in Int /\ clock' >= clock
        /\ r.written <= clock /\ IsNameOf(r.name)
    BY NameFacts DEF ARecordHolds, WorldMoves, Types
  <1>1. IsNameOf(r.name)'
    BY <1>0, NamesStay
  <1>2. r.written <= clock'
    BY <1>0
  <1>3. Open(r.name[2])' => Open(r.name[2])
    BY <1>0 DEF IsNameOf, Open, WorldMoves, SessionsMove
  <1>4. Open(r.name[2]) => session[r.name[2]].pid = r.name[1]
    BY <1>0 DEF IsNameOf, NameOf
  <1>5. Open(r.name[2])' => /\ table'[r.name[1]].start <= r.written
                            /\ r.deadline = session'[r.name[2]].deadline
    BY <1>0, <1>3, <1>4 DEF Open, WorldMoves, SessionsMove, ARecordHolds
  <1>6. ASSUME ~(Open(r.name[2])') PROVE Past(r.name[1], r.written)'
    <2>1. CASE Open(r.name[2])
      <3>1. table'[r.name[1]] = Free /\ freed'[r.name[1]] = clock
        BY <1>0, <1>4, <1>6, <2>1 DEF Open, WorldMoves, SessionsMove
      <3> QED
        BY <1>0, <3>1 DEF Past
    <2>2. CASE ~Open(r.name[2])
      <3>1. Past(r.name[1], r.written)
        BY <2>2 DEF ARecordHolds
      <3> QED
        BY <1>0, <3>1 DEF WorldMoves, PastStays, Past
    <2> QED
      BY <2>1, <2>2
  <1> QED
    BY <1>1, <1>2, <1>5, <1>6 DEF ARecordHolds

LEMMA RecordsInit == Init => RecordsHold /\ Processes
  <1> SUFFICES ASSUME Init PROVE RecordsHold /\ Processes
    OBVIOUS
  <1>1. RecordsHold
    BY BlankTypes DEF Init, RecordsHold, Open
  <1>2. Processes
    <2>1. Free.start = -1 /\ Free.owner = Nobody /\ NotBegun.since = -1 /\ NotBegun.state = "none"
      BY DEF Free, NotBegun
    <2>2. /\ \A p \in Pids : table[p] = Free /\ freed[p] = -1
          /\ \A c \in Conns : session[c] = NotBegun
          /\ clock = 0
      BY DEF Init
    <2> QED
      BY <2>1, <2>2, ReaperAssumption DEF Processes, Open
  <1> QED
    BY <1>1, <1>2

(* The record that a drop takes away is of a session that is over, and so   *)
(* the drop is of no concern to those that are open.                        *)
LEMMA OpenIsKept ==
    ASSUME Types, Processes, RecordsHold, MemoryHolds, TickHolds,
           NEW r \in records, tick.step = "handling", r.name \in tick.todo
    PROVE  ShouldDrop(r) <=> ~Open(r.name[2])
  <1> DEFINE p == r.name[1]
             c == r.name[2]
  <1>0. /\ r.name \in Names /\ p \in Pids /\ c \in Conns /\ r.written \in Int
        /\ table[p].start \in Int /\ freed[p] \in Int /\ clock \in Nat
        /\ table[p].start <= clock
    BY NameFacts, ProcessFacts DEF Processes
  <1>1. IsNameOf(r.name) /\ r.written <= clock
    BY DEF RecordsHold
  <1>2. r.name \in tick.names
    BY DEF TickHolds
  <1>3. ASSUME Open(c) PROVE ~ShouldDrop(r)
    <2>1. session[c].pid = p
      BY <1>1, <1>3 DEF IsNameOf, NameOf
    <2>2. table[p].owner = c
      BY <1>0, <1>3, <2>1 DEF Processes
    <2>3. tick.snap[p] = table[p]
      BY <1>2, <1>3 DEF TickHolds
    <2>4. table[p] # Free /\ table[p].owner # Nobody
      BY <1>0, <2>2, ReaperAssumption DEF Free
    <2>5. table[p].start <= r.written
      BY <1>3 DEF RecordsHold
    <2>6. r.name \in DOMAIN memory.bound => memory.bound[r.name] = table[p].start
      BY <1>3 DEF MemoryHolds
    <2> QED
      BY <1>0, <2>3, <2>4, <2>5, <2>6 DEF ShouldDrop, Busy
  <1>4. ASSUME ~Open(c) PROVE ShouldDrop(r)
    <2>1. Past(p, r.written)
      BY <1>4 DEF RecordsHold
    <2>2. ASSUME r.name \in DOMAIN memory.bound, Busy(table, p) PROVE memory.bound[r.name] # table[p].start
      <3>1. Past(p, memory.bound[r.name]) /\ memory.bound[r.name] <= clock
        BY <1>4, <2>2 DEF MemoryHolds
      <3>2. table[p].start > memory.bound[r.name]
        BY <2>2, <3>1 DEF Past, Busy
      <3>3. memory.bound[r.name] \in Int
        BY <2>2, DictTypes DEF Types, AMemory
      <3> QED
        BY <1>0, <3>2, <3>3
    <2>3. Busy(table, p) => table[p].start > r.written
      BY <2>1 DEF Past, Busy
    <2> QED
      BY <2>2, <2>3 DEF ShouldDrop
  <1> QED
    BY <1>3, <1>4

LEMMA RecordsNext ==
    ASSUME Reliable, Types, Types', Processes, RecordsHold, MemoryHolds, TickHolds, [Next]_vars
    PROVE  RecordsHold'
  <1>0. WorldMoves /\ Processes' /\ (NothingRegistered \/ \E c \in Conns : Register(c))
    BY WorldNext
  <1>1. \A r \in records : ARecordHolds(r)
    BY DEF RecordsHold, ARecordHolds
  <1>2. \A r \in records : ARecordHolds(r)'
    BY <1>0, <1>1, RecordStays
  <1>3. /\ \A r, s \in records : r.name[2] = s.name[2] => r = s
        /\ \A c \in Conns : Open(c) /\ Registered(c) => \E r \in records : r.name = NameOf(c)
    BY DEF RecordsHold
  <1>4. SUFFICES /\ \A r \in records' : ARecordHolds(r)'
                 /\ \A r, s \in records' : r.name[2] = s.name[2] => r = s
                 /\ \A c \in Conns : Open(c)' /\ Registered(c)' => \E r \in records' : r.name = NameOf(c)'
    BY DEF RecordsHold, ARecordHolds
  <1>5. ASSUME NEW c \in Conns, Register(c)
        PROVE  /\ \A r \in records' : ARecordHolds(r)'
               /\ \A r, s \in records' : r.name[2] = s.name[2] => r = s
               /\ \A d \in Conns : Open(d)' /\ Registered(d)' => \E r \in records' : r.name = NameOf(d)'
    <2>0. PICK row : row = [name |-> NameOf(c), written |-> clock, deadline |-> session[c].deadline]
      OBVIOUS
    <2>1. Open(c) /\ records' = {r \in records : r.name # NameOf(c)} \cup {row} /\ UNCHANGED <<clock, table>>
      BY <1>5, <2>0 DEF Register, NameOf
    <2>2. /\ row.name = NameOf(c) /\ row.name[1] = session[c].pid /\ row.name[2] = c
          /\ row.written = clock /\ row.deadline = session[c].deadline
      BY <2>0, NameFacts
    <2>3. \A d \in Conns : /\ session'[d].state = session[d].state /\ session'[d].pid = session[d].pid
                           /\ session'[d].deadline = session[d].deadline
                           /\ d # c => session'[d] = session[d]
      BY <1>5 DEF Register, Types, ASession
    <2>4. ARecordHolds(row)'
      <3>1. IsNameOf(row.name)'
        BY <2>1, <2>2, <2>3 DEF IsNameOf, NameOf, Open
      <3>2. clock \in Int /\ table[session[c].pid].start <= clock
        BY ProcessFacts DEF Processes
      <3> QED
        BY <2>1, <2>2, <2>3, <3>1, <3>2 DEF ARecordHolds, Open
    <2>5. \A r \in records : r.name[2] = c => r.name = NameOf(c)
      BY <2>1, NameFacts DEF RecordsHold, IsNameOf
    <2>6. \A d \in Conns : NameOf(d)' = NameOf(d)
      BY <2>3 DEF NameOf
    <2>7. \A d \in Conns : Open(d)' /\ Registered(d)' => \E r \in records' : r.name = NameOf(d)'
      <3> SUFFICES ASSUME NEW d \in Conns, Open(d)', Registered(d)'
                   PROVE  \E r \in records' : r.name = NameOf(d)
        BY <2>6
      <3>1. CASE d = c
        BY <2>1, <2>2, <3>1
      <3>2. CASE d # c
        <4>1. PICK r \in records : r.name = NameOf(d)
          BY <1>3, <2>3, <3>2 DEF Open, Registered
        <4>2. r.name # NameOf(c)
          BY <3>2, <4>1, NameFacts
        <4> QED
          BY <2>1, <4>1, <4>2
      <3> QED
        BY <3>1, <3>2
    <2> QED
      BY <1>2, <1>3, <2>1, <2>2, <2>4, <2>5, <2>7
  <1>6. ASSUME NEW r \in records, Drop(r), NothingRegistered
        PROVE  /\ \A s \in records' : ARecordHolds(s)'
               /\ \A s, t \in records' : s.name[2] = t.name[2] => s = t
               /\ \A d \in Conns : Open(d)' /\ Registered(d)' => \E s \in records' : s.name = NameOf(d)'
    <2>1. records' = records \ {r} /\ UNCHANGED session
      BY <1>6 DEF Drop
    <2>2. ~Open(r.name[2])
      BY <1>6, OpenIsKept DEF Drop
    <2>3. \A d \in Conns : Open(d) => NameOf(d) # r.name
      BY <2>2, NameFacts
    <2>4. \A d \in Conns : Open(d)' /\ Registered(d)' => \E s \in records' : s.name = NameOf(d)'
      BY <1>3, <2>1, <2>3 DEF Open, Registered, NameOf
    <2> QED
      BY <1>2, <1>3, <2>1, <2>4
  <1>7. ASSUME UNCHANGED records, NothingRegistered
        PROVE  /\ \A s \in records' : ARecordHolds(s)'
               /\ \A s, t \in records' : s.name[2] = t.name[2] => s = t
               /\ \A d \in Conns : Open(d)' /\ Registered(d)' => \E s \in records' : s.name = NameOf(d)'
    <2> SUFFICES ASSUME NEW d \in Conns, Open(d)', Registered(d)'
                 PROVE  \E s \in records' : s.name = NameOf(d)'
      BY <1>2, <1>3, <1>7
    <2>1. session[d].state # "none"
      BY <1>0, ProcessFacts DEF Open, Registered, WorldMoves, SessionsMove, Types, ASession
    <2>2. Open(d)
      BY <1>0, <2>1 DEF Open, WorldMoves, SessionsMove
    <2>3. session'[d] = session[d]
      BY <1>7, <2>2 DEF NothingRegistered, Open
    <2> QED
      BY <1>3, <1>7, <2>2, <2>3 DEF Registered, NameOf
  <1>8. UNCHANGED records \/ (\E c \in Conns : Register(c)) \/ (\E r \in records : Drop(r))
    BY DEF Next, ReaperStep, vars, Request, Connect, Spawn, Exit, List, Look, Signal, Finish, Start, Stop, Pass, Handle
  <1> QED
    BY <1>0, <1>5, <1>6, <1>7, <1>8
-----------------------------------------------------------------------------
(* What the reaper remembers.                                              *)

BoundHolds(n, t) ==
    /\ t <= clock
    /\ Open(n[2]) => t = table[n[1]].start
    /\ ~Open(n[2]) => Past(n[1], t)

LEMMA MemoryFacts ==
    Types => /\ memory.bound \in Dicts(Names) /\ memory.ending \in Dicts(Names)
             /\ memory.reported \in SUBSET Names /\ memory.orphans \in Dicts(Conns)
             /\ DOMAIN memory.bound \subseteq Names /\ \A n \in DOMAIN memory.bound : memory.bound[n] \in Int
             /\ DOMAIN memory.ending \subseteq Names /\ \A n \in DOMAIN memory.ending : memory.ending[n] \in Int
             /\ DOMAIN memory.orphans \subseteq Conns /\ \A c \in DOMAIN memory.orphans : memory.orphans[c] \in Int
  BY DictTypes DEF Types, AMemory

LEMMA BoundStays ==
    ASSUME Types, Types', Processes, WorldMoves, NEW n \in Names, NEW t \in Int, IsNameOf(n), BoundHolds(n, t)
    PROVE  BoundHolds(n, t)'
  <1>0. /\ n[1] \in Pids /\ n[2] \in Conns /\ clock \in Int /\ clock' \in Int /\ clock' >= clock /\ t <= clock
    BY NameFacts DEF BoundHolds, WorldMoves, Types
  <1>1. Open(n[2])' => Open(n[2])
    BY <1>0 DEF IsNameOf, Open, WorldMoves, SessionsMove
  <1>2. Open(n[2]) => session[n[2]].pid = n[1]
    BY <1>0 DEF IsNameOf, NameOf
  <1>3. Open(n[2])' => t = table'[n[1]].start
    BY <1>0, <1>1, <1>2 DEF Open, WorldMoves, SessionsMove, BoundHolds
  <1>4. ASSUME ~(Open(n[2])') PROVE Past(n[1], t)'
    <2>1. CASE Open(n[2])
      <3>1. table'[n[1]] = Free /\ freed'[n[1]] = clock
        BY <1>0, <1>2, <1>4, <2>1 DEF Open, WorldMoves, SessionsMove
      <3> QED
        BY <1>0, <3>1 DEF Past
    <2>2. CASE ~Open(n[2])
      <3>1. Past(n[1], t)
        BY <2>2 DEF BoundHolds
      <3> QED
        BY <1>0, <3>1 DEF WorldMoves, PastStays, Past
    <2> QED
      BY <2>1, <2>2
  <1> QED
    BY <1>0, <1>3, <1>4 DEF BoundHolds

LEMMA MemoryNext ==
    ASSUME Reliable, Types, Types', Processes, RecordsHold, MemoryHolds, TickHolds, [Next]_vars
    PROVE  MemoryHolds'
  <1>0. WorldMoves
    BY WorldNext
  <1>1. /\ \A n \in DOMAIN memory.bound : (\E r \in records : r.name = n) /\ BoundHolds(n, memory.bound[n])
        /\ memory.reported \subseteq DOMAIN memory.bound /\ DOMAIN memory.ending \subseteq DOMAIN memory.bound
        /\ \A n \in DOMAIN memory.ending : memory.ending[n] <= clock
    BY DEF MemoryHolds, BoundHolds
  <1>2. \A n \in DOMAIN memory.bound : BoundHolds(n, memory.bound[n])
    BY <1>1
  <1>3. \A n, t : n \in DOMAIN memory.bound /\ t = memory.bound[n] => BoundHolds(n, t)'
    <2> SUFFICES ASSUME NEW n, NEW t, n \in DOMAIN memory.bound, t = memory.bound[n]
                 PROVE  BoundHolds(n, t)'
      OBVIOUS
    <2>1. n \in Names /\ t \in Int
      BY MemoryFacts
    <2>2. IsNameOf(n) /\ BoundHolds(n, t)
      BY <1>1 DEF RecordsHold
    <2> QED
      BY <1>0, <2>1, <2>2, BoundStays
  <1>4. clock \in Nat /\ clock' \in Nat /\ clock <= clock'
    BY <1>0 DEF Types, WorldMoves
  <1>5. SUFFICES /\ \A n \in DOMAIN memory'.bound : \E r \in records' : r.name = n
                 /\ \A n, t : n \in DOMAIN memory'.bound /\ t = memory'.bound[n] => BoundHolds(n, t)'
                 /\ memory'.reported \subseteq DOMAIN memory'.bound
                 /\ DOMAIN memory'.ending \subseteq DOMAIN memory'.bound
                 /\ \A n \in DOMAIN memory'.ending : memory'.ending[n] <= clock'
    BY DEF MemoryHolds, BoundHolds
  <1>6. ASSUME NEW r \in records, Drop(r)
        PROVE  /\ \A n \in DOMAIN memory'.bound : \E s \in records' : s.name = n
               /\ \A n, t : n \in DOMAIN memory'.bound /\ t = memory'.bound[n] => BoundHolds(n, t)'
               /\ memory'.reported \subseteq DOMAIN memory'.bound
               /\ DOMAIN memory'.ending \subseteq DOMAIN memory'.bound
               /\ \A n \in DOMAIN memory'.ending : memory'.ending[n] <= clock'
    <2>1. records' = records \ {r}
      BY <1>6 DEF Drop
    <2>2. ForgetNames({r.name})
      BY <1>6 DEF Drop
    <2>3. /\ DOMAIN memory'.bound = DOMAIN memory.bound \ {r.name}
          /\ \A n \in DOMAIN memory'.bound : memory'.bound[n] = memory.bound[n]
          /\ DOMAIN memory'.ending = DOMAIN memory.ending \ {r.name}
          /\ \A n \in DOMAIN memory'.ending : memory'.ending[n] = memory.ending[n]
          /\ memory'.reported = memory.reported \ {r.name}
      BY <2>2, ForgetDicts
    <2>4. \A n \in DOMAIN memory'.ending : memory'.ending[n] <= clock'
      BY <1>1, <1>4, <2>3, MemoryFacts
    <2> QED
      BY <1>1, <1>3, <2>1, <2>2, <2>3, <2>4
  <1>7. ASSUME NEW r \in records, Handle(r)
        PROVE  /\ \A n \in DOMAIN memory'.bound : \E s \in records' : s.name = n
               /\ \A n, t : n \in DOMAIN memory'.bound /\ t = memory'.bound[n] => BoundHolds(n, t)'
               /\ memory'.reported \subseteq DOMAIN memory'.bound
               /\ DOMAIN memory'.ending \subseteq DOMAIN memory'.bound
               /\ \A n \in DOMAIN memory'.ending : memory'.ending[n] <= clock'
    <2>1. UNCHANGED <<records, clock, table, session>> /\ ~ShouldDrop(r) /\ tick.step = "handling" /\ r.name \in tick.todo
      BY <1>7 DEF Handle
    <2>2. Open(r.name[2])
      BY <2>1, OpenIsKept
    <2>3. /\ r.name \in Names /\ r.name[1] \in Pids /\ memory'.reported = memory.reported \cup {r.name}
      BY <1>7, HandleDicts
    <2>4. table[r.name[1]].start \in Int /\ table[r.name[1]].start <= clock /\ clock \in Int
      BY <2>3, ProcessFacts DEF Processes
    <2>5. /\ DOMAIN memory'.bound = DOMAIN memory.bound \cup {r.name}
          /\ memory'.bound[r.name] = table[r.name[1]].start
          /\ \A n \in DOMAIN memory.bound : n # r.name => memory'.bound[n] = memory.bound[n]
      BY <1>7, HandleDicts
    <2>6. /\ DOMAIN memory'.ending \subseteq DOMAIN memory.ending \cup {r.name}
          /\ \A n \in DOMAIN memory'.ending : memory'.ending[n] = clock \/ (n \in DOMAIN memory.ending /\ memory'.ending[n] = memory.ending[n])
      <3>1. CASE Starts(r)
        <4>1. /\ DOMAIN memory'.ending = DOMAIN memory.ending \cup {r.name}
              /\ memory'.ending[r.name] = clock
              /\ \A n \in DOMAIN memory.ending : n # r.name => memory'.ending[n] = memory.ending[n]
          BY <1>7, <3>1, HandleDicts
        <4> QED
          BY <4>1
      <3>2. CASE ~Starts(r)
        <4>1. memory'.ending = memory.ending
          BY <1>7, <3>2, HandleDicts
        <4> QED
          BY <4>1
      <3> QED
        BY <3>1, <3>2
    <2>7. \A t : t = table[r.name[1]].start => BoundHolds(r.name, t)'
      BY <2>1, <2>2, <2>4 DEF BoundHolds, Open
    <2>8. \A n \in DOMAIN memory'.ending : memory'.ending[n] <= clock'
      BY <1>1, <1>4, <2>1, <2>6
    <2>9. \A n, t : n \in DOMAIN memory'.bound /\ t = memory'.bound[n] => BoundHolds(n, t)'
      BY <1>3, <2>5, <2>7
    <2> QED
      BY <1>1, <2>1, <2>3, <2>5, <2>6, <2>8, <2>9
  <1>8. CASE Stop
    BY <1>8, BlankTypes DEF Stop
  <1>9. ASSUME memory'.bound = memory.bound, memory'.ending = memory.ending, memory'.reported = memory.reported,
               \A r \in records : \E s \in records' : s.name = r.name
        PROVE  /\ \A n \in DOMAIN memory'.bound : \E s \in records' : s.name = n
               /\ \A n, t : n \in DOMAIN memory'.bound /\ t = memory'.bound[n] => BoundHolds(n, t)'
               /\ memory'.reported \subseteq DOMAIN memory'.bound
               /\ DOMAIN memory'.ending \subseteq DOMAIN memory'.bound
               /\ \A n \in DOMAIN memory'.ending : memory'.ending[n] <= clock'
    <2>1. \A n \in DOMAIN memory'.ending : memory'.ending[n] <= clock'
      BY <1>1, <1>4, <1>9, MemoryFacts
    <2>2. \A n \in DOMAIN memory'.bound : \E s \in records' : s.name = n
      BY <1>1, <1>9
    <2>3. \A n, t : n \in DOMAIN memory'.bound /\ t = memory'.bound[n] => BoundHolds(n, t)'
      BY <1>3, <1>9
    <2> QED
      BY <1>1, <1>9, <2>1, <2>2, <2>3
  <1>10. CASE Finish
    <2>1. UNCHANGED records /\ tick.step = "handling"
      BY <1>10 DEF Finish
    <2>2. DOMAIN memory.bound \subseteq tick.names
      BY <2>1 DEF TickHolds
    <2> QED
      BY <1>9, <1>10, <2>1, <2>2, FinishWrites
  <1>11. ASSUME NEW c \in Conns, Register(c)
         PROVE UNCHANGED memory /\ \A r \in records : \E s \in records' : s.name = r.name
    <2>0. PICK row : row = [name |-> NameOf(c), written |-> clock, deadline |-> session[c].deadline]
      OBVIOUS
    <2>1. UNCHANGED memory /\ records' = {r \in records : r.name # NameOf(c)} \cup {row}
      BY <1>11, <2>0 DEF Register, NameOf
    <2>2. row.name = NameOf(c)
      BY <2>0
    <2> QED
      BY <2>1, <2>2
  <1>12. CASE UNCHANGED <<memory, records>>
    BY <1>9, <1>12
  <1>13. UNCHANGED <<memory, records>> \/ Finish \/ Stop \/ (\E c \in Conns : Register(c))
         \/ \E r \in records : Drop(r) \/ Handle(r)
    BY DEF Next, ReaperStep, vars, Request, Connect, Spawn, Exit, List, Look, Signal, Start, Pass
  <1> QED
    BY <1>6, <1>7, <1>8, <1>9, <1>10, <1>11, <1>12, <1>13

-----------------------------------------------------------------------------
(* What a tick has read.                                                   *)

LEMMA TickFacts ==
    Types => /\ tick.names \subseteq Names /\ tick.todo \subseteq Names /\ tick.asked \subseteq Conns
             /\ tick.live \subseteq Conns /\ tick.target \in Pids /\ tick.force \in BOOLEAN
             /\ tick.step \in {"asleep", "listed", "handling", "signal"}
             /\ tick.snap \in [Pids -> AProc]
  BY DEF Types, ATick

(* What was so for the names of the tick is so after any step that lets the *)
(* tick as it is.                                                          *)
LEMMA TickStays ==
    ASSUME Types, Types', Processes, WorldMoves, TickHolds
    PROVE  /\ \A n \in tick.names : IsNameOf(n)'
           /\ tick.step \in {"handling", "signal"} =>
                 /\ \A n \in tick.names : Open(n[2])' => tick.snap[n[1]] = table'[n[1]]
                 /\ \A n \in tick.names \ tick.todo : Open(n[2])' => n[2] \in tick.live
           /\ \A n \in tick.names : Open(n[2])' => Open(n[2])
  <1>1. \A n \in tick.names : n \in Names /\ n[1] \in Pids /\ n[2] \in Conns /\ IsNameOf(n)
    BY TickFacts, NameFacts DEF TickHolds
  <1>2. \A n \in tick.names : IsNameOf(n)'
    BY <1>1, NamesStay
  <1>3. \A n \in tick.names : Open(n[2])' =>
            Open(n[2]) /\ session[n[2]].pid = n[1] /\ table'[n[1]] = table[n[1]]
    BY <1>1 DEF IsNameOf, NameOf, Open, WorldMoves, SessionsMove
  <1> QED
    BY <1>2, <1>3 DEF TickHolds

LEMMA TickNext ==
    ASSUME Reliable, Types, Types', Processes, RecordsHold, MemoryHolds, TickHolds, [Next]_vars
    PROVE  TickHolds'
  <1>0. WorldMoves
    BY WorldNext
  <1>1. /\ \A n \in tick.names : IsNameOf(n)'
        /\ tick.step \in {"handling", "signal"} =>
                 /\ \A n \in tick.names : Open(n[2])' => tick.snap[n[1]] = table'[n[1]]
                 /\ \A n \in tick.names \ tick.todo : Open(n[2])' => n[2] \in tick.live
        /\ \A n \in tick.names : Open(n[2])' => Open(n[2])
    BY <1>0, TickStays
  <1>2. /\ tick.step # "asleep" => up.on /\ DOMAIN memory.bound \subseteq tick.names
        /\ tick.todo \subseteq tick.names /\ (tick.step = "listed" => tick.todo = tick.names)
    BY DEF TickHolds
  <1>3. CASE UNCHANGED <<tick, up, memory>>
    BY <1>1, <1>2, <1>3 DEF TickHolds
  <1>4. CASE List
    <2>1. /\ up.on /\ UNCHANGED <<up, memory, session>>
          /\ tick'.step = "listed" /\ tick'.names = {r.name : r \in records} /\ tick'.todo = tick'.names
      BY <1>4 DEF List, Types, ATick
    <2>2. \A n \in tick'.names : IsNameOf(n)'
      <3>1. \A n : IsNameOf(n) => IsNameOf(n)'
        BY <2>1 DEF IsNameOf, NameOf, Open
      <3>2. \A n \in tick'.names : IsNameOf(n)
        BY <2>1 DEF RecordsHold
      <3> QED
        BY <3>1, <3>2
    <2>3. DOMAIN memory.bound \subseteq tick'.names
      BY <2>1 DEF MemoryHolds
    <2> QED
      BY <2>1, <2>2, <2>3 DEF TickHolds
  <1>5. CASE Look
    <2>1. Seen = {table}
      BY DEF Seen, Reliable
    <2>2. /\ tick.step = "listed" /\ UNCHANGED <<up, memory, session, table>>
          /\ tick' = [tick EXCEPT !.step = "handling", !.snap = table,
                                  !.asked = {c \in Conns : requests[c] # NoRequest}]
      BY <1>5, <2>1 DEF Look
    <2>3. /\ tick'.step = "handling" /\ tick'.snap = table /\ tick'.names = tick.names /\ tick'.todo = tick.todo
      BY <2>2 DEF Types, ATick
    <2> QED
      BY <1>1, <1>2, <2>2, <2>3 DEF TickHolds
  <1>6. CASE Signal
    <2>1. /\ tick.step = "signal" /\ UNCHANGED <<up, memory>>
          /\ tick'.step = "handling" /\ tick'.names = tick.names /\ tick'.todo = tick.todo
          /\ tick'.snap = tick.snap /\ tick'.live = tick.live
      BY <1>6 DEF Signal, Types, ATick
    <2> QED
      BY <1>1, <1>2, <2>1 DEF TickHolds
  <1>7. CASE Finish \/ Stop
    <2>1. tick' = Asleep
      BY <1>7 DEF Finish, Stop
    <2> QED
      BY <2>1, BlankTypes DEF TickHolds
  <1>8. CASE Start
    <2>1. ~up.on /\ UNCHANGED <<tick, memory>>
      BY <1>8 DEF Start
    <2>2. tick.step = "asleep"
      BY <1>2, <2>1
    <2> QED
      BY <1>1, <1>2, <2>1, <2>2 DEF TickHolds
  <1>9. ASSUME NEW r \in records, Drop(r) PROVE TickHolds'
    <2>1. /\ tick.step = "handling" /\ r.name \in tick.todo /\ ShouldDrop(r) /\ UNCHANGED <<up, session, table>>
          /\ tick'.step = tick.step /\ tick'.names = tick.names /\ tick'.todo = tick.todo \ {r.name}
          /\ tick'.snap = tick.snap /\ tick'.live = tick.live
      BY <1>9 DEF Drop, Types, ATick
    <2>2. ~(Open(r.name[2])')
      BY <1>1, <1>2, <2>1, OpenIsKept
    <2>3. DOMAIN memory'.bound \subseteq DOMAIN memory.bound
      <3>1. ForgetNames({r.name})
        BY <1>9 DEF Drop
      <3> QED
        BY <3>1, ForgetDicts
    <2> QED
      BY <1>1, <1>2, <2>1, <2>2, <2>3 DEF TickHolds
  <1>10. ASSUME NEW r \in records, Handle(r) PROVE TickHolds'
    <2>1. tick.step = "handling" /\ r.name \in tick.todo /\ UNCHANGED <<up, session, table>>
      BY <1>10 DEF Handle
    <2>2. /\ tick'.todo = tick.todo \ {r.name} /\ tick'.live = tick.live \cup {r.name[2]}
          /\ tick'.step \in {"handling", "signal"} /\ tick'.names = tick.names /\ tick'.snap = tick.snap
      BY <1>10, HandleTick
    <2>3. DOMAIN memory'.bound = DOMAIN memory.bound \cup {r.name}
      BY <1>10, HandleDicts
    <2> QED
      BY <1>1, <1>2, <2>1, <2>2, <2>3 DEF TickHolds
  <1> QED
    BY <1>3, <1>4, <1>5, <1>6, <1>7, <1>8, <1>9, <1>10
       DEF Next, ReaperStep, vars, Register, Request, Connect, Spawn, Exit, Pass
-----------------------------------------------------------------------------
(* Signals.                                                                *)

LEMMA SignalNext ==
    ASSUME Reliable, Types, Types', Processes, RecordsHold, MemoryHolds, TickHolds, SignalHolds, [Next]_vars
    PROVE  SignalHolds'
  <1> DEFINE t == tick.target
  <1>0. /\ ~misfired /\ clock \in Nat /\ tick.target \in Pids
        /\ \A p \in Pids : freed[p] \in Int /\ table[p].start \in Int
        /\ Free.start = -1
    BY TickFacts, ProcessFacts DEF SignalHolds
  <1>1. tick.step = "signal" =>
           /\ table[t] # Free /\ table[t].owner \notin tick.live => table[t].start = clock /\ ~ticked
           /\ ticked => table[t] # Free \/ freed[t] = clock
    BY DEF SignalHolds
  <1>2. CASE UNCHANGED <<clock, table, freed, tick, ticked, misfired>>
    BY <1>2 DEF SignalHolds
  <1>3. CASE tick'.step # "signal" /\ UNCHANGED misfired
    BY <1>0, <1>3 DEF SignalHolds
  <1>4. ASSUME NEW p \in Pids, CanStart(p), NEW o \in Conns \cup {Nobody},
               table' = [table EXCEPT ![p] = [owner |-> o, start |-> clock]],
               UNCHANGED <<clock, freed, tick, ticked, misfired>>
        PROVE  SignalHolds'
    <2>1. /\ table'[p] = [owner |-> o, start |-> clock] /\ table'[p] # Free
          /\ \A q \in Pids \ {p} : table'[q] = table[q]
      BY <1>0, <1>4 DEF Types, Free
    <2>2. table[p] = Free /\ freed[p] # clock
      BY <1>0, <1>4, ReaperAssumption DEF CanStart, Busy, Reliable
    <2>3. CASE tick.step = "signal" /\ t = p
      <3>1. ~ticked
        BY <1>1, <2>2, <2>3
      <3> QED
        BY <1>0, <1>4, <2>1, <2>3, <3>1 DEF SignalHolds
    <2>4. CASE ~(tick.step = "signal" /\ t = p)
      BY <1>0, <1>1, <1>4, <2>1, <2>4 DEF SignalHolds
    <2> QED
      BY <2>3, <2>4
  <1>5. ASSUME NEW c \in Conns, NEW p \in Pids, Connect(c, p) PROVE SignalHolds'
    BY <1>4, <1>5 DEF Connect
  <1>6. ASSUME NEW p \in Pids, Spawn(p) PROVE SignalHolds'
    BY <1>4, <1>6 DEF Spawn
  <1>7. ASSUME NEW p \in Pids, Exit(p) PROVE SignalHolds'
    <2>1. UNCHANGED <<clock, tick, ticked, misfired>>
      BY <1>7 DEF Exit
    <2>2. /\ table'[p] = Free /\ freed'[p] = clock
          /\ \A q \in Pids \ {p} : table'[q] = table[q] /\ freed'[q] = freed[q]
      BY <1>7 DEF Exit, EndOf, Types
    <2> QED
      BY <1>0, <1>1, <2>1, <2>2 DEF SignalHolds
  <1>8. CASE Pass
    <2>1. UNCHANGED <<table, tick, misfired>> /\ (up.on => ticked) /\ ticked' = FALSE
      BY <1>8 DEF Pass
    <2>2. CASE tick.step = "signal"
      <3>1. ticked
        BY <2>1, <2>2 DEF TickHolds
      <3>2. ~(table[t] # Free /\ table[t].owner \notin tick.live)
        BY <1>1, <2>2, <3>1
      <3> QED
        BY <1>0, <2>1, <3>2 DEF SignalHolds
    <2>3. CASE tick.step # "signal"
      BY <1>3, <2>1, <2>3
    <2> QED
      BY <2>2, <2>3
  <1>9. CASE Signal
    <2>1. tick'.step = "handling" /\ tick.step = "signal"
      BY <1>9 DEF Signal, Types, ATick
    <2>2. misfired' = (misfired \/ ( /\ Busy(table, t) /\ table[t].owner \notin tick.live
                                    /\ table[t].start < clock))
      BY <1>9 DEF Signal
    <2>3. ~(Busy(table, t) /\ table[t].owner \notin tick.live /\ table[t].start < clock)
      BY <1>0, <1>1, <2>1 DEF Busy
    <2>4. ~(misfired')
      BY <1>0, <2>2, <2>3
    <2> QED
      BY <2>1, <2>4 DEF SignalHolds
  <1>10. ASSUME NEW r \in records, Handle(r) PROVE SignalHolds'
    <2>1. /\ tick.step = "handling" /\ r.name \in tick.todo /\ ~ShouldDrop(r)
          /\ UNCHANGED <<clock, table, freed, ticked, misfired>>
          /\ tick'.target = r.name[1] /\ tick'.live = tick.live \cup {r.name[2]}
      BY <1>10, HandleTick
    <2>2. Open(r.name[2])
      BY <2>1, OpenIsKept
    <2>3. r.name \in Names /\ r.name[1] \in Pids /\ r.name[2] \in Conns
      BY NameFacts
    <2>4. table[r.name[1]].owner = r.name[2]
      BY <2>2, <2>3 DEF RecordsHold, IsNameOf, NameOf, Processes
    <2>5. table[r.name[1]] # Free
      BY <2>3, <2>4, ReaperAssumption DEF Free
    <2> QED
      BY <1>0, <2>1, <2>4, <2>5 DEF SignalHolds
  <1>11. ASSUME NEW r \in records, Drop(r) PROVE SignalHolds'
    <2>1. tick'.step = "handling" /\ UNCHANGED misfired
      BY <1>11 DEF Drop, Types, ATick
    <2> QED
      BY <1>3, <2>1
  <1>12. CASE List \/ Look
    <2>1. tick'.step # "signal" /\ UNCHANGED misfired
      BY <1>12 DEF List, Look, Types, ATick
    <2> QED
      BY <1>3, <2>1
  <1>13. CASE Finish \/ Stop
    <2>1. tick'.step # "signal" /\ UNCHANGED misfired
      BY <1>13, BlankTypes DEF Finish, Stop
    <2> QED
      BY <1>3, <2>1
  <1> QED
    BY <1>2, <1>5, <1>6, <1>7, <1>8, <1>9, <1>10, <1>11, <1>12, <1>13
       DEF Next, ReaperStep, vars, Register, Request, Start

-----------------------------------------------------------------------------
(* Requests.                                                               *)

LEMMA RequestFacts ==
    Types => /\ \A c \in Conns : requests[c].first \in Int /\ requests[c].last \in Int
             /\ NoRequest.first = -1 /\ NoRequest.last = -1 /\ clock \in Nat
  BY DEF Types, NoRequest

LEMMA RequestsNext ==
    ASSUME Types, Types', TickHolds, RequestsHold, [Next]_vars
    PROVE  RequestsHold'
  <1>0. /\ \A c \in Conns : requests[c].first \in Int /\ requests[c].last \in Int
        /\ NoRequest.first = -1 /\ NoRequest.last = -1 /\ clock \in Nat
        /\ DOMAIN memory.orphans \subseteq Conns /\ tick.asked \subseteq Conns
    BY RequestFacts, MemoryFacts, TickFacts
  <1>1. /\ \A c \in Conns : requests[c].first <= clock /\ requests[c].last <= clock
        /\ \A c \in DOMAIN memory.orphans : requests[c] # NoRequest /\ requests[c].first <= memory.orphans[c]
        /\ tick.step \in {"handling", "signal"} => \A c \in tick.asked : requests[c] # NoRequest
    BY DEF RequestsHold
  <1>2. ASSUME UNCHANGED <<clock, requests>>, memory'.orphans = memory.orphans,
               tick'.step \in {"handling", "signal"} => tick.step \in {"handling", "signal"} /\ tick'.asked = tick.asked
        PROVE  RequestsHold'
    BY <1>1, <1>2 DEF RequestsHold
  <1>3. ASSUME NEW c \in Conns, Request(c) PROVE RequestsHold'
    <2>1. /\ \A d \in Conns \ {c} : requests'[d] = requests[d]
          /\ requests'[c] = [first |-> IF requests[c] = NoRequest THEN clock ELSE requests[c].first, last |-> clock]
          /\ UNCHANGED <<clock, memory, tick>>
      BY <1>3 DEF Request, Types
    <2>2. /\ requests'[c].first = IF requests[c] = NoRequest THEN clock ELSE requests[c].first
          /\ requests'[c].last = clock
      BY <2>1
    <2>3. requests'[c] # NoRequest
      BY <1>0, <2>2
    <2> QED
      BY <1>0, <1>1, <2>1, <2>2, <2>3 DEF RequestsHold
  <1>4. CASE Pass
    <2>1. clock' = clock + 1 /\ UNCHANGED <<requests, memory, tick>>
      BY <1>4 DEF Pass
    <2>2. \A c \in Conns : requests[c].first <= clock' /\ requests[c].last <= clock'
      BY <1>0, <1>1, <2>1
    <2> QED
      BY <1>1, <2>1, <2>2 DEF RequestsHold
  <1>5. CASE Look
    <2>0. PICK t : tick' = [tick EXCEPT !.step = "handling", !.snap = t,
                                        !.asked = {c \in Conns : requests[c] # NoRequest}]
      BY <1>5 DEF Look
    <2>1. /\ tick'.asked = {c \in Conns : requests[c] # NoRequest}
          /\ UNCHANGED <<clock, requests, memory>>
      BY <1>5, <2>0 DEF Look, Types, ATick
    <2> QED
      BY <1>1, <2>1 DEF RequestsHold
  <1>6. CASE Finish
    <2>1. tick.step = "handling" /\ UNCHANGED clock /\ tick' = Asleep
      BY <1>6 DEF Finish
    <2>2. tick'.step = "asleep"
      BY <2>1, BlankTypes
    <2>3. \A c \in Conns : requests'[c] = IF c \in Expired THEN NoRequest ELSE requests[c]
      BY <1>6 DEF Finish
    <2>4. memory'.orphans = [c \in Orphans \ Expired |-> FirstSeen(c)]
      BY <1>6 DEF Finish
    <2>5. ASSUME NEW c \in DOMAIN memory'.orphans
          PROVE  requests'[c] # NoRequest /\ requests'[c].first <= memory'.orphans[c]
      <3>1. c \in Orphans \ Expired /\ memory'.orphans[c] = FirstSeen(c)
        BY <2>4, <2>5
      <3>2. c \in Conns /\ requests[c] # NoRequest /\ requests'[c] = requests[c]
        BY <1>0, <1>1, <2>1, <2>3, <3>1 DEF Orphans
      <3>3. requests[c].first <= FirstSeen(c)
        BY <1>1, <3>2 DEF FirstSeen
      <3> QED
        BY <3>1, <3>2, <3>3
    <2>6. \A c \in Conns : requests'[c].first <= clock' /\ requests'[c].last <= clock'
      BY <1>0, <1>1, <2>1, <2>3
    <2> QED
      BY <2>2, <2>5, <2>6 DEF RequestsHold
  <1>7. CASE Stop
    <2>1. UNCHANGED <<clock, requests>> /\ tick'.step = "asleep" /\ DOMAIN memory'.orphans = {}
      BY <1>7, BlankTypes DEF Stop
    <2> QED
      BY <1>1, <2>1 DEF RequestsHold
  <1>8. ASSUME NEW r \in records, Drop(r) PROVE RequestsHold'
    <2>1. ForgetNames({r.name}) /\ UNCHANGED <<clock, requests>> /\ tick.step = "handling" /\ tick'.asked = tick.asked
      BY <1>8 DEF Drop, Types, ATick
    <2>2. memory'.orphans = memory.orphans
      BY <2>1, ForgetDicts
    <2> QED
      BY <1>2, <2>1, <2>2
  <1>9. ASSUME NEW r \in records, Handle(r) PROVE RequestsHold'
    <2>1. UNCHANGED <<clock, requests>> /\ tick.step = "handling" /\ tick'.asked = tick.asked
      BY <1>9, HandleTick
    <2>2. memory'.orphans = memory.orphans
      BY <1>9, HandleDicts
    <2> QED
      BY <1>2, <2>1, <2>2
  <1>10. CASE List \/ Signal
    <2>1. /\ UNCHANGED <<clock, requests, memory>>
          /\ tick'.step = "listed" \/ (tick.step = "signal" /\ tick'.asked = tick.asked)
      BY <1>10 DEF List, Signal, Types, ATick
    <2> QED
      BY <1>2, <2>1
  <1>11. CASE UNCHANGED <<clock, requests, memory, tick>>
    BY <1>2, <1>11
  <1> QED
    BY <1>3, <1>4, <1>5, <1>6, <1>7, <1>8, <1>9, <1>10, <1>11
       DEF Next, ReaperStep, vars, Register, Connect, Spawn, Exit, Start
-----------------------------------------------------------------------------
(* Live events.                                                            *)

LEMMA AppendFacts ==
    ASSUME NEW S, NEW s \in Seq(S), NEW x \in S
    PROVE  /\ Len(Append(s, x)) = Len(s) + 1 /\ Append(s, x) # <<>>
           /\ \A i \in DOMAIN Append(s, x) : (i \in DOMAIN s /\ Append(s, x)[i] = s[i]) \/ i = Len(s) + 1
           /\ Append(s, x)[Len(s) + 1] = x
           /\ s # <<>> => Append(s, x)[1] = s[1]
           /\ s = <<>> => Append(s, x)[1] = x
  <1>1. Len(Append(s, x)) = Len(s) + 1 /\ Append(s, x) \in Seq(S) /\ Len(s) \in Nat
    OBVIOUS
  <1>2. \A i \in 1..Len(s) : Append(s, x)[i] = s[i]
    OBVIOUS
  <1>3. DOMAIN s = 1..Len(s) /\ DOMAIN Append(s, x) = 1..(Len(s) + 1)
    BY <1>1
  <1>4. Append(s, x)[Len(s) + 1] = x
    OBVIOUS
  <1>5. s # <<>> => Append(s, x)[1] = s[1]
    BY <1>1, <1>2
  <1>6. s = <<>> => Append(s, x)[1] = x
    OBVIOUS
  <1>7. Append(s, x) # <<>>
    BY <1>1
  <1> QED
    BY <1>1, <1>2, <1>3, <1>4, <1>5, <1>6, <1>7

LEMMA EventsNext ==
    ASSUME Reliable, Types, Types', Processes, RecordsHold, MemoryHolds, TickHolds, EventsHold, [Next]_vars
    PROVE  EventsHold'
  <1>0. /\ events \in [Conns -> Seq({"start", "end"})]
        /\ \A c \in Conns : session[c].state \in {"none", "open", "over"} /\ session'[c].state \in {"none", "open", "over"}
        /\ memory.reported \subseteq Names
    BY MemoryFacts DEF Types, ASession
  <1>1. /\ \A c \in Conns : events[c] # <<>> => events[c][1] = "start"
        /\ \A n \in memory.reported : events[n[2]] # <<>>
        /\ \A c \in Conns : \A i \in DOMAIN events[c] :
             events[c][i] = "end" =>
                /\ i = Len(events[c]) /\ session[c].state = "over"
                /\ \A r \in records : r.name[2] # c
    BY DEF EventsHold
  <1>2. \A c \in Conns : session[c].state = "over" => session'[c].state = "over"
    BY <1>0, WorldNext DEF WorldMoves, SessionsMove
  <1>3. ASSUME UNCHANGED events, memory'.reported \subseteq memory.reported,
               \A r \in records' : r \in records \/ Open(r.name[2])
        PROVE  EventsHold'
    BY <1>0, <1>1, <1>2, <1>3 DEF EventsHold, Open
  <1>4. ASSUME NEW c \in Conns, Register(c) PROVE EventsHold'
    <2>1. Open(c) /\ UNCHANGED <<events, memory>>
      BY <1>4 DEF Register
    <2>2. \A r \in records' : r \in records \/ r.name = NameOf(c)
      <3>1. PICK row : row = [name |-> NameOf(c), written |-> clock, deadline |-> session[c].deadline]
        OBVIOUS
      <3>2. records' = {r \in records : r.name # NameOf(c)} \cup {row}
        BY <1>4, <3>1 DEF Register, NameOf
      <3>3. row.name = NameOf(c)
        BY <3>1
      <3> QED
        BY <3>2, <3>3
    <2> QED
      BY <1>3, <2>1, <2>2, NameFacts
  <1>5. ASSUME NEW r \in records, Drop(r) PROVE EventsHold'
    <2> DEFINE c == r.name[2]
    <2>1. /\ ForgetNames({r.name}) /\ UNCHANGED session /\ records' = records \ {r}
          /\ tick.step = "handling" /\ r.name \in tick.todo /\ ShouldDrop(r)
      BY <1>5 DEF Drop
    <2>2. c \in Conns /\ session[c].state = "over"
      BY <1>0, <2>1, OpenIsKept, NameFacts DEF RecordsHold, IsNameOf, Open
    <2>3. memory'.reported = memory.reported \ {r.name}
      BY <2>1, ForgetDicts
    <2>4. /\ \A d \in Conns \ {c} : events'[d] = events[d]
          /\ events'[c] = IF r.name \in memory.reported THEN Append(events[c], "end") ELSE events[c]
      BY <2>1, <2>2 DEF ForgetNames
    <2>5. \A i \in DOMAIN events[c] : events[c][i] # "end"
      BY <1>1, <2>2
    <2>6. \A s \in records' : s.name[2] # c
      BY <2>1 DEF RecordsHold
    <2>7. CASE r.name \notin memory.reported
      <3>1. events' = events
        BY <1>0, <2>1, <2>4, <2>7 DEF ForgetNames
      <3> QED
        BY <1>3, <2>1, <2>3, <3>1
    <2>8. CASE r.name \in memory.reported
      <3>0. events[c] \in Seq({"start", "end"}) /\ events[c] # <<>> /\ events[c][1] = "start"
        BY <1>0, <1>1, <2>2, <2>8
      <3>1. PICK e : e = events[c]
        OBVIOUS
      <3>2. events'[c] = Append(e, "end") /\ e \in Seq({"start", "end"}) /\ e # <<>> /\ e[1] = "start"
        BY <2>4, <2>8, <3>0, <3>1
      <3>3. /\ events'[c] # <<>> /\ events'[c][1] = "start"
            /\ \A i \in DOMAIN events'[c] : events'[c][i] = "end" => i = Len(events'[c])
        <4>1. /\ Len(Append(e, "end")) = Len(e) + 1 /\ Append(e, "end") # <<>>
              /\ \A i \in DOMAIN Append(e, "end") : (i \in DOMAIN e /\ Append(e, "end")[i] = e[i]) \/ i = Len(e) + 1
              /\ Append(e, "end")[1] = e[1]
          BY <3>2, AppendFacts
        <4>2. \A i \in DOMAIN e : e[i] # "end"
          BY <2>5, <3>1
        <4> QED
          BY <3>2, <4>1, <4>2
      <3>4. \A n \in memory'.reported : events'[n[2]] # <<>>
        BY <1>0, <1>1, <2>3, <2>4, <3>3, NameFacts
      <3>5. \A d \in Conns : events'[d] # <<>> => events'[d][1] = "start"
        BY <1>1, <2>4, <3>3
      <3>6. \A d \in Conns : \A i \in DOMAIN events'[d] :
              events'[d][i] = "end" =>
                /\ i = Len(events'[d]) /\ session'[d].state = "over"
                /\ \A s \in records' : s.name[2] # d
        <4> TAKE d \in Conns
        <4>1. CASE d = c
          BY <2>1, <2>2, <2>6, <3>3, <4>1
        <4>2. CASE d # c
          <5>1. events'[d] = events[d]
            BY <2>4, <4>2
          <5> QED
            BY <1>1, <2>1, <5>1
        <4> QED
          BY <4>1, <4>2
      <3> QED
        BY <3>4, <3>5, <3>6 DEF EventsHold
    <2> QED
      BY <2>7, <2>8
  <1>6. ASSUME NEW r \in records, Handle(r) PROVE EventsHold'
    <2> DEFINE c == r.name[2]
    <2>1. /\ tick.step = "handling" /\ r.name \in tick.todo /\ ~ShouldDrop(r)
          /\ UNCHANGED <<session, records>>
      BY <1>6, HandleTick
    <2>2. c \in Conns /\ Open(c) /\ r.name \in Names
      BY <2>1, OpenIsKept, NameFacts
    <2>3. memory'.reported = memory.reported \cup {r.name}
      BY <1>6, HandleDicts
    <2>4. /\ \A d \in Conns \ {c} : events'[d] = events[d]
          /\ events'[c] = IF r.name \in memory.reported THEN events[c] ELSE Append(events[c], "start")
      <3>1. events' = [events EXCEPT ![r.name[2]] =
                            IF r.name \in memory.reported THEN events[r.name[2]]
                            ELSE Append(events[r.name[2]], "start")]
        BY <1>6, HandleWrites
      <3> QED
        BY <1>0, <2>2, <3>1
    <2>5. \A i \in DOMAIN events[c] : events[c][i] # "end"
      BY <1>1, <2>2 DEF Open
    <2>6. /\ events'[c] # <<>> /\ events'[c][1] = "start"
          /\ \A i \in DOMAIN events'[c] : events'[c][i] # "end"
      <3>0. PICK e : e = events[c]
        OBVIOUS
      <3>1. e \in Seq({"start", "end"}) /\ (e # <<>> => e[1] = "start") /\ \A i \in DOMAIN e : e[i] # "end"
        BY <1>0, <1>1, <2>2, <2>5, <3>0
      <3>2. CASE r.name \in memory.reported
        BY <1>1, <2>4, <3>0, <3>1, <3>2
      <3>3. CASE r.name \notin memory.reported
        <4>1. events'[c] = Append(e, "start")
          BY <2>4, <3>0, <3>3
        <4>2. /\ Append(e, "start") # <<>> /\ Append(e, "start")[Len(e) + 1] = "start"
              /\ \A i \in DOMAIN Append(e, "start") : (i \in DOMAIN e /\ Append(e, "start")[i] = e[i]) \/ i = Len(e) + 1
              /\ e # <<>> => Append(e, "start")[1] = e[1]
              /\ e = <<>> => Append(e, "start")[1] = "start"
          BY <3>1, AppendFacts
        <4> QED
          BY <3>1, <4>1, <4>2
      <3> QED
        BY <3>2, <3>3
    <2>7. \A n \in memory'.reported : events'[n[2]] # <<>>
      BY <1>0, <1>1, <2>3, <2>4, <2>6, NameFacts
    <2>8. \A d \in Conns : \A i \in DOMAIN events'[d] :
              events'[d][i] = "end" =>
                /\ i = Len(events'[d]) /\ session'[d].state = "over"
                /\ \A s \in records' : s.name[2] # d
      BY <1>1, <2>1, <2>4, <2>6, ZenonT(60)
    <2>9. \A d \in Conns : events'[d] # <<>> => events'[d][1] = "start"
      BY <1>1, <2>4, <2>6
    <2> QED
      BY <2>7, <2>8, <2>9 DEF EventsHold
  <1>7. CASE Finish
    <2>1. UNCHANGED records /\ tick.step = "handling"
      BY <1>7 DEF Finish
    <2>2. DOMAIN memory.bound \subseteq tick.names
      BY <2>1 DEF TickHolds
    <2>3. UNCHANGED events /\ memory'.reported = memory.reported
      BY <1>7, <2>2, FinishWrites
    <2> QED
      BY <1>3, <2>1, <2>3
  <1>8. CASE Stop
    <2>1. UNCHANGED <<events, records>> /\ memory'.reported = {}
      BY <1>8, BlankTypes DEF Stop
    <2> QED
      BY <1>3, <2>1
  <1>9. CASE UNCHANGED <<events, records, memory>>
    BY <1>3, <1>9
  <1> QED
    BY <1>4, <1>5, <1>6, <1>7, <1>8, <1>9
       DEF Next, ReaperStep, vars, Request, Connect, Spawn, Exit, List, Look, Signal, Start, Pass
-----------------------------------------------------------------------------
(* The invariant without its times, and the two theorems it is enough for.  *)

SafeInv == /\ Types /\ Processes /\ RecordsHold /\ MemoryHolds /\ TickHolds
           /\ SignalHolds /\ RequestsHold /\ EventsHold

LEMMA SafeInit == Init => SafeInv
  <1> SUFFICES ASSUME Init PROVE SafeInv
    OBVIOUS
  <1>1. Types /\ RecordsHold /\ Processes
    BY TypesInit, RecordsInit
  <1>2. /\ DOMAIN memory.bound = {} /\ DOMAIN memory.ending = {} /\ memory.reported = {} /\ DOMAIN memory.orphans = {}
        /\ tick.step = "asleep" /\ tick.names = {} /\ tick.todo = {}
    BY BlankTypes DEF Init
  <1>3. MemoryHolds /\ TickHolds
    BY <1>2 DEF MemoryHolds, TickHolds
  <1>4. SignalHolds
    BY <1>2 DEF SignalHolds, Init
  <1>5. RequestsHold
    <2>1. clock = 0 /\ \A c \in Conns : requests[c].first = -1 /\ requests[c].last = -1
      BY DEF Init, NoRequest
    <2> QED
      BY <1>2, <2>1 DEF RequestsHold
  <1>6. EventsHold
    <2>1. \A c \in Conns : events[c] = <<>>
      BY DEF Init
    <2> QED
      BY <1>2, <2>1 DEF EventsHold
  <1> QED
    BY <1>1, <1>3, <1>4, <1>5, <1>6 DEF SafeInv

LEMMA SafeNext ==
    ASSUME Reliable, SafeInv, [Next]_vars
    PROVE  SafeInv'
  <1>1. Types /\ Processes /\ RecordsHold /\ MemoryHolds /\ TickHolds /\ SignalHolds /\ RequestsHold /\ EventsHold
    BY DEF SafeInv
  <1>2. DOMAIN memory.bound \subseteq tick.names \/ tick.step = "asleep"
    BY <1>1 DEF TickHolds
  <1>3. Types'
    BY <1>1, <1>2, TypesNext
  <1>4. Processes'
    BY <1>1, WorldNext
  <1>5. RecordsHold'
    BY <1>1, <1>3, RecordsNext
  <1>6. MemoryHolds'
    BY <1>1, <1>3, MemoryNext
  <1>7. TickHolds'
    BY <1>1, <1>3, TickNext
  <1>8. SignalHolds'
    BY <1>1, <1>3, SignalNext
  <1>9. RequestsHold'
    BY <1>1, <1>3, RequestsNext
  <1>10. EventsHold'
    BY <1>1, <1>3, EventsNext
  <1> QED
    BY <1>3, <1>4, <1>5, <1>6, <1>7, <1>8, <1>9, <1>10 DEF SafeInv

(* A signal only reaches a process of a session that is due, and an end is  *)
(* only reported of a session that is over, after its start and once.       *)
THEOREM NothingElseIsEnded ==
    ASSUME Reliable
    PROVE  Spec => []OnlySessionsEnd
  <1>1. SafeInv => OnlySessionsEnd
    <2> SUFFICES ASSUME SafeInv PROVE OnlySessionsEnd
      OBVIOUS
    <2>1. SignalsOnlySessions
      BY DEF SafeInv, SignalHolds, SignalsOnlySessions
    <2>2. EventsAreTrue
      <3>1. EventsHold
        BY DEF SafeInv
      <3> SUFFICES ASSUME NEW c \in Conns, NEW i \in DOMAIN events[c], events[c][i] = "end"
                   PROVE  events[c][1] = "start" /\ i = Len(events[c]) /\ session[c].state = "over"
        BY DEF EventsAreTrue
      <3>2. events[c] # <<>>
        OBVIOUS
      <3> QED
        BY <3>1, <3>2 DEF EventsHold
    <2> QED
      BY <2>1, <2>2 DEF OnlySessionsEnd
  <1>2. SafeInv /\ [Next]_vars => SafeInv'
    BY SafeNext
  <1> QED
    BY SafeInit, <1>1, <1>2, PTL DEF Spec

(* The record of a session that is open stays, and so does a request until  *)
(* its time is over, which is never while a tick knows of its session.      *)
THEOREM NothingIsForgottenEarly ==
    ASSUME Reliable
    PROVE  Spec => RecordsAndRequestsStay
  <1> DEFINE Keeps == \A r \in records : Open(r.name[2]) => \E s \in records' : s.name = r.name
             Waits == \A c \in Conns : requests[c] # NoRequest /\ requests'[c] = NoRequest =>
                         /\ clock - requests[c].first >= KillTTL
                         /\ Open(c) => <<session[c].pid, c>> \notin tick.names
  <1>1. SafeInv /\ [Next]_vars => [Keeps]_vars
    <2> SUFFICES ASSUME SafeInv, [Next]_vars, NEW r \in records, Open(r.name[2])
                 PROVE  \E s \in records' : s.name = r.name
      OBVIOUS
    <2>0. Types /\ Processes /\ RecordsHold /\ MemoryHolds /\ TickHolds
      BY DEF SafeInv
    <2>1. ASSUME NEW c \in Conns, Register(c) PROVE \E s \in records' : s.name = r.name
      <3>1. PICK row : row = [name |-> NameOf(c), written |-> clock, deadline |-> session[c].deadline]
        OBVIOUS
      <3>2. records' = {s \in records : s.name # NameOf(c)} \cup {row}
        BY <2>1, <3>1 DEF Register, NameOf
      <3>3. row.name = NameOf(c)
        BY <3>1
      <3> QED
        BY <3>2, <3>3
    <2>2. ASSUME NEW s \in records, Drop(s) PROVE \E x \in records' : x.name = r.name
      <3>1. records' = records \ {s} /\ tick.step = "handling" /\ s.name \in tick.todo /\ ShouldDrop(s)
        BY <2>2 DEF Drop
      <3>2. ~Open(s.name[2])
        BY <2>0, <3>1, OpenIsKept
      <3> QED
        BY <3>1, <3>2
    <2>3. CASE UNCHANGED records
      BY <2>3
    <2> QED
      BY <2>1, <2>2, <2>3
         DEF Next, ReaperStep, vars, Request, Connect, Spawn, Exit, List, Look, Signal, Finish, Start, Stop, Pass, Handle
  <1>2. SafeInv /\ [Next]_vars => [Waits]_vars
    <2> SUFFICES ASSUME SafeInv, [Next]_vars, NEW c \in Conns, requests[c] # NoRequest, requests'[c] = NoRequest
                 PROVE  /\ clock - requests[c].first >= KillTTL
                        /\ Open(c) => <<session[c].pid, c>> \notin tick.names
      OBVIOUS
    <2>0. Types /\ TickHolds /\ RequestsHold
      BY DEF SafeInv
    <2>1. ASSUME NEW d \in Conns, Request(d) PROVE FALSE
      <3>1. requests' = [requests EXCEPT ![d] =
                [first |-> IF requests[d] = NoRequest THEN clock ELSE requests[d].first, last |-> clock]]
        BY <2>1 DEF Request
      <3>2. CASE c = d
        <4>1. requests'[c].last = clock
          BY <2>0, <3>1, <3>2 DEF Types
        <4> QED
          BY <2>0, <4>1, RequestFacts
      <3>3. CASE c # d
        BY <2>0, <3>1, <3>3 DEF Types
      <3> QED
        BY <3>2, <3>3
    <2>2. CASE Finish
      <3>1. c \in Expired
        BY <2>2 DEF Finish
      <3>2. tick.step = "handling" /\ tick.todo = {}
        BY <2>2 DEF Finish
      <3>3. c \notin tick.live /\ clock - FirstSeen(c) >= KillTTL
        BY <3>1 DEF Expired, Orphans
      <3>4. requests[c].first <= FirstSeen(c) /\ FirstSeen(c) \in Int
        BY <2>0, MemoryFacts, RequestFacts DEF FirstSeen, RequestsHold
      <3>5. clock - requests[c].first >= KillTTL
        BY <2>0, <3>3, <3>4, RequestFacts, ReaperAssumption
      <3>6. Open(c) => <<session[c].pid, c>> \notin tick.names
        BY <2>0, <3>2, <3>3 DEF TickHolds
      <3> QED
        BY <3>5, <3>6
    <2>3. CASE UNCHANGED requests
      BY <2>3
    <2> QED
      BY <2>1, <2>2, <2>3
         DEF Next, ReaperStep, vars, Register, Connect, Spawn, Exit, List, Look, Signal, Start, Stop, Pass, Drop, Handle
  <1>3. SafeInv /\ [Next]_vars => SafeInv'
    BY SafeNext
  <1> QED
    BY SafeInit, <1>1, <1>2, <1>3, PTL DEF Spec, RecordsAndRequestsStay, KeepsOpenSessions, RequestsWaitForTheirSession
-----------------------------------------------------------------------------
(* Times.                                                                  *)

InTimeAhead == \A c \in Conns, k \in Nat, asks \in BOOLEAN : clock <= k => EndsBy(c, k, asks)

LEMMA Fresh == MemoryHolds /\ Types => InTimeAhead
  <1> SUFFICES ASSUME MemoryHolds, Types, NEW c \in Conns, NEW k \in Nat, NEW asks \in BOOLEAN, clock <= k
               PROVE  EndsBy(c, k, asks)
    BY DEF InTimeAhead
  <1>1. clock \in Nat /\ Grace \in Nat
    BY ReaperAssumption DEF Types
  <1>2. NameOf(c) \in DOMAIN memory.ending => memory.ending[NameOf(c)] <= k + 2
    BY <1>1, MemoryFacts DEF MemoryHolds
  <1> QED
    BY <1>1, <1>2 DEF EndsBy

LEMMA EndsFrame ==
    ASSUME NEW c \in Conns, NEW k \in Nat, NEW asks \in BOOLEAN, EndsBy(c, k, asks),
           UNCHANGED <<clock, ticked>>, NameOf(c)' = NameOf(c),
           NameOf(c) \in DOMAIN memory.ending <=> NameOf(c) \in DOMAIN memory'.ending,
           NameOf(c) \in DOMAIN memory.ending => memory'.ending[NameOf(c)] = memory.ending[NameOf(c)],
           WillAsk(c, asks) => WillAsk(c, asks)', WillKill(c) => WillKill(c)'
    PROVE  EndsBy(c, k, asks)'
  <1> DEFINE n == NameOf(c)
  <1>1. CASE n \in DOMAIN memory.ending
    <2>1. /\ memory.ending[n] <= k + 2 /\ clock <= k + Grace + 3
          /\ clock = k + Grace + 2 /\ ticked => WillKill(c)
          /\ clock = k + Grace + 3 => ~ticked /\ WillKill(c)
      BY <1>1 DEF EndsBy
    <2>2. /\ memory'.ending[n] <= k + 2 /\ clock' <= k + Grace + 3
          /\ clock' = k + Grace + 2 /\ ticked' => WillKill(c)'
          /\ clock' = k + Grace + 3 => ~ticked' /\ WillKill(c)'
      BY <1>1, <2>1
    <2> QED
      BY <1>1, <2>2 DEF EndsBy
  <1>2. CASE n \notin DOMAIN memory.ending
    <2>1. /\ clock <= k + 2
          /\ clock = k + 1 /\ ticked => WillAsk(c, asks)
          /\ clock = k + 2 => ~ticked /\ WillAsk(c, asks)
      BY <1>2 DEF EndsBy
    <2>2. /\ clock' <= k + 2
          /\ clock' = k + 1 /\ ticked' => WillAsk(c, asks)'
          /\ clock' = k + 2 => ~ticked' /\ WillAsk(c, asks)'
      BY <2>1
    <2> QED
      BY <1>2, <2>2 DEF EndsBy
  <1> QED
    BY <1>1, <1>2

(* The step in which the reaper handles the session itself.                *)
LEMMA EndsHandle ==
    ASSUME SafeInv, NEW c \in Conns, NEW k \in Nat, NEW asks \in BOOLEAN, EndsBy(c, k, asks),
           Watched(c), Cause(c, k, asks), NEW r \in records, Handle(r), r.name = NameOf(c)
    PROVE  EndsBy(c, k, asks)'
  <1> DEFINE n == NameOf(c)
  <1>0. Types /\ RecordsHold /\ MemoryHolds
    BY DEF SafeInv
  <1>1. /\ clock \in Nat /\ Grace \in Nat /\ UNCHANGED <<clock, ticked, session>>
        /\ tick.step = "handling" /\ n \in tick.todo
    BY <1>0, HandleTick, ReaperAssumption DEF Types
  <1>2. n \in Names /\ n[1] = session[c].pid /\ n[2] = c /\ NameOf(c)' = n
    BY <1>0, <1>1, NameFacts DEF NameOf
  <1>3. /\ tick'.step = IF Starts(r) \/ Forces(r) THEN "signal" ELSE "handling"
        /\ tick'.target = session[c].pid /\ tick'.force = Forces(r)
    BY <1>0, <1>2, HandleTick
  <1>4. CASE n \in DOMAIN memory.ending
    <2>1. ~Starts(r) /\ (Forces(r) <=> clock - memory.ending[n] >= Grace)
      BY <1>4 DEF Starts, Forces
    <2>2. memory'.ending = memory.ending
      BY <1>0, <2>1, HandleDicts
    <2>3. memory.ending[n] \in Int /\ memory.ending[n] <= k + 2 /\ clock <= k + Grace + 3
      BY <1>0, <1>4, MemoryFacts DEF EndsBy
    <2>4. CASE Forces(r)
      <3>1. WillKill(c)'
        BY <1>1, <1>3, <2>4 DEF WillKill
      <3>2. clock = k + Grace + 3 => ~ticked
        BY <1>4 DEF EndsBy
      <3> QED
        BY <1>1, <1>2, <1>4, <2>2, <2>3, <3>1, <3>2 DEF EndsBy
    <2>5. CASE ~Forces(r)
      <3>1. clock < k + Grace + 2
        BY <1>1, <2>1, <2>3, <2>5
      <3> QED
        BY <1>1, <1>2, <1>4, <2>2, <2>3, <3>1 DEF EndsBy
    <2> QED
      BY <2>4, <2>5
  <1>5. CASE n \notin DOMAIN memory.ending
    <2>1. /\ clock <= k + 2
          /\ clock = k + 1 /\ ticked => WillAsk(c, asks)
          /\ clock = k + 2 => ~ticked /\ WillAsk(c, asks)
      BY <1>5 DEF EndsBy
    <2>2. CASE Starts(r)
      <3>1. n \in DOMAIN memory'.ending /\ memory'.ending[n] = clock
        BY <1>0, <2>2, HandleDicts
      <3>2. clock <= k + Grace + 3 /\ clock # k + Grace + 3
        BY <1>1, <2>1
      <3>3. ~(clock = k + Grace + 2 /\ ticked)
        BY <1>1, <2>1
      <3> QED
        BY <1>1, <1>2, <2>1, <3>1, <3>2, <3>3 DEF EndsBy
    <2>3. CASE ~Starts(r)
      <3>1. memory'.ending = memory.ending
        BY <1>0, <2>3, HandleDicts
      <3>2. ~IsDue(r)
        BY <1>5, <2>3 DEF Starts
      <3>3. CASE asks
        <4>1. ~WillAsk(c, asks)
          BY <1>1, <1>2, <3>2, <3>3 DEF WillAsk, IsDue
        <4> QED
          BY <1>1, <1>2, <1>5, <2>1, <3>1, <4>1 DEF EndsBy
      <3>4. CASE ~asks
        <4>1. /\ session[c].deadline # NoDeadline /\ session[c].deadline \in Deadlines
              /\ k = Latest(session[c].deadline, KnownSince(c))
          BY <1>0, <3>4, ProcessFacts DEF Cause
        <4>2. r.deadline = session[c].deadline
          BY <1>0, <1>2 DEF RecordsHold, Watched
        <4>3. session[c].deadline \in Nat /\ KnownSince(c) \in Int
          BY <1>0, <4>1, ProcessFacts, ReaperAssumption DEF KnownSince, Latest, Types
        <4>4. session[c].deadline <= k
          BY <4>1, <4>3 DEF Latest
        <4>5. clock < k
          BY <1>1, <3>2, <4>1, <4>2, <4>3, <4>4 DEF IsDue
        <4> QED
          BY <1>1, <1>2, <1>5, <3>1, <4>5 DEF EndsBy
      <3> QED
        BY <3>3, <3>4
    <2> QED
      BY <2>2, <2>3
  <1> QED
    BY <1>4, <1>5
(* A cause that stays keeps its promise in every step.                     *)
LEMMA EndsStay ==
    ASSUME Reliable, SafeInv, SafeInv', [Next]_vars,
           NEW c \in Conns, NEW k \in Nat, NEW asks \in BOOLEAN,
           Watched(c), Watched(c)', Cause(c, k, asks), EndsBy(c, k, asks)
    PROVE  EndsBy(c, k, asks)'
  <1> DEFINE n == NameOf(c)
  <1>0. /\ Types /\ Processes /\ RecordsHold /\ MemoryHolds /\ TickHolds
        /\ Types' /\ clock \in Nat /\ Grace \in Nat
    BY ReaperAssumption DEF SafeInv, Types
  <1>1. NameOf(c)' = n /\ session'[c].pid = session[c].pid
    BY <1>0, WorldNext DEF NameOf, Watched, Open, WorldMoves, SessionsMove
  <1>2. n \in Names /\ n[1] = session[c].pid /\ n[2] = c /\ Open(c)
    BY <1>0, NameFacts DEF Watched
  <1>3. \E r \in records : r.name = n
    BY DEF SafeInv, RecordsHold, Watched
  <1>4. CASE UNCHANGED <<clock, ticked, memory, tick>>
    <2>1. (WillAsk(c, asks) => WillAsk(c, asks)') /\ (WillKill(c) => WillKill(c)')
      BY <1>1, <1>4 DEF WillAsk, WillKill
    <2> QED
      BY <1>1, <1>4, <2>1, EndsFrame
  <1>5. CASE Pass
    <2>1. clock' = clock + 1 /\ ticked' = FALSE /\ ticked /\ UNCHANGED <<memory, tick>>
      BY <1>5 DEF Pass, Watched
    <2>2. (WillAsk(c, asks) => WillAsk(c, asks)') /\ (WillKill(c) => WillKill(c)')
      BY <1>1, <2>1 DEF WillAsk, WillKill
    <2>3. CASE n \in DOMAIN memory.ending
      <3>1. /\ memory.ending[n] <= k + 2 /\ clock <= k + Grace + 3
            /\ clock = k + Grace + 2 => WillKill(c)
            /\ clock # k + Grace + 3
        BY <2>1, <2>3 DEF EndsBy
      <3>2. /\ memory'.ending[n] <= k + 2 /\ clock' <= k + Grace + 3
            /\ ~(ticked')
            /\ clock' = k + Grace + 3 => WillKill(c)'
        BY <1>0, <2>1, <2>2, <3>1
      <3>3. n \in DOMAIN memory'.ending
        BY <2>1, <2>3
      <3> QED
        BY <1>1, <3>2, <3>3 DEF EndsBy
    <2>4. CASE n \notin DOMAIN memory.ending
      <3>1. /\ clock <= k + 2
            /\ clock = k + 1 => WillAsk(c, asks)
            /\ clock # k + 2
        BY <2>1, <2>4 DEF EndsBy
      <3>2. /\ clock' <= k + 2
            /\ ~(ticked')
            /\ clock' = k + 2 => WillAsk(c, asks)'
        BY <1>0, <2>1, <2>2, <3>1
      <3>3. n \notin DOMAIN memory'.ending
        BY <2>1, <2>4
      <3> QED
        BY <1>1, <3>2, <3>3 DEF EndsBy
    <2> QED
      BY <2>3, <2>4
  <1>6. CASE List
    <2>1. /\ UNCHANGED <<clock, ticked, memory>>
          /\ tick'.step = "listed" /\ tick'.todo = {r.name : r \in records}
      BY <1>0, <1>6 DEF List, Types, ATick
    <2>2. n \in tick'.todo
      BY <1>3, <2>1
    <2>3. WillAsk(c, asks)' /\ WillKill(c)'
      BY <1>1, <2>1, <2>2 DEF WillAsk, WillKill
    <2> QED
      BY <1>1, <2>1, <2>3, EndsFrame
  <1>7. CASE Look
    <2>0. PICK t : tick' = [tick EXCEPT !.step = "handling", !.snap = t,
                                        !.asked = {d \in Conns : requests[d] # NoRequest}]
      BY <1>7 DEF Look
    <2>1. /\ UNCHANGED <<clock, ticked, memory>> /\ tick.step = "listed"
          /\ tick'.step = "handling" /\ tick'.todo = tick.todo
          /\ tick'.asked = {d \in Conns : requests[d] # NoRequest}
      BY <1>0, <1>7, <2>0 DEF Look, Types, ATick
    <2>2. asks => c \in tick'.asked
      BY <2>1 DEF Cause
    <2>3. (WillAsk(c, asks) => WillAsk(c, asks)') /\ (WillKill(c) => WillKill(c)')
      BY <1>1, <2>1, <2>2 DEF WillAsk, WillKill
    <2> QED
      BY <1>1, <2>1, <2>3, EndsFrame
  <1>8. CASE Signal
    <2>1. /\ UNCHANGED <<clock, ticked, memory>> /\ tick.step = "signal"
          /\ tick'.step = "handling" /\ tick'.todo = tick.todo /\ tick'.asked = tick.asked
      BY <1>0, <1>8 DEF Signal, Types, ATick
    <2>2. WillAsk(c, asks) => WillAsk(c, asks)'
      BY <1>1, <2>1 DEF WillAsk
    <2>3. ~(tick.force /\ tick.target = session[c].pid)
      <3> SUFFICES ASSUME tick.force, tick.target = session[c].pid PROVE FALSE
        OBVIOUS
      <3>1. table[tick.target].owner = c /\ tick.target \in Pids
        BY <1>0, <1>2, ProcessFacts DEF Processes
      <3>2. Busy(table, tick.target)
        BY <3>1, ReaperAssumption DEF Busy, Free
      <3>3. EndOf(tick.target)
        BY <1>8, <3>2 DEF Signal
      <3>4. session'[c] = Over
        BY <3>1, <3>3 DEF EndOf
      <3> QED
        BY <3>4, BlankTypes DEF Watched, Open
    <2>4. WillKill(c) => WillKill(c)'
      BY <1>1, <2>1, <2>3 DEF WillKill
    <2> QED
      BY <1>1, <2>1, <2>2, <2>4, EndsFrame
  <1>9. CASE Finish
    <2>1. /\ UNCHANGED clock /\ ticked' = TRUE /\ tick.step = "handling" /\ tick.todo = {}
          /\ tick' = Asleep
      BY <1>9 DEF Finish
    <2>2. ~WillAsk(c, asks) /\ ~WillKill(c)
      BY <2>1 DEF WillAsk, WillKill
    <2>3. WillAsk(c, asks)' /\ WillKill(c)'
      BY <2>1, BlankTypes DEF WillAsk, WillKill
    <2>4. memory'.ending = memory.ending
      <3>1. DOMAIN memory.bound \subseteq tick.names
        BY <1>0, <2>1 DEF TickHolds
      <3> QED
        BY <1>0, <1>9, <3>1, FinishWrites
    <2>5. CASE n \in DOMAIN memory.ending
      <3>1. /\ memory.ending[n] <= k + 2 /\ clock <= k + Grace + 3 /\ clock # k + Grace + 3
        BY <2>2, <2>5 DEF EndsBy
      <3>2. n \in DOMAIN memory'.ending /\ memory'.ending[n] <= k + 2 /\ clock' <= k + Grace + 3 /\ clock' # k + Grace + 3
        BY <2>1, <2>4, <2>5, <3>1
      <3> QED
        BY <1>1, <2>3, <3>2 DEF EndsBy
    <2>6. CASE n \notin DOMAIN memory.ending
      <3>1. clock <= k + 2 /\ clock # k + 2
        BY <2>2, <2>6 DEF EndsBy
      <3>2. n \notin DOMAIN memory'.ending /\ clock' <= k + 2 /\ clock' # k + 2
        BY <2>1, <2>4, <2>6, <3>1
      <3> QED
        BY <1>1, <2>3, <3>2 DEF EndsBy
    <2> QED
      BY <2>5, <2>6
  <1>10. CASE Start \/ Stop
    <2>1. ~up.on \/ ~up'.on
      BY <1>0, <1>10 DEF Start, Stop, Types
    <2> QED
      BY <2>1 DEF Watched
  <1>11. ASSUME NEW r \in records, Drop(r) PROVE EndsBy(c, k, asks)'
    <2>1. /\ ForgetNames({r.name}) /\ UNCHANGED <<clock, ticked>>
          /\ tick.step = "handling" /\ r.name \in tick.todo /\ ShouldDrop(r)
          /\ tick'.step = tick.step /\ tick'.todo = tick.todo \ {r.name} /\ tick'.asked = tick.asked
      BY <1>0, <1>11 DEF Drop, Types, ATick
    <2>2. r.name # n
      BY <1>0, <1>2, <2>1, OpenIsKept
    <2>3. /\ n \in DOMAIN memory.ending <=> n \in DOMAIN memory'.ending
          /\ n \in DOMAIN memory.ending => memory'.ending[n] = memory.ending[n]
      BY <1>0, <2>1, <2>2, ForgetDicts
    <2>4. (WillAsk(c, asks) => WillAsk(c, asks)') /\ (WillKill(c) => WillKill(c)')
      BY <1>1, <2>1, <2>2 DEF WillAsk, WillKill
    <2> QED
      BY <1>1, <2>1, <2>3, <2>4, EndsFrame
  <1>12. ASSUME NEW r \in records, Handle(r) PROVE EndsBy(c, k, asks)'
    <2>1. CASE r.name = n
      BY <1>12, <2>1, EndsHandle
    <2>2. CASE r.name # n
      <3>1. /\ UNCHANGED <<clock, ticked>> /\ tick.step = "handling"
            /\ tick'.todo = tick.todo \ {r.name} /\ tick'.asked = tick.asked
        BY <1>0, <1>12, HandleTick
      <3>2. /\ n \in DOMAIN memory.ending <=> n \in DOMAIN memory'.ending
            /\ n \in DOMAIN memory.ending => memory'.ending[n] = memory.ending[n]
        <4>1. CASE Starts(r)
          <5>1. /\ DOMAIN memory'.ending = DOMAIN memory.ending \cup {r.name}
                /\ \A x \in DOMAIN memory.ending : x # r.name => memory'.ending[x] = memory.ending[x]
            BY <1>0, <1>12, <4>1, HandleDicts
          <5> QED
            BY <2>2, <5>1
        <4>2. CASE ~Starts(r)
          <5>1. memory'.ending = memory.ending
            BY <1>0, <1>12, <4>2, HandleDicts
          <5> QED
            BY <5>1
        <4> QED
          BY <4>1, <4>2
      <3>3. tick'.step \in {"handling", "signal"}
        BY <1>0, <1>12, HandleTick
      <3>4. (WillAsk(c, asks) => WillAsk(c, asks)') /\ (WillKill(c) => WillKill(c)')
        BY <1>1, <2>2, <3>1, <3>3 DEF WillAsk, WillKill
      <3> QED
        BY <1>1, <3>1, <3>2, <3>4, EndsFrame
    <2> QED
      BY <2>1, <2>2
  <1> QED
    BY <1>4, <1>5, <1>6, <1>7, <1>8, <1>9, <1>10, <1>11, <1>12
       DEF Next, ReaperStep, vars, Register, Request, Connect, Spawn, Exit

(* A cause is as old as it was, or it is new, and then its time is yet to   *)
(* come.                                                                   *)
LEMMA CauseIsOldOrNew ==
    ASSUME Reliable, SafeInv, SafeInv', [Next]_vars,
           NEW c \in Conns, NEW k \in Nat, NEW asks \in BOOLEAN, Watched(c)', Cause(c, k, asks)'
    PROVE  clock' <= k \/ (Watched(c) /\ Cause(c, k, asks))
  <1>0. Types /\ Types' /\ Processes /\ RequestsHold
    BY DEF SafeInv
  <1>1. /\ clock \in Nat /\ clock' \in Nat /\ up.since \in Int /\ up'.since \in Int
        /\ session'[c].since \in Int /\ session[c].since \in Int
        /\ requests'[c].last \in Int /\ up.on \in BOOLEAN /\ up'.on \in BOOLEAN
        /\ session'[c].deadline # NoDeadline => session'[c].deadline \in Nat
    <2>1. /\ clock \in Nat /\ clock' \in Nat /\ up.since \in Int /\ up'.since \in Int
          /\ up.on \in BOOLEAN /\ up'.on \in BOOLEAN
      BY <1>0 DEF Types
    <2>2. session[c] \in ASession /\ session'[c] \in ASession
      BY <1>0 DEF Types
    <2>3. requests'[c].last \in Int
      BY <1>0 DEF Types
    <2>4. session'[c].deadline \in Deadlines \cup {NoDeadline} /\ session'[c].since \in Int /\ session[c].since \in Int
      BY <2>2 DEF ASession
    <2> QED
      BY <2>1, <2>3, <2>4, ReaperAssumption
  <1>2. KnownSince(c)' <= k /\ (asks => requests'[c].last <= k)
    <2>1. KnownSince(c)' \in Int
      BY <1>1 DEF KnownSince, Latest
    <2>2. asks => requests'[c].last \in Int /\ k = Latest(requests'[c].last, KnownSince(c)')
      BY <1>1 DEF Cause
    <2>3. ~asks => session'[c].deadline \in Nat /\ k = Latest(session'[c].deadline, KnownSince(c)')
      BY <1>1 DEF Cause
    <2> HIDE DEF KnownSince
    <2> QED
      BY <2>1, <2>2, <2>3 DEF Latest
  <1>3. session'[c].since <= k /\ up'.since <= k
    BY <1>1, <1>2 DEF KnownSince, Latest
  <1>4. CASE Start
    <2>1. up'.since = clock /\ UNCHANGED clock
      BY <1>0, <1>4 DEF Start, Types
    <2> QED
      BY <1>3, <2>1
  <1>5. ASSUME NEW d \in Conns, Request(d) PROVE clock' <= k \/ (Watched(c) /\ Cause(c, k, asks))
    <2>1. /\ UNCHANGED <<clock, session, up>>
          /\ requests'[c] = IF c = d THEN [first |-> IF requests[c] = NoRequest THEN clock ELSE requests[c].first,
                                           last |-> clock]
                            ELSE requests[c]
      BY <1>0, <1>5 DEF Request, Types
    <2>2. CASE asks /\ c = d
      <3>1. requests'[c].last = clock
        BY <2>1, <2>2
      <3> QED
        BY <1>2, <2>1, <2>2, <3>1
    <2>3. CASE ~asks
      BY <2>1, <2>3 DEF Watched, Cause, Open, Registered, KnownSince
    <2>4. CASE c # d
      BY <2>1, <2>4 DEF Watched, Cause, Open, Registered, KnownSince
    <2> QED
      BY <2>2, <2>3, <2>4
  <1>6. ASSUME NEW d \in Conns, Register(d) PROVE clock' <= k \/ (Watched(c) /\ Cause(c, k, asks))
    <2>1. UNCHANGED <<clock, requests, up>> /\ Open(d)
      BY <1>6 DEF Register
    <2>2. CASE c = d /\ session[c].since < 0
      <3>1. session'[c].since = clock
        BY <1>0, <1>6, <2>2 DEF Register, Types, ASession
      <3> QED
        BY <1>3, <2>1, <3>1
    <2>3. CASE ~(c = d /\ session[c].since < 0)
      <3>1. /\ session'[c].since = session[c].since /\ session'[c].state = session[c].state
            /\ session'[c].deadline = session[c].deadline
        BY <1>0, <1>6, <2>3 DEF Register, Types, ASession
      <3> QED
        BY <2>1, <3>1 DEF Watched, Cause, Open, Registered, KnownSince
    <2> QED
      BY <2>2, <2>3
  <1>7. ASSUME NothingRegistered, UNCHANGED <<up, requests>> \/ (Finish \/ Stop)
        PROVE  Watched(c) /\ Cause(c, k, asks)
    <2>1. session[c].state # "none"
      <3>1. SessionsMove
        BY <1>0, WorldNext DEF WorldMoves
      <3>2. session'[c].state = "open" /\ session'[c].since >= 0
        BY DEF Watched, Open, Registered
      <3> QED
        BY <1>1, <3>1, <3>2 DEF SessionsMove
    <2>2. Open(c)
      BY <1>0, <2>1, WorldNext DEF Watched, Open, WorldMoves, SessionsMove
    <2>3. session'[c] = session[c]
      BY <1>7, <2>2 DEF NothingRegistered, Watched, Open
    <2>4. UNCHANGED up
      BY <1>0, <1>7 DEF Finish, Stop, Watched, Types
    <2>5. requests'[c] # NoRequest => requests'[c] = requests[c]
      BY <1>0, <1>7 DEF Finish, Stop
    <2> QED
      BY <2>2, <2>3, <2>4, <2>5 DEF Watched, Cause, Registered, KnownSince, Open
  <1>8. NothingRegistered \/ \E d \in Conns : Register(d)
    BY <1>0, WorldNext
  <1>9. \/ Start \/ (\E d \in Conns : Request(d)) \/ (\E d \in Conns : Register(d))
        \/ UNCHANGED <<up, requests>> \/ Finish \/ Stop
    BY DEF Next, ReaperStep, vars, Connect, Spawn, Exit, List, Look, Signal, Pass, Drop, Handle
  <1> QED
    BY <1>4, <1>5, <1>6, <1>7, <1>8, <1>9

LEMMA InTimeNext ==
    ASSUME Reliable, SafeInv, SafeInv', InTime, [Next]_vars
    PROVE  InTime'
  <1> SUFFICES ASSUME NEW c \in Conns, NEW k \in Nat, NEW asks \in BOOLEAN, Watched(c)', Cause(c, k, asks)'
               PROVE  EndsBy(c, k, asks)'
    BY DEF InTime
  <1>1. CASE clock' <= k
    <2>1. MemoryHolds' /\ Types'
      BY DEF SafeInv
    <2>2. InTimeAhead'
      BY <2>1, Fresh, PTL
    <2> QED
      BY <1>1, <2>2 DEF InTimeAhead
  <1>2. CASE Watched(c) /\ Cause(c, k, asks)
    <2>1. EndsBy(c, k, asks)
      BY <1>2 DEF InTime
    <2> QED
      BY <1>2, <2>1, EndsStay
  <1> QED
    BY <1>1, <1>2, CauseIsOldOrNew
(* A session that the reaper knows ends in time: within the grace period    *)
(* and three seconds after its deadline, or after a request.               *)
THEOREM SessionsEndInTime ==
    ASSUME Reliable
    PROVE  Spec => []EndsOnTime
  <1> DEFINE Inv == SafeInv /\ InTime
  <1>1. Init => Inv
    <2> SUFFICES ASSUME Init PROVE Inv
      OBVIOUS
    <2>1. \A c \in Conns : ~Open(c)
      BY BlankTypes DEF Init, Open
    <2> QED
      BY <2>1, SafeInit DEF InTime, Watched
  <1>2. Inv /\ [Next]_vars => Inv'
    <2> SUFFICES ASSUME Inv, [Next]_vars PROVE Inv'
      OBVIOUS
    <2>1. SafeInv'
      BY SafeNext
    <2> QED
      BY <2>1, InTimeNext
  <1>3. Inv => EndsOnTime
    <2> SUFFICES ASSUME Inv, NEW c \in Conns, Open(c), Registered(c), up.on
                 PROVE  /\ session[c].deadline # NoDeadline =>
                               ~(clock > Latest(session[c].deadline, KnownSince(c)) + Grace + 3)
                        /\ requests[c] # NoRequest =>
                               ~(clock > Latest(requests[c].last, KnownSince(c)) + Grace + 3)
      BY DEF EndsOnTime, KnownSince
    <2>1. /\ clock \in Nat /\ Grace \in Nat /\ KnownSince(c) \in Nat
          /\ requests[c].last \in Int
          /\ session[c].deadline # NoDeadline => session[c].deadline \in Nat
      <3>1. Types
        BY DEF SafeInv
      <3>2. up.since \in Nat /\ requests[c].last \in Int
        BY <3>1 DEF Types
      <3>3. session[c].since \in Nat /\ session[c].deadline \in Deadlines \cup {NoDeadline}
        BY <3>1, ProcessFacts DEF Registered
      <3>4. KnownSince(c) \in Nat
        BY <3>2, <3>3 DEF KnownSince, Latest
      <3> QED
        BY <3>1, <3>2, <3>3, <3>4, ReaperAssumption DEF Types
    <2>2. ASSUME NEW k \in Nat, NEW asks \in BOOLEAN, Cause(c, k, asks) PROVE ~(clock > k + Grace + 3)
      <3>1. EndsBy(c, k, asks)
        BY <2>2 DEF InTime, Watched
      <3> QED
        BY <2>1, <3>1 DEF EndsBy
    <2>3. ASSUME session[c].deadline # NoDeadline
          PROVE  ~(clock > Latest(session[c].deadline, KnownSince(c)) + Grace + 3)
      <3>1. PICK k : k = Latest(session[c].deadline, KnownSince(c))
        OBVIOUS
      <3>2. k \in Nat
        BY <2>1, <2>3, <3>1 DEF Latest
      <3>3. Cause(c, k, FALSE)
        BY <2>3, <3>1 DEF Cause
      <3> QED
        BY <2>2, <3>1, <3>2, <3>3
    <2>4. ASSUME requests[c] # NoRequest
          PROVE  ~(clock > Latest(requests[c].last, KnownSince(c)) + Grace + 3)
      <3>1. PICK k : k = Latest(requests[c].last, KnownSince(c))
        OBVIOUS
      <3>2. k \in Nat
        BY <2>1, <3>1 DEF Latest
      <3>3. Cause(c, k, TRUE)
        BY <2>4, <3>1 DEF Cause
      <3> QED
        BY <2>2, <3>1, <3>2, <3>3
    <2> QED
      BY <2>3, <2>4
  <1> QED
    BY <1>1, <1>2, <1>3, PTL DEF Spec

=============================================================================
