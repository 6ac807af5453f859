--------------------------- MODULE SigningProofs ---------------------------
(***************************************************************************)
(* Proofs about the keys that sign certificates: their rotation, for any    *)
(* number of overlapping runs and for all lengths of the periods, and their *)
(* serial numbers, for any requests, keys, batches and number of attempts.  *)
(*                                                                         *)
(* Rotation: the windows of all keys lie on one line of steps of           *)
(* Rotation - Staging.  At every moment one window signs; every other key  *)
(* has the same window, or the next one, or is no longer needed.  A run    *)
(* that has read the table while this window signs leaves the next one     *)
(* behind, and the scheduler guarantees such a run before the window ends. *)
(*                                                                         *)
(* Numbers: the request that has updated a counter holds its row until it   *)
(* commits, and the committed counter is still the number that it read      *)
(* (HoldersAreCurrent).  So its numbers begin where those of the committed  *)
(* certificates end, and the counter moves past exactly these.  A counter   *)
(* never goes back: when it is no longer what a request read, others have   *)
(* moved it since (MissesAreMoves).                                         *)
(*                                                                         *)
(* What a certificate permits (SSHGrants), for all lists of grants,        *)
(* ceilings and denials: the fold over the entries is compared with their   *)
(* meaning one bound at a time.  After each entry, what a table says of     *)
(* one command is the largest bound of the entries so far (Allows), and     *)
(* after each ceiling and each denial the smallest of what is left          *)
(* (Leaves); the tables of commands and of capabilities follow the same     *)
(* three chains.  Induction along a list is by the least place where it     *)
(* fails (UpTo).                                                            *)
(*                                                                         *)
(* How such lists are edited (GrantEditing), for any administrators,        *)
(* objects, names and edits: names go to the client and back to the same    *)
(* objects (SentIsShown, ShownIsSent), and what a form shows is what it     *)
(* makes (ShownIsKept).                                                     *)
(***************************************************************************)
EXTENDS HostTrust, SerialNumbers, SSHGrants, GrantEditing, WellFoundedInduction, TLAPS

(* A window (of a key or of a plan) next to the window of key c.           *)
InLine(w, c) ==
    \/ w.from = c.from
    \/ w.from = c.until - Staging
    \/ w.until <= c.from + Staging

HasNext(c) == \E k \in keys : k.from = c.until - Staging

PlansNext(j, c) == \E w \in run[j].plan : w.from = c.until - Staging

Anchors(c) ==
    /\ \A k \in keys : InLine(k, c)
    /\ \A j \in Jobs : run[j] # Idle => \A w \in run[j].plan : InLine(w, c)
    /\ lastRun >= c.from + Staging => HasNext(c)
    /\ \A j \in Jobs : run[j] # Idle /\ run[j].at >= c.from + Staging
                          => HasNext(c) \/ PlansNext(j, c)

KeyFacts ==
    /\ \A k \in keys : k.until = k.from + Rotation /\ k.made <= now
    /\ keys # {} => nextId >= 2 /\ now <= lastRun + RunEvery
    /\ keys = {} => nextId = 0
    /\ lastRun <= now

RunFacts ==
    \A j \in Jobs : run[j] # Idle =>
        /\ keys # {}
        /\ run[j].at <= now /\ now <= run[j].at + RunTime
        /\ \A w \in run[j].plan :
              /\ w.role = "staged"
              /\ w.until = w.from + Rotation
              /\ run[j].at + Rotation - Staging - RunEvery <= w.from + Staging

Noticed == \A k \in keys : k.id # 0 => k.made + Notice <= k.from + Staging

IInv ==
    /\ RotationTypeOK
    /\ KeyFacts
    /\ RunFacts
    /\ keys # {} => \E c \in Signers : Anchors(c)

-----------------------------------------------------------------------------
(* The types hold on any schedule.                                         *)
THEOREM RotationTypeCorrect == RotationSpec => []RotationTypeOK
<1> USE PeriodsAssumption
<1>1. RotationInit => RotationTypeOK
  BY DEF RotationInit, RotationTypeOK, Runs, Idle
<1>2. RotationTypeOK /\ [RotationNext]_rotationVars => RotationTypeOK'
  <2> SUFFICES ASSUME RotationTypeOK, [RotationNext]_rotationVars
               PROVE  RotationTypeOK'
    OBVIOUS
  <2> USE DEF RotationTypeOK
  <2>w. \A t \in Int : CurrentWindow(t) \in Windows /\ StagedWindow(t) \in Windows
    BY DEF CurrentWindow, StagedWindow, Windows
  <2>r. \A plan \in SUBSET Windows : Rows(plan) \subseteq Keys
    <3> SUFFICES ASSUME NEW plan \in SUBSET Windows, NEW w \in plan
                 PROVE  [id |-> nextId + (IF w.role = "current" THEN 0 ELSE 1),
                         from |-> w.from, until |-> w.until, made |-> now] \in Keys
      BY DEF Rows
    <3> QED  BY DEF Windows, Keys
  <2>1. CASE Initialize
    <3>1. CurrentWindow(now) \in Windows
      BY <2>w
    <3>2. StagedWindow(CurrentWindow(now).until) \in Windows
      BY <3>1, <2>w DEF Windows
    <3> QED  BY <2>1, <2>r, <3>1, <3>2 DEF Initialize
  <2>2. ASSUME NEW j \in Jobs, Read(j)  PROVE RotationTypeOK'
    <3>1. \A plan \in Plans(keys, now) : plan \in SUBSET Windows
      <4>1. CurrentWindow(now) \in Windows /\ StagedWindow(CurrentWindow(now).until) \in Windows
        BY <2>w DEF Windows
      <4>2. \A c \in Current(Recent(keys, now), now) : StagedWindow(c.until) \in Windows
        BY <2>w DEF Current, Recent, Keys
      <4> QED  BY <4>1, <4>2 DEF Plans
    <3> QED  BY <2>2, <3>1 DEF Read, Runs
  <2>3. ASSUME NEW j \in Jobs, Commit(j)  PROVE RotationTypeOK'
    <3>1. run[j] \in [step : {"read"}, at : Nat, plan : SUBSET Windows]
      BY <2>3 DEF Commit, Runs
    <3>2. run' \in [Jobs -> Runs]
      BY <2>3 DEF Commit, Runs
    <3>3. keys' \subseteq Keys
      BY <2>3, <3>1, <2>r DEF Commit
    <3> QED  BY <2>3, <3>1, <3>2, <3>3 DEF Commit
  <2>4. ASSUME NEW j \in Jobs, Fail(j)  PROVE RotationTypeOK'
    BY <2>4 DEF Fail, Runs
  <2>5. CASE Tick
    BY <2>5 DEF Tick
  <2>6. CASE UNCHANGED rotationVars
    BY <2>6 DEF rotationVars
  <2> QED  BY <2>1, <2>2, <2>3, <2>4, <2>5, <2>6 DEF RotationNext
<1> QED  BY <1>1, <1>2, PTL DEF RotationSpec
-----------------------------------------------------------------------------
(* All signers have the window of the anchor.                              *)
LEMMA SignersShareAnchor ==
    ASSUME IInv, NEW c \in Signers, Anchors(c), NEW k \in Signers
    PROVE  k.from = c.from /\ k.until = c.until
<1>1. /\ now \in Int /\ Staging \in Int /\ Rotation \in Int
      /\ k.from \in Int /\ k.until \in Int /\ c.from \in Int /\ c.until \in Int
  BY PeriodsAssumption DEF IInv, RotationTypeOK, Signers, Keys
<1>2. /\ k.from <= now - Staging /\ k.until > now
      /\ c.from <= now - Staging /\ c.until > now
  BY DEF Signers
<1>3. k.until = k.from + Rotation /\ c.until = c.from + Rotation
  BY DEF IInv, KeyFacts, Signers
<1>4. InLine(k, c)
  BY DEF Anchors, Signers
<1> QED  BY <1>1, <1>2, <1>3, <1>4 DEF InLine

(* While a key signs, the run that reads the table finds it current, and   *)
(* finds a staged key exactly when the next window is there.               *)
LEMMA WhatARunSees ==
    ASSUME IInv, NEW c \in Signers, Anchors(c)
    PROVE  /\ Current(Recent(keys, now), now) = Signers
           /\ HasNext(c) <=> Staged(Recent(keys, now), now) # {}
<1> USE PeriodsAssumption
<1>0. /\ now \in Nat /\ Staging \in Nat /\ Rotation \in Nat /\ Staging < Rotation
      /\ \A k \in keys : k.from \in Int /\ k.until \in Int /\ k.until = k.from + Rotation
      /\ c \in keys /\ c.from <= now - Staging /\ c.until > now
  BY DEF IInv, RotationTypeOK, KeyFacts, Keys, Signers
<1>1. Current(Recent(keys, now), now) = Signers
  BY <1>0 DEF Current, Recent, Signers
<1>2. ASSUME HasNext(c)  PROVE Staged(Recent(keys, now), now) # {}
  <2>1. PICK k \in keys : k.from = c.until - Staging
    BY <1>2 DEF HasNext
  <2>2. k.from > now - Staging /\ k.from >= now - Rotation
    BY <2>1, <1>0
  <2> QED  BY <2>2, <1>0 DEF Staged, Recent
<1>3. ASSUME Staged(Recent(keys, now), now) # {}  PROVE HasNext(c)
  <2>1. PICK k \in keys : k.from > now - Staging
    BY <1>3 DEF Staged, Recent
  <2>2. InLine(k, c)
    BY DEF Anchors
  <2>3. k.from # c.from
    BY <2>1, <1>0
  <2>4. ~(k.until <= c.from + Staging)
    BY <2>1, <1>0
  <2>5. k.from = c.until - Staging
    BY <2>2, <2>3, <2>4 DEF InLine
  <2> QED  BY <2>5 DEF HasNext
<1> QED  BY <1>1, <1>2, <1>3

-----------------------------------------------------------------------------
(* The invariant is kept by every step.                                    *)

LEMMA InitializeKeeps ==
    ASSUME Timely, IInv, RotationTypeOK', Initialize
    PROVE  IInv'
<1> USE PeriodsAssumption
<1>0. now \in Nat /\ Staging \in Nat /\ Rotation \in Nat /\ Back \in Nat /\ RunEvery \in Nat
  BY DEF IInv, RotationTypeOK
<1>1. PICK c : c = [id |-> 0, from |-> now - Staging - Back,
                    until |-> now - Staging - Back + Rotation, made |-> now]
  OBVIOUS
<1>2. PICK s : s = [id |-> 1, from |-> c.until - Staging,
                    until |-> c.until - Staging + Rotation, made |-> now]
  OBVIOUS
<1>3. keys' = {c, s} /\ nextId' = 2 /\ lastRun' = now /\ now' = now /\ run' = run
  BY <1>1, <1>2 DEF Initialize, IInv, KeyFacts, Rows, CurrentWindow, StagedWindow
<1>4. \A j \in Jobs : run[j] = Idle
  BY DEF IInv, RunFacts, Initialize
<1>5. c \in Signers'
  BY <1>0, <1>1, <1>3 DEF Signers
<1>6. KeyFacts'
  <2>1. \A k \in keys' : k.until = k.from + Rotation /\ k.made <= now'
    BY <1>0, <1>1, <1>2, <1>3
  <2> QED  BY <2>1, <1>0, <1>3 DEF KeyFacts
<1>7. RunFacts'
  BY <1>3, <1>4 DEF RunFacts
<1>8. Anchors(c)'
  <2>1. \A k \in keys' : InLine(k, c)
    BY <1>2, <1>3 DEF InLine
  <2>2. HasNext(c)'
    BY <1>2, <1>3 DEF HasNext
  <2> QED  BY <2>1, <2>2, <1>3, <1>4 DEF Anchors, InLine
<1> QED  BY <1>5, <1>6, <1>7, <1>8 DEF IInv

LEMMA ReadKeeps ==
    ASSUME Timely, IInv, RotationTypeOK', NEW j \in Jobs, Read(j)
    PROVE  IInv'
<1> USE PeriodsAssumption
<1>0. /\ now \in Nat /\ Staging \in Nat /\ Rotation \in Nat /\ RunTime \in Nat
      /\ RunEvery \in Nat /\ Staging < Rotation /\ lastRun \in Nat
  BY DEF IInv, RotationTypeOK
<1>1. keys # {} /\ UNCHANGED <<now, keys, nextId, lastRun>>
  BY DEF Read
<1>2. PICK c \in Signers : Anchors(c)
  BY <1>1 DEF IInv
<1>3. /\ c \in keys /\ c.from \in Int /\ c.until \in Int
      /\ c.until = c.from + Rotation /\ c.from <= now - Staging /\ c.until > now
  BY DEF IInv, RotationTypeOK, KeyFacts, Signers, Keys
<1>4. PICK plan \in Plans(keys, now) :
          run' = [run EXCEPT ![j] = [step |-> "read", at |-> now, plan |-> plan]]
  BY DEF Read
<1>5. run'[j] = [step |-> "read", at |-> now, plan |-> plan]
  BY <1>4 DEF IInv, RotationTypeOK
<1>6. \A i \in Jobs : i # j => run'[i] = run[i]
  BY <1>4 DEF IInv, RotationTypeOK
<1>7. \/ plan = {} /\ HasNext(c)
      \/ plan = {StagedWindow(c.until)} /\ ~HasNext(c)
  <2>1. /\ Current(Recent(keys, now), now) = Signers
        /\ HasNext(c) <=> Staged(Recent(keys, now), now) # {}
    BY <1>2, WhatARunSees
  <2>2. \A k \in Signers : k.until = c.until
    BY <1>2, SignersShareAnchor
  <2> QED  BY <2>1, <2>2 DEF Plans
<1>8. \A w \in plan : /\ w.role = "staged"
                      /\ w.from = c.until - Staging
                      /\ w.until = w.from + Rotation
  BY <1>7 DEF StagedWindow
<1>9. \A w \in plan : now + Rotation - Staging - RunEvery <= w.from + Staging
  <2> SUFFICES ASSUME NEW w \in plan
               PROVE  now + Rotation - Staging - RunEvery <= w.from + Staging
    OBVIOUS
  <2>1. ~HasNext(c)
    BY <1>7
  <2>2. lastRun < c.from + Staging
    BY <2>1, <1>2, <1>0, <1>3 DEF Anchors
  <2>3. now <= lastRun + RunEvery
    BY <1>1 DEF IInv, KeyFacts
  <2> QED  BY <2>2, <2>3, <1>0, <1>3, <1>8
<1>10. RunFacts'
  BY <1>0, <1>1, <1>5, <1>6, <1>8, <1>9 DEF IInv, RunFacts
<1>11. KeyFacts'
  BY <1>1 DEF IInv, KeyFacts
<1>12. Anchors(c)'
  <2>1. \A w \in plan : InLine(w, c)
    BY <1>8 DEF InLine
  <2>2. HasNext(c) \/ \E w \in plan : w.from = c.until - Staging
    BY <1>7, <1>8
  <2>3. HasNext(c) => HasNext(c)'
    BY <1>1 DEF HasNext
  <2>4. \A i \in Jobs : i # j /\ PlansNext(i, c) => PlansNext(i, c)'
    BY <1>6 DEF PlansNext
  <2>5. PlansNext(j, c)' <=> \E w \in plan : w.from = c.until - Staging
    BY <1>5 DEF PlansNext
  <2>6. \A i \in Jobs : run'[i] # Idle => \A w \in run'[i].plan : InLine(w, c)
    BY <1>2, <1>5, <1>6, <2>1 DEF Anchors
  <2>7. \A i \in Jobs : run'[i] # Idle /\ run'[i].at >= c.from + Staging
                           => HasNext(c)' \/ PlansNext(i, c)'
    BY <1>2, <1>5, <1>6, <2>2, <2>3, <2>4, <2>5 DEF Anchors
  <2>8. \A k \in keys' : InLine(k, c)
    BY <1>1, <1>2 DEF Anchors
  <2>9. lastRun' >= c.from + Staging => HasNext(c)'
    BY <1>1, <1>2, <2>3 DEF Anchors
  <2> QED  BY <2>6, <2>7, <2>8, <2>9 DEF Anchors, InLine
<1>13. c \in Signers'
  BY <1>1 DEF Signers
<1> QED  BY <1>10, <1>11, <1>12, <1>13 DEF IInv
LEMMA CommitKeeps ==
    ASSUME Timely, IInv, RotationTypeOK', NEW j \in Jobs, Commit(j)
    PROVE  IInv'
<1> USE PeriodsAssumption
<1>0. /\ now \in Nat /\ Staging \in Nat /\ Rotation \in Nat /\ RunEvery \in Nat
      /\ lastRun \in Nat /\ nextId \in Nat
  BY DEF IInv, RotationTypeOK
<1>1. /\ run[j] # Idle /\ now' = now
      /\ keys' = keys \cup Rows(run[j].plan)
      /\ lastRun' = IF run[j].at > lastRun THEN run[j].at ELSE lastRun
      /\ nextId' >= nextId
  BY <1>0 DEF Commit
<1>2. /\ keys # {} /\ run[j].at \in Nat /\ run[j].at <= now
      /\ \A w \in run[j].plan : w.until = w.from + Rotation
  BY <1>1 DEF IInv, RunFacts, RotationTypeOK, Runs, Windows
<1>3. \A k \in Rows(run[j].plan) :
          \E w \in run[j].plan : k.from = w.from /\ k.until = w.until /\ k.made = now
  BY DEF Rows
<1>4. \A w \in run[j].plan : \E k \in Rows(run[j].plan) : k.from = w.from
  <2> TAKE w \in run[j].plan
  <2> DEFINE k == [id |-> nextId + (IF w.role = "current" THEN 0 ELSE 1),
                   from |-> w.from, until |-> w.until, made |-> now]
  <2>1. k \in Rows(run[j].plan)
    BY DEF Rows
  <2> QED  BY <2>1
<1>5. run'[j] = Idle /\ \A i \in Jobs : i # j => run'[i] = run[i]
  BY DEF Commit, IInv, RotationTypeOK
<1>6. PICK c \in Signers : Anchors(c)
  BY <1>2 DEF IInv
<1>7. KeyFacts'
  <2>1. \A k \in keys' : k.until = k.from + Rotation /\ k.made <= now'
    BY <1>0, <1>1, <1>2, <1>3 DEF IInv, KeyFacts
  <2> QED  BY <2>1, <1>0, <1>1, <1>2 DEF IInv, KeyFacts, RotationTypeOK
<1>8. RunFacts'
  BY <1>1, <1>2, <1>5 DEF IInv, RunFacts
<1>9. c \in Signers'
  BY <1>1, <1>6 DEF Signers
<1>10. Anchors(c)'
  <2>1. \A k \in keys' : InLine(k, c)
    BY <1>1, <1>3, <1>6 DEF Anchors, InLine
  <2>2. \A i \in Jobs : run'[i] # Idle => \A w \in run'[i].plan : InLine(w, c)
    BY <1>5, <1>6 DEF Anchors
  <2>3. HasNext(c) \/ PlansNext(j, c) => HasNext(c)'
    BY <1>1, <1>4 DEF HasNext, PlansNext
  <2>4. lastRun' >= c.from + Staging => HasNext(c)'
    BY <1>1, <1>6, <2>3 DEF Anchors
  <2>5. \A i \in Jobs : run'[i] # Idle /\ run'[i].at >= c.from + Staging
                           => HasNext(c)' \/ PlansNext(i, c)'
    BY <1>5, <1>6, <2>3 DEF Anchors, PlansNext
  <2> QED  BY <2>1, <2>2, <2>4, <2>5 DEF Anchors, InLine
<1> QED  BY <1>7, <1>8, <1>9, <1>10 DEF IInv

LEMMA FailKeeps ==
    ASSUME Timely, IInv, RotationTypeOK', NEW j \in Jobs, Fail(j)
    PROVE  IInv'
<1>1. run'[j] = Idle /\ \A i \in Jobs : i # j => run'[i] = run[i]
  BY DEF Fail, IInv, RotationTypeOK
<1>2. UNCHANGED <<now, keys, nextId, lastRun>>
  BY DEF Fail
<1>3. KeyFacts' /\ RunFacts'
  BY <1>1, <1>2 DEF IInv, KeyFacts, RunFacts
<1>4. ASSUME NEW c \in Signers, Anchors(c)  PROVE c \in Signers' /\ Anchors(c)'
  BY <1>1, <1>2, <1>4 DEF Signers, Anchors, InLine, HasNext, PlansNext
<1> QED  BY <1>2, <1>3, <1>4 DEF IInv

(* The step in which the window of the anchor may end: its successor is    *)
(* there, because a finished run has read the table after the window began *)
(* to sign.                                                                *)
LEMMA TickKeeps ==
    ASSUME Timely, IInv, RotationTypeOK', Tick
    PROVE  IInv'
<1> USE PeriodsAssumption
<1>0. /\ now \in Nat /\ Staging \in Nat /\ Rotation \in Nat /\ RunEvery \in Nat
      /\ RunTime \in Nat /\ lastRun \in Nat /\ lastRun <= now
  BY DEF IInv, RotationTypeOK, KeyFacts
<1>1. now' = now + 1 /\ UNCHANGED <<keys, nextId, run, lastRun>>
  BY DEF Tick
<1>2. /\ keys # {} => now + 1 <= lastRun + RunEvery
      /\ \A j \in Jobs : run[j] # Idle => now + 1 <= run[j].at + RunTime
  BY DEF Tick, OnSchedule
<1>3. KeyFacts'
  <2>1. \A k \in keys : k.made \in Nat
    BY DEF IInv, RotationTypeOK, Keys
  <2> QED  BY <2>1, <1>0, <1>1, <1>2 DEF IInv, KeyFacts
<1>4. RunFacts'
  <2>1. \A j \in Jobs : run[j] # Idle => run[j].at \in Nat
    BY DEF IInv, RotationTypeOK, Runs
  <2> QED  BY <2>1, <1>0, <1>1, <1>2 DEF IInv, RunFacts
<1>5. ASSUME keys # {}  PROVE \E c \in Signers' : Anchors(c)'
  <2>1. PICK c \in Signers : Anchors(c)
    BY <1>5 DEF IInv
  <2>2. /\ c \in keys /\ c.from \in Int /\ c.until \in Int
        /\ c.until = c.from + Rotation /\ c.from <= now - Staging /\ c.until > now
    BY DEF IInv, RotationTypeOK, KeyFacts, Signers, Keys
  <2>3. CASE c.until > now + 1
    <3>1. c \in Signers'
      BY <1>0, <1>1, <2>2, <2>3 DEF Signers
    <3>2. Anchors(c)'
      BY <1>1, <2>1 DEF Anchors, InLine, HasNext, PlansNext
    <3> QED  BY <3>1, <3>2
  <2>4. CASE c.until = now + 1
    <3>1. lastRun >= c.from + Staging
      BY <1>0, <1>2, <1>5, <2>2, <2>4 DEF Timely
    <3>2. PICK k \in keys : k.from = c.until - Staging
      BY <3>1, <2>1 DEF Anchors, HasNext
    <3>3. k.until = k.from + Rotation
      BY DEF IInv, KeyFacts
    <3>4. k \in Signers'
      BY <1>0, <1>1, <2>2, <2>4, <3>2, <3>3 DEF Signers
    <3>5. \A w : w.until = w.from + Rotation /\ InLine(w, c) /\ w.from \in Int => InLine(w, k)
      BY <1>0, <2>2, <3>2, <3>3 DEF InLine
    <3>6. \A w \in keys : InLine(w, k)
      BY <2>1, <3>5 DEF Anchors, IInv, KeyFacts, RotationTypeOK, Keys
    <3>7. \A j \in Jobs : run[j] # Idle => \A w \in run[j].plan : InLine(w, k)
      <4> SUFFICES ASSUME NEW j \in Jobs, run[j] # Idle, NEW w \in run[j].plan
                   PROVE  InLine(w, k)
        OBVIOUS
      <4>1. w.from \in Int
        BY DEF IInv, RotationTypeOK, Runs, Windows
      <4>2. w.until = w.from + Rotation
        BY DEF IInv, RunFacts
      <4>3. InLine(w, c)
        BY <2>1 DEF Anchors
      <4> QED  BY <4>1, <4>2, <4>3, <3>5
    <3>8. ~(lastRun >= k.from + Staging)
      BY <1>0, <2>2, <2>4, <3>2
    <3>9. \A j \in Jobs : run[j] # Idle => ~(run[j].at >= k.from + Staging)
      <4>1. \A j \in Jobs : run[j] # Idle => run[j].at \in Nat /\ run[j].at <= now
        BY DEF IInv, RotationTypeOK, Runs, RunFacts
      <4> QED  BY <4>1, <1>0, <2>2, <2>4, <3>2
    <3>10. Anchors(k)'
      BY <1>1, <3>6, <3>7, <3>8, <3>9 DEF Anchors, InLine
    <3> QED  BY <3>4, <3>10
  <2> QED  BY <1>0, <2>2, <2>3, <2>4
<1> QED  BY <1>1, <1>3, <1>4, <1>5 DEF IInv

LEMMA InvariantHolds ==
    ASSUME Timely
    PROVE  RotationSpec => []IInv
<1>1. RotationInit => IInv
  <2> SUFFICES ASSUME RotationInit  PROVE IInv
    OBVIOUS
  <2>1. RotationTypeOK
    BY PeriodsAssumption DEF RotationInit, RotationTypeOK, Runs, Idle
  <2> QED  BY <2>1 DEF RotationInit, IInv, KeyFacts, RunFacts
<1>2. IInv /\ RotationTypeOK' /\ [RotationNext]_rotationVars => IInv'
  <2> SUFFICES ASSUME IInv, RotationTypeOK', [RotationNext]_rotationVars
               PROVE  IInv'
    OBVIOUS
  <2>1. CASE Initialize
    BY <2>1, InitializeKeeps
  <2>2. ASSUME NEW j \in Jobs, Read(j)  PROVE IInv'
    BY <2>2, ReadKeeps
  <2>3. ASSUME NEW j \in Jobs, Commit(j)  PROVE IInv'
    BY <2>3, CommitKeeps
  <2>4. ASSUME NEW j \in Jobs, Fail(j)  PROVE IInv'
    BY <2>4, FailKeeps
  <2>5. CASE Tick
    BY <2>5, TickKeeps
  <2>6. CASE UNCHANGED rotationVars
    <3>1. UNCHANGED <<now, keys, nextId, run, lastRun>>
      BY <2>6 DEF rotationVars
    <3> QED  BY <3>1 DEF IInv, KeyFacts, RunFacts, Anchors, InLine, HasNext, PlansNext, Signers
  <2> QED  BY <2>1, <2>2, <2>3, <2>4, <2>5, <2>6 DEF RotationNext
<1> QED  BY <1>1, <1>2, RotationTypeCorrect, PTL DEF RotationSpec

-----------------------------------------------------------------------------
(* While the rotation job is on schedule, a tenant always has a key to     *)
(* sign with: no certificate request fails for lack of a signer.           *)
THEOREM SignerIsAlwaysThere ==
    ASSUME Timely
    PROVE  RotationSpec => []AlwaysASigner
<1>1. IInv => AlwaysASigner
  BY DEF IInv, AlwaysASigner
<1> QED  BY <1>1, InvariantHolds, PTL

(* The branch of rotate.py for a missing current key is never taken while  *)
(* the job is on schedule, as its comment hopes.                           *)
THEOREM EmergencyNeverHappens ==
    ASSUME Timely
    PROVE  RotationSpec => []NeverCaughtShort
<1>1. IInv => NeverCaughtShort
  BY DEF IInv, RunFacts, NeverCaughtShort
<1> QED  BY <1>1, InvariantHolds, PTL

(* Overlapping runs never leave two signers with different windows.        *)
THEOREM SignersAgree ==
    ASSUME Timely
    PROVE  RotationSpec => []OneWindowSigns
<1>1. IInv => OneWindowSigns
  <2> SUFFICES ASSUME IInv, NEW k \in Signers, NEW l \in Signers
               PROVE  k.from = l.from /\ k.until = l.until
    BY DEF OneWindowSigns
  <2>1. keys # {}
    BY DEF Signers
  <2>2. PICK c \in Signers : Anchors(c)
    BY <2>1 DEF IInv
  <2> QED  BY <2>2, SignersShareAnchor
<1> QED  BY <1>1, InvariantHolds, PTL

(* Both at once: at every moment there is a signer, and its window is that *)
(* of all signers.                                                         *)
THEOREM SigningIsSettled ==
    ASSUME Timely
    PROVE  RotationSpec => []OneWindowAlwaysSigns
<1>1. RotationSpec => []AlwaysASigner
  BY SignerIsAlwaysThere
<1>2. RotationSpec => []OneWindowSigns
  BY SignersAgree
<1>3. AlwaysASigner /\ OneWindowSigns => OneWindowAlwaysSigns
  BY DEF OneWindowAlwaysSigns
<1> QED  BY <1>1, <1>2, <1>3, PTL

(* Every key but the first is published Notice ahead of its first          *)
(* signature, whichever run made it.  The proof is about all keys: that    *)
(* they sign later changes nothing.                                        *)
LEMMA NoticeHolds ==
    ASSUME Timely, Back <= RunEvery + RunTime
    PROVE  RotationSpec => []Noticed
<1> USE PeriodsAssumption
<1>1. RotationInit => Noticed
  BY DEF RotationInit, Noticed
<1>2. Noticed /\ IInv /\ [RotationNext]_rotationVars => Noticed'
  <2> SUFFICES ASSUME Noticed, IInv, [RotationNext]_rotationVars
               PROVE  Noticed'
    OBVIOUS
  <2>0. /\ now \in Nat /\ Staging \in Nat /\ Rotation \in Nat /\ Back \in Nat
        /\ RunEvery \in Nat /\ RunTime \in Nat /\ nextId \in Nat
    BY DEF IInv, RotationTypeOK
  <2>1. CASE Initialize
    <3> DEFINE from == now - Staging - Back
    <3>1. \A k \in keys' : k.id # 0 =>
              k.from = from + Rotation - Staging /\ k.made = now
      BY <2>0, <2>1 DEF Initialize, IInv, KeyFacts, Rows, CurrentWindow, StagedWindow
    <3> QED  BY <2>0, <3>1 DEF Noticed, Notice
  <2>2. ASSUME NEW j \in Jobs, Read(j)  PROVE Noticed'
    BY <2>2 DEF Read, Noticed
  <2>3. ASSUME NEW j \in Jobs, Commit(j)  PROVE Noticed'
    <3>1. run[j] # Idle /\ keys' = keys \cup Rows(run[j].plan)
      BY <2>3 DEF Commit
    <3>2. run[j].at \in Nat /\ now <= run[j].at + RunTime
      BY <3>1 DEF IInv, RunFacts, RotationTypeOK, Runs
    <3>3. \A w \in run[j].plan :
              w.from \in Int /\ run[j].at + Rotation - Staging - RunEvery <= w.from + Staging
      BY <3>1 DEF IInv, RunFacts, RotationTypeOK, Runs, Windows
    <3>4. \A k \in Rows(run[j].plan) :
              k.made = now /\ \E w \in run[j].plan : k.from = w.from
      BY DEF Rows
    <3>5. \A k \in Rows(run[j].plan) : k.made + Notice <= k.from + Staging
      BY <2>0, <3>2, <3>3, <3>4 DEF Notice
    <3> QED  BY <3>1, <3>5 DEF Noticed
  <2>4. ASSUME NEW j \in Jobs, Fail(j)  PROVE Noticed'
    BY <2>4 DEF Fail, Noticed
  <2>5. CASE Tick
    BY <2>5 DEF Tick, Noticed
  <2>6. CASE UNCHANGED rotationVars
    BY <2>6 DEF rotationVars, Noticed
  <2> QED  BY <2>1, <2>2, <2>3, <2>4, <2>5, <2>6 DEF RotationNext
<1> QED  BY <1>1, <1>2, InvariantHolds, PTL DEF RotationSpec

(* A key that signs has been published for Notice, the very first apart.   *)
THEOREM PublishedAhead ==
    ASSUME Timely, Back <= RunEvery + RunTime
    PROVE  RotationSpec => []PublishedBeforeUse
<1>1. Noticed => PublishedBeforeUse
  BY DEF Noticed, PublishedBeforeUse, Signers
<1> QED  BY <1>1, NoticeHolds, PTL

-----------------------------------------------------------------------------
(* Hosts: the file of a host has every key that was made before it was     *)
(* fetched and has not ended since.                                        *)

HInv ==
    \A h \in Hosts :
        /\ cert[h] # {} => keys # {}
        /\ refreshed[h] # Never =>
              /\ keys # {}
              /\ refreshed[h] \in Nat
              /\ refreshed[h] <= now /\ now <= refreshed[h] + RefreshEvery
              /\ \A k \in keys :
                    (k.id = 0 \/ k.made < refreshed[h]) /\ k.until > refreshed[h]
                        => k \in trusted[h]

HostTypes ==
    /\ cert \in [Hosts -> SUBSET Certs]
    /\ trusted \in [Hosts -> SUBSET Keys]
    /\ refreshed \in [Hosts -> Nat \cup {Never}]

(* The rotation does not notice the hosts.                                 *)
LEMMA HostsRefineRotation == Spec => RotationSpec
<1>1. Init => RotationInit
  BY DEF Init
<1>2. [Next]_vars => [RotationNext]_rotationVars
  BY DEF Next, vars, Certify, FetchTrusted
<1> QED  BY <1>1, <1>2, PTL DEF Spec, RotationSpec

THEOREM HostTypeCorrect == Spec => []TypeOK
<1> USE PeriodsAssumption, HostAssumption
<1>1. Init => HostTypes
  BY DEF Init, HostTypes
<1>2. HostTypes /\ RotationTypeOK /\ [Next]_vars => HostTypes'
  <2> SUFFICES ASSUME HostTypes, RotationTypeOK, [Next]_vars
               PROVE  HostTypes'
    OBVIOUS
  <2> USE DEF HostTypes
  <2>1. Signers \subseteq Keys /\ Published \subseteq Keys /\ now \in Nat
    BY DEF RotationTypeOK, Signers, Published
  <2>2. ASSUME NEW h \in Hosts, Certify(h)  PROVE HostTypes'
    <3>1. \A k \in Keys : [signer |-> k, made |-> now, until |-> now + HostLifetime] \in Certs
      BY <2>1 DEF Certs
    <3> QED  BY <2>1, <2>2, <3>1 DEF Certify
  <2>3. ASSUME NEW h \in Hosts, FetchTrusted(h)  PROVE HostTypes'
    BY <2>1, <2>3 DEF FetchTrusted
  <2>4. CASE UNCHANGED hostVars
    BY <2>4 DEF hostVars
  <2> QED  BY <2>2, <2>3, <2>4 DEF Next, vars
<1>3. HostTypes /\ RotationTypeOK => TypeOK
  BY DEF HostTypes, TypeOK
<1> QED  BY <1>1, <1>2, <1>3, HostsRefineRotation, RotationTypeCorrect, PTL DEF Spec

LEMMA HostInvariantHolds ==
    ASSUME Timely
    PROVE  Spec => []HInv
<1> USE PeriodsAssumption, HostAssumption
<1>1. Init => HInv
  BY DEF Init, HInv
<1>2. HInv /\ IInv /\ TypeOK /\ [Next]_vars => HInv'
  <2> SUFFICES ASSUME HInv, IInv, TypeOK, [Next]_vars
               PROVE  HInv'
    OBVIOUS
  <2>0. now \in Nat /\ RefreshEvery \in Nat /\ \A k \in keys : k.made \in Nat /\ k.until \in Int
    BY DEF TypeOK, RotationTypeOK, Keys
  <2>1. ASSUME NEW h \in Hosts, Certify(h)  PROVE HInv'
    <3>1. keys # {}
      BY <2>1 DEF Certify, Signers
    <3> QED  BY <2>1, <3>1 DEF Certify, HInv, rotationVars
  <2>2. ASSUME NEW h \in Hosts, FetchTrusted(h)  PROVE HInv'
    <3>1. UNCHANGED <<now, keys, cert>>
      BY <2>2 DEF FetchTrusted, rotationVars
    <3>2. trusted'[h] = Published /\ refreshed'[h] = now /\ keys # {}
      BY <2>2 DEF FetchTrusted, TypeOK, HInv
    <3>3. \A i \in Hosts : i # h => trusted'[i] = trusted[i] /\ refreshed'[i] = refreshed[i]
      BY <2>2 DEF FetchTrusted, TypeOK
    <3>4. \A k \in keys : k.until > now => k \in trusted'[h]
      BY <3>2 DEF Published
    <3> QED  BY <2>0, <3>1, <3>2, <3>3, <3>4 DEF HInv
  <2>3. CASE RotationNext /\ HostsOnSchedule(now') /\ UNCHANGED hostVars
    <3>1. UNCHANGED <<cert, trusted, refreshed>>
      BY <2>3 DEF hostVars
    <3>2. CASE Initialize
      BY <2>0, <3>1, <3>2 DEF Initialize, HInv
    <3>3. ASSUME NEW j \in Jobs, Read(j)  PROVE HInv'
      BY <3>1, <3>3 DEF Read, HInv
    <3>4. ASSUME NEW j \in Jobs, Commit(j)  PROVE HInv'
      <4>1. keys \subseteq keys' /\ now' = now
        BY <3>4 DEF Commit
      <4>2. \A k \in keys' \ keys : k.id # 0 /\ k.made = now
        <5>1. nextId \in Nat /\ nextId >= 2
          BY <3>4 DEF Commit, IInv, RotationTypeOK, KeyFacts, RunFacts
        <5> QED  BY <3>4, <5>1 DEF Commit, Rows
      <4> QED  BY <2>0, <3>1, <4>1, <4>2 DEF HInv
    <3>5. ASSUME NEW j \in Jobs, Fail(j)  PROVE HInv'
      BY <3>1, <3>5 DEF Fail, HInv
    <3>6. CASE Tick
      BY <2>0, <2>3, <3>1, <3>6 DEF Tick, HInv, HostsOnSchedule
    <3> QED  BY <2>3, <3>2, <3>3, <3>4, <3>5, <3>6 DEF RotationNext
  <2>4. CASE UNCHANGED vars
    BY <2>4 DEF vars, rotationVars, hostVars, HInv
  <2> QED  BY <2>1, <2>2, <2>3, <2>4 DEF Next
<1> QED
  BY <1>1, <1>2, HostsRefineRotation, InvariantHolds, HostTypeCorrect, PTL DEF Spec

(* A host that refreshes more often than a key is published ahead of its   *)
(* first signature accepts whatever the server signs for a user, at every  *)
(* moment of every rotation.                                               *)
THEOREM HostsTrustTheSigner ==
    ASSUME Timely, Back <= RunEvery + RunTime, RefreshEvery < Notice
    PROVE  Spec => []UserSignersTrusted
<1> USE PeriodsAssumption, HostAssumption
<1>1. HInv /\ Noticed /\ RotationTypeOK => UserSignersTrusted
  <2> SUFFICES ASSUME HInv, Noticed, RotationTypeOK,
                      NEW h \in Hosts, refreshed[h] # Never, NEW k \in Signers
               PROVE  k \in trusted[h]
    BY DEF UserSignersTrusted
  <2>1. /\ now \in Nat /\ k \in keys /\ k.made \in Nat /\ k.from \in Int /\ k.until \in Int
        /\ k.from <= now - Staging /\ k.until > now
    BY DEF RotationTypeOK, Signers, Keys
  <2>2. refreshed[h] \in Nat /\ refreshed[h] <= now /\ now <= refreshed[h] + RefreshEvery
    BY DEF HInv
  <2>3. k.id # 0 => k.made < refreshed[h]
    <3>1. k.id # 0 => k.made + Notice <= k.from + Staging
      BY <2>1 DEF Noticed
    <3>2. Notice \in Int
      BY DEF Notice
    <3> QED  BY <2>1, <2>2, <3>1, <3>2
  <2>4. k.until > refreshed[h]
    BY <2>1, <2>2
  <2> QED  BY <2>1, <2>3, <2>4 DEF HInv
<1>2. RotationSpec => []Noticed
  BY NoticeHolds
<1>3. Spec => []HInv
  BY HostInvariantHolds
<1> QED  BY <1>1, <1>2, <1>3, HostsRefineRotation, RotationTypeCorrect, PTL

-----------------------------------------------------------------------------
(* Serial numbers. *)

HoldersAreCurrent ==
    /\ \A k \in SigningKeys : holder[k] # Nobody =>
           /\ stage[holder[k]] = "signing"
           /\ signer[holder[k]] = k
           /\ first[holder[k]] = serial[k]
    /\ \A r \in Signings : stage[r] = "signing" /\ count[r] # 0 => holder[signer[r]] = r

(* `tries` reads have been followed by that many moves, but for the last    *)
(* one, which is followed by a move only if the counter has changed.        *)
MissesAreMoves ==
    \A r \in Signings :
        /\ stage[r] = "idle" => tries[r] = 0
        /\ stage[r] = "reading" =>
               /\ moves[signer[r]] >= since[r] + tries[r]
               /\ tries[r] < Attempts
        /\ stage[r] = "updating" =>
               /\ tries[r] >= 1
               /\ moves[signer[r]] + 1 >= since[r] + tries[r]
               /\ serial[signer[r]] # first[r] => moves[signer[r]] >= since[r] + tries[r]

SerialInv ==
    SerialTypeOK /\ HoldersAreCurrent /\ MissesAreMoves
        /\ NoNumberTwice /\ NumbersAreAudited /\ RefusedOnlyInACrowd

-----------------------------------------------------------------------------
LEMMA SerialInitInv == SerialInit => SerialInv
<1> SUFFICES ASSUME SerialInit PROVE SerialInv
  OBVIOUS
<1> USE SerialAssumption
<1>1. AnySigner \in SigningKeys
  BY DEF AnySigner
<1>2. SerialTypeOK
  BY <1>1 DEF SerialInit, SerialTypeOK, Stages
<1>3. NoNumberTwice /\ NumbersAreAudited
  BY DEF SerialInit, NoNumberTwice, NumbersAreAudited
<1> QED
  BY <1>2, <1>3
  DEF SerialInit, SerialInv, HoldersAreCurrent, MissesAreMoves, RefusedOnlyInACrowd

(* The certificates of a request, as records with their fields.              *)
LEMMA SignedFields ==
    ASSUME NEW r \in Signings, SerialTypeOK
    PROVE  /\ \A c \in Signed(r) :
                  /\ c \in Certificates
                  /\ c.signer = signer[r] /\ c.by = r
                  /\ c.serial \in first[r] .. first[r] + count[r] - 1
           /\ \A n \in first[r] .. first[r] + count[r] - 1 :
                  \E c \in Signed(r) : c.signer = signer[r] /\ c.serial = n
           /\ \A c, d \in Signed(r) : c.serial = d.serial => c = d
<1>1. first[r] \in Nat /\ count[r] \in Nat /\ signer[r] \in SigningKeys
  BY SerialAssumption DEF SerialTypeOK
<1> DEFINE range == first[r] .. first[r] + count[r] - 1
           record(n) == [signer |-> signer[r], serial |-> n, by |-> r]
<1>2. \A n \in range : n \in Nat
  BY <1>1
<1>3. \A n \in range : /\ record(n) \in Certificates
                        /\ record(n).signer = signer[r]
                        /\ record(n).by = r
                        /\ record(n).serial = n
  BY <1>1, <1>2 DEF Certificates
<1>4. Signed(r) = {record(n) : n \in range}
  BY DEF Signed
<1> HIDE DEF range, record
<1>5. \A c \in Signed(r) : \E n \in range : c = record(n)
  BY <1>4
<1>6. \A n \in range : record(n) \in Signed(r)
  BY <1>4
<1>7. \A c \in Signed(r) : /\ c \in Certificates
                           /\ c.signer = signer[r]
                           /\ c.by = r
                           /\ c.serial \in range
                           /\ c = record(c.serial)
  BY <1>3, <1>5
<1>8. \A n \in range : \E c \in Signed(r) : c.signer = signer[r] /\ c.serial = n
  BY <1>3, <1>6
<1>9. \A c, d \in Signed(r) : c.serial = d.serial => c = d
  BY <1>7
<1> QED
  BY <1>7, <1>8, <1>9 DEF range

(* The steps that commit nothing leave the certificates and counters alone. *)
LEMMA QuietSteps ==
    ASSUME SerialInv, UNCHANGED <<serial, issued>>
    PROVE  NoNumberTwice' /\ NumbersAreAudited'
BY DEF SerialInv, NoNumberTwice, NumbersAreAudited

(* The commit is the step that the module is about. *)
LEMMA IssueIInv ==
    ASSUME SerialInv, NEW r \in Signings, Issue(r)
    PROVE  SerialInv'
<1> USE SerialAssumption DEF SerialInv
<1> DEFINE k == signer[r]
<1>1. /\ k \in SigningKeys /\ first[r] \in Nat /\ count[r] \in 0 .. MaxBatch
      /\ stage[r] = "signing"
      /\ serial[k] \in Nat \ {0} /\ moves[k] \in Nat
  BY DEF Issue, SerialTypeOK
<1>2. \A j \in SigningKeys : holder[j] = r => j = k /\ first[r] = serial[k]
  BY DEF HoldersAreCurrent
<1>3. CASE count[r] = 0 /\ holder[k] # r
  <2>1. Signed(r) = {}
    BY <1>1, <1>3 DEF Signed
  <2>2. issued' = issued /\ serial' = serial /\ moves' = moves /\ holder' = holder
    BY <1>2, <1>3, <2>1 DEF Issue, Unlock, SerialTypeOK
  <2>3. SerialTypeOK' /\ HoldersAreCurrent' /\ MissesAreMoves'
    BY <1>3, <2>2
    DEF Issue, SerialTypeOK, Stages, HoldersAreCurrent, MissesAreMoves
  <2>4. RefusedOnlyInACrowd'
    BY <2>2 DEF Issue, SerialTypeOK, RefusedOnlyInACrowd
  <2> QED
    BY <2>2, <2>3, <2>4, QuietSteps
<1>4. CASE holder[k] = r
  <2>1. first[r] = serial[k]
    BY <1>1, <1>2, <1>4
  <2>2. /\ serial' = [serial EXCEPT ![k] = first[r] + count[r]]
        /\ moves' = [moves EXCEPT ![k] = @ + 1]
        /\ holder' = [holder EXCEPT ![k] = Nobody]
        /\ issued' = issued \cup Signed(r)
        /\ stage' = [stage EXCEPT ![r] = "done"]
        /\ UNCHANGED <<signer, count, tries, first, since>>
    BY <1>1, <1>2, <1>4 DEF Issue, Unlock, SerialTypeOK
  <2>3. SerialTypeOK'
    <3>1. issued' \subseteq Certificates
      BY <2>2, SignedFields DEF SerialTypeOK
    <3>2. serial[k] + count[r] \in Nat \ {0} /\ moves[k] + 1 \in Nat
      BY <1>1
    <3>3. serial' \in [SigningKeys -> Nat \ {0}] /\ moves' \in [SigningKeys -> Nat]
      BY <1>1, <2>1, <2>2, <3>2 DEF SerialTypeOK
    <3>4. /\ stage' \in [Signings -> Stages]
          /\ holder' \in [SigningKeys -> Signings \cup {Nobody}]
      BY <2>2 DEF SerialTypeOK, Stages
    <3> QED
      BY <2>2, <3>1, <3>3, <3>4 DEF SerialTypeOK
  <2>4. HoldersAreCurrent'
    <3>1. ASSUME NEW j \in SigningKeys, holder'[j] # Nobody
          PROVE  /\ stage'[holder'[j]] = "signing"
                 /\ signer'[holder'[j]] = j
                 /\ first'[holder'[j]] = serial'[j]
      <4>1. j # k /\ holder'[j] = holder[j] /\ serial'[j] = serial[j]
        BY <1>1, <2>2, <3>1 DEF SerialTypeOK
      <4>2. /\ stage[holder[j]] = "signing" /\ signer[holder[j]] = j
            /\ first[holder[j]] = serial[j]
        BY <3>1, <4>1 DEF HoldersAreCurrent
      <4>3. holder[j] \in Signings /\ holder[j] # r
        BY <3>1, <4>1, <4>2 DEF SerialTypeOK
      <4> QED
        BY <2>2, <4>1, <4>2, <4>3 DEF SerialTypeOK
    <3>2. ASSUME NEW q \in Signings, stage'[q] = "signing", count'[q] # 0
          PROVE  holder'[signer'[q]] = q
      <4>1. q # r /\ stage[q] = "signing" /\ count[q] # 0 /\ signer'[q] = signer[q]
        BY <2>2, <3>2 DEF SerialTypeOK
      <4>2. holder[signer[q]] = q /\ signer[q] \in SigningKeys
        BY <3>2, <4>1 DEF HoldersAreCurrent, SerialTypeOK
      <4> QED
        BY <1>4, <2>2, <4>1, <4>2 DEF SerialTypeOK
    <3> QED
      BY <3>1, <3>2 DEF HoldersAreCurrent
  <2>5. /\ serial'[k] = serial[k] + count[r] /\ moves'[k] = moves[k] + 1
        /\ \A j \in SigningKeys : j # k => serial'[j] = serial[j] /\ moves'[j] = moves[j]
    BY <1>1, <2>1, <2>2 DEF SerialTypeOK
  <2>6. MissesAreMoves'
    <3>1. ASSUME NEW q \in Signings, q # r, signer[q] = k, stage[q] \in {"reading", "updating"}
          PROVE  /\ moves[k] \in Nat /\ since[q] \in Nat /\ tries[q] \in Nat
                 /\ moves'[k] = moves[k] + 1
      BY <1>1, <2>5 DEF SerialTypeOK
    <3>2. ASSUME NEW q \in Signings
          PROVE  /\ q # r \/ stage'[q] = "done"
                 /\ q # r => stage'[q] = stage[q]
                 /\ signer'[q] \in SigningKeys /\ signer'[q] = signer[q]
                 /\ since'[q] = since[q] /\ tries'[q] = tries[q] /\ first'[q] = first[q]
      BY <2>2 DEF SerialTypeOK
    <3> QED
      BY <1>1, <2>5, <3>1, <3>2 DEF MissesAreMoves
  <2>7. /\ \A c \in issued : c.signer \in SigningKeys /\ c.serial \in 1 .. serial[c.signer] - 1
        /\ \A d \in Signed(r) :
               d.signer = k /\ d.serial \in serial[k] .. serial[k] + count[r] - 1
        /\ \A d, e \in Signed(r) : d.serial = e.serial => d = e
    BY <2>1, SignedFields, SMTT(60) DEF NumbersAreAudited, SerialTypeOK, Certificates
  <2>8. \A c \in issued, d \in Signed(r) : c.signer = d.signer => c.serial # d.serial
    BY <1>1, <2>7
  <2>9. NoNumberTwice'
    BY <2>2, <2>7, <2>8 DEF NoNumberTwice
  <2>10. ASSUME NEW c \in issued' PROVE c.serial \in 1 .. serial'[c.signer] - 1
    <3>1. CASE c \in issued
      <4>1. serial[c.signer] \in Nat /\ serial'[c.signer] \in Nat
        BY <2>3, <2>7, <3>1 DEF SerialTypeOK
      <4>2. serial'[c.signer] >= serial[c.signer]
        BY <1>1, <2>5, <2>7, <3>1, <4>1
      <4> QED
        BY <2>7, <3>1, <4>1, <4>2
    <3>2. CASE c \in Signed(r)
      BY <1>1, <2>5, <2>7, <3>2
    <3> QED
      BY <2>2, <3>1, <3>2
  <2>11. ASSUME NEW j \in SigningKeys, NEW n \in 1 .. serial'[j] - 1
         PROVE  \E c \in issued' : c.signer = j /\ c.serial = n
    <3>1. CASE j # k \/ n < serial[k]
      <4>1. n \in 1 .. serial[j] - 1
        BY <1>1, <2>5, <3>1
      <4> QED
        BY <2>2, <4>1 DEF NumbersAreAudited
    <3>2. CASE j = k /\ n >= serial[k]
      <4>1. n \in first[r] .. first[r] + count[r] - 1
        BY <1>1, <2>1, <2>5, <3>2
      <4> QED
        BY <2>2, <3>2, <4>1, SignedFields
    <3> QED
      BY <1>1, <3>1, <3>2
  <2>12. RefusedOnlyInACrowd'
    <3> SUFFICES ASSUME NEW q \in Signings, stage'[q] = "refused"
                 PROVE  moves'[signer[q]] >= since[q] + Attempts
      BY <2>2 DEF RefusedOnlyInACrowd
    <3>1. signer[q] \in SigningKeys /\ since[q] \in Nat /\ stage[q] = "refused"
      BY <1>1, <2>2 DEF SerialTypeOK
    <3>2. moves[signer[q]] >= since[q] + Attempts /\ moves[signer[q]] \in Nat
      BY <3>1 DEF RefusedOnlyInACrowd, SerialTypeOK
    <3> QED
      BY <1>1, <2>5, <3>1, <3>2
  <2> QED
    BY <2>3, <2>4, <2>6, <2>9, <2>10, <2>11, <2>12 DEF NumbersAreAudited
<1> QED
  BY <1>1, <1>3, <1>4 DEF HoldersAreCurrent

LEMMA SerialNextInv == SerialInv /\ [SerialNext]_serialVars => SerialInv'
<1> SUFFICES ASSUME SerialInv, [SerialNext]_serialVars PROVE SerialInv'
  OBVIOUS
<1> USE SerialAssumption DEF SerialInv
<1>1. ASSUME NEW r \in Signings, NEW k \in SigningKeys, NEW n \in 0 .. MaxBatch, Ask(r, k, n)
      PROVE  SerialInv'
  BY <1>1, QuietSteps
  DEF Ask, SerialTypeOK, Stages, HoldersAreCurrent, MissesAreMoves, RefusedOnlyInACrowd
<1>2. ASSUME NEW r \in Signings, ReadCounter(r) PROVE SerialInv'
  BY <1>2, QuietSteps
  DEF ReadCounter, SerialTypeOK, Stages, HoldersAreCurrent, MissesAreMoves, RefusedOnlyInACrowd
<1>3. ASSUME NEW r \in Signings, Reserve(r) PROVE SerialInv'
  BY <1>3, QuietSteps
  DEF Reserve, StillFirst, SerialTypeOK, Stages, HoldersAreCurrent, MissesAreMoves,
      RefusedOnlyInACrowd
<1>4. ASSUME NEW r \in Signings, Miss(r) PROVE SerialInv'
  BY <1>4, QuietSteps
  DEF Miss, StillFirst, SerialTypeOK, Stages, HoldersAreCurrent, MissesAreMoves,
      RefusedOnlyInACrowd
<1>5. ASSUME NEW r \in Signings, Abort(r) PROVE SerialInv'
  <2>1. \A k \in SigningKeys : holder'[k] # Nobody => holder'[k] = holder[k] /\ holder[k] # r
    BY <1>5 DEF Abort, Unlock
  <2>2. \A k \in SigningKeys : holder[k] # r => holder'[k] = holder[k]
    BY <1>5 DEF Abort, Unlock
  <2>3. SerialTypeOK'
    BY <1>5 DEF Abort, Unlock, SerialTypeOK, Stages
  <2>4. HoldersAreCurrent'
    BY <1>5, <2>1, <2>2 DEF Abort, HoldersAreCurrent, SerialTypeOK
  <2>5. MissesAreMoves' /\ RefusedOnlyInACrowd'
    BY <1>5 DEF Abort, MissesAreMoves, RefusedOnlyInACrowd, SerialTypeOK
  <2> QED
    BY <1>5, <2>3, <2>4, <2>5, QuietSteps DEF Abort
<1>6. CASE UNCHANGED serialVars
  BY <1>6
  DEF serialVars, requestVars, SerialTypeOK, HoldersAreCurrent, MissesAreMoves,
      NoNumberTwice, NumbersAreAudited, RefusedOnlyInACrowd
<1> QED
  BY <1>1, <1>2, <1>3, <1>4, <1>5, <1>6, IssueIInv DEF SerialNext

LEMMA SerialInvHolds == SerialSpec => []SerialInv
BY SerialInitInv, SerialNextInv, PTL DEF SerialSpec

(* For any requests, keys, batches and attempts: numbers are unique, every  *)
(* number below a counter is audited, and a refusal needs a crowd           *)
(* (allocate_serial_numbers).                                               *)
THEOREM SpecSerials == SerialSpec => []SerialsAreExact
<1>1. SerialInv => SerialsAreExact
  BY DEF SerialInv, SerialsAreExact
<1> QED
  BY SerialInvHolds, <1>1, PTL

-----------------------------------------------------------------------------
(* What a session may do (SSHGrants). A decision on one command or          *)
(* capability is a bound, or Denied.                                        *)
Covered == Ttls \cup {Denied}

(* A set of numbers that is not empty has a least one.                      *)
LEMMA TheLeast ==
    ASSUME NEW S \in SUBSET Nat, S # {}
    PROVE  \E m \in S : \A n \in S : m <= n
  <1> DEFINE R == OpToRel(<, Nat)
  <1>1. IsWellFoundedOn(R, Nat)
    BY NatLessThanWellFounded
  <1>2. \A x, y \in Nat : x < y => <<x, y>> \in R
    BY DEF OpToRel
  <1> HIDE DEF R
  <1>3. PICK m \in S : \A n \in S : ~ (<<n, m>> \in R)
    BY <1>1, WFMin
  <1>4. \A n \in S : ~ (n < m)
    BY <1>2, <1>3
  <1> QED BY <1>4

(* What holds of 0 and is handed from each number to the next holds of all. *)
LEMMA UpTo ==
    ASSUME NEW n \in Nat, NEW S, 0 \in S, \A i \in 1..n : i - 1 \in S => i \in S
    PROVE  \A i \in 0..n : i \in S
  <1> DEFINE Out == {i \in 0..n : i \notin S}
  <1>1. SUFFICES ASSUME Out # {} PROVE FALSE
    OBVIOUS
  <1>0. Out \in SUBSET Nat
    OBVIOUS
  <1>2. PICK m \in Out : \A i \in Out : m <= i
    <2> HIDE DEF Out
    <2> QED BY <1>0, <1>1, TheLeast
  <1>3. m \in 1..n
    BY <1>2
  <1>4. m - 1 \in 0..n /\ m - 1 \notin Out
    BY <1>2, <1>3
  <1> QED BY <1>2, <1>3, <1>4

(* A function is defined along the numbers by what each makes of the last.  *)
LEMMA Recursion ==
    ASSUME NEW T, NEW start \in T, NEW n \in Nat, NEW step \in [1..n -> [T -> T]]
    PROVE  \E f \in [0..n -> T] : f[0] = start /\ \A i \in 1..n : f[i] = step[i][f[i - 1]]
  <1> DEFINE Up(m, f) == f \in [0..m -> T] /\ f[0] = start /\ \A i \in 1..m : f[i] = step[i][f[i - 1]]
             S == {m \in 0..n : \E f : Up(m, f)}
  <1>1. 0 \in S
    <2>1. PICK f : f = [i \in 0..0 |-> start]
      OBVIOUS
    <2>2. Up(0, f)
      BY <2>1
    <2> HIDE DEF Up
    <2> QED BY <2>2
  <1>2. ASSUME NEW m \in 1..n, m - 1 \in S PROVE m \in S
    <2>1. PICK f : Up(m - 1, f)
      BY <1>2
    <2>2. f \in [0..(m - 1) -> T] /\ f[m - 1] \in T
      BY <2>1
    <2>3. PICK t \in T : t = step[m][f[m - 1]]
      BY <2>2
    <2>4. PICK g : g = [i \in 0..m |-> IF i = m THEN t ELSE f[i]]
      OBVIOUS
    <2>5. g \in [0..m -> T]
      BY <2>2, <2>4
    <2>6. g[0] = start
      BY <2>1, <2>4
    <2>7. \A i \in 0..(m - 1) : g[i] = f[i]
      BY <2>4
    <2>8. g[m] = t
      BY <2>4
    <2>9. ASSUME NEW i \in 1..m PROVE g[i] = step[i][g[i - 1]]
      <3>1. CASE i = m
        BY <3>1, <2>3, <2>7, <2>8
      <3>2. CASE i # m
        BY <3>2, <2>1, <2>7
      <3> QED BY <3>1, <3>2
    <2>10. Up(m, g)
      BY <2>5, <2>6, <2>9
    <2> HIDE DEF Up
    <2> QED BY <2>10
  <1> HIDE DEF S
  <1>3. \A i \in 0..n : i \in S
    BY <1>1, <1>2, UpTo
  <1>4. n \in S
    BY <1>3
  <1> HIDE DEF Up
  <1>5. \E f : Up(n, f)
    BY <1>4 DEF S
  <1> QED BY <1>5 DEF Up

-----------------------------------------------------------------------------
(* Chains: what becomes of one bound, entry by entry.                       *)

IsLargest(t, S) == t \in S /\ \A u \in S : TtlMax(t, u) = t
IsSmallest(t, S) == t \in S /\ \A u \in S : TtlMin(t, u) = t

(* There is one largest and one smallest bound at most.                     *)
LEMMA LargestIs ==
    ASSUME NEW S \in SUBSET Ttls, NEW t, IsLargest(t, S)
    PROVE  Largest(S) = t
  <1>1. \A u \in S : (\A v \in S : TtlMax(u, v) = u) => u = t
    BY GrantsAssumption DEF IsLargest, TtlMax, Ttls
  <1> QED BY <1>1 DEF IsLargest, Largest

LEMMA SmallestIs ==
    ASSUME NEW S \in SUBSET Ttls, NEW t, IsSmallest(t, S)
    PROVE  Smallest(S) = t
  <1>1. \A u \in S : (\A v \in S : TtlMin(u, v) = u) => u = t
    BY GrantsAssumption DEF IsSmallest, TtlMin, Ttls
  <1> QED BY <1>1 DEF IsSmallest, Smallest

(* x is what entries with these bounds allow.                               *)
Allows(x, S) == IF S = {} THEN x = Denied ELSE IsLargest(x, S)

(* The larger and the smaller of two bounds.                                *)
LEMMA OfTwo ==
    ASSUME NEW a \in Ttls, NEW b \in Ttls
    PROVE  /\ TtlMax(a, b) \in {a, b} /\ TtlMin(a, b) \in {a, b}
           /\ TtlMax(a, a) = a /\ TtlMin(a, a) = a
           /\ TtlMax(TtlMax(a, b), b) = TtlMax(a, b)
           /\ TtlMin(TtlMin(a, b), b) = TtlMin(a, b)
           /\ \A u \in Ttls :
                /\ TtlMax(a, u) = a => TtlMax(TtlMax(a, b), u) = TtlMax(a, b)
                /\ TtlMin(a, u) = a => TtlMin(TtlMin(a, b), u) = TtlMin(a, b)
  BY GrantsAssumption DEF TtlMax, TtlMin, Ttls

(* One more entry allows the larger of the two bounds.                      *)
LEMMA AllowsMore ==
    ASSUME NEW S \in SUBSET Ttls, NEW x, Allows(x, S), NEW t \in Ttls
    PROVE  Allows(CoveredUnion(x, t), S \cup {t})
  <1>1. t # Denied
    BY GrantsAssumption
  <1>2. CASE S = {}
    <2>1. CoveredUnion(x, t) = t
      BY <1>2 DEF Allows, CoveredUnion
    <2> QED BY <1>2, <2>1, OfTwo DEF Allows, IsLargest
  <1>3. CASE S # {}
    <2>1. x \in S /\ x \in Ttls /\ x # Denied /\ \A u \in S : TtlMax(x, u) = x
      BY <1>3, GrantsAssumption DEF Allows, IsLargest
    <2>2. CoveredUnion(x, t) = TtlMax(x, t)
      BY <1>1, <2>1 DEF CoveredUnion
    <2>3. IsLargest(TtlMax(x, t), S \cup {t})
      BY <2>1, OfTwo DEF IsLargest
    <2> QED BY <2>2, <2>3 DEF Allows
  <1> QED BY <1>2, <1>3

(* The bound that is left of the bounds in S, some of which may be missing. *)
Leaves(x, missing, S) == IF missing THEN x = Denied ELSE IsSmallest(x, S)

(* One more ceiling, or one more bounded denial, leaves the smaller of the  *)
(* two.                                                                     *)
LEMMA LeavesLess ==
    ASSUME NEW S \in SUBSET Ttls, NEW missing \in BOOLEAN, NEW x, Leaves(x, missing, S),
           NEW t \in Ttls
    PROVE  /\ Leaves(CoveredIntersection(x, t), missing, S \cup {t})
           /\ t # Unbounded => Leaves(CoveredDeny(x, t), missing, S \cup {t})
  <1>1. t # Denied
    BY GrantsAssumption
  <1>2. CASE missing
    BY <1>2 DEF Leaves, CoveredIntersection, CoveredDeny
  <1>3. CASE ~missing
    <2>1. x \in S /\ x \in Ttls /\ x # Denied /\ \A u \in S : TtlMin(x, u) = x
      BY <1>3, GrantsAssumption DEF Leaves, IsSmallest
    <2>2. /\ CoveredIntersection(x, t) = TtlMin(x, t)
          /\ t # Unbounded => CoveredDeny(x, t) = TtlMin(x, t)
      BY <1>1, <2>1 DEF CoveredIntersection, CoveredDeny
    <2>3. IsSmallest(TtlMin(x, t), S \cup {t})
      BY <2>1, OfTwo DEF IsSmallest
    <2> QED BY <1>3, <2>2, <2>3 DEF Leaves
  <1> QED BY <1>2, <1>3

-----------------------------------------------------------------------------
(* The bounds of the first k entries of a list that are for a use.          *)
BoundsTo(entries, k, uses) == {entries[i].ttl : i \in {j \in 1..k : entries[j] \in uses}}

LEMMA BoundsEnds ==
    ASSUME NEW entries \in Seq(Permissions), NEW uses
    PROVE  /\ BoundsTo(entries, 0, uses) = {}
           /\ BoundsTo(entries, Len(entries), uses) = Bounds(entries, uses)
           /\ Bounds(entries, uses) \in SUBSET Ttls
  <1>1. \A k \in 1..Len(entries) : entries[k].ttl \in Ttls
    BY GrantsAssumption
  <1>2. BoundsTo(entries, 0, uses) = {}
    BY DEF BoundsTo
  <1>3. BoundsTo(entries, Len(entries), uses) = Bounds(entries, uses)
    BY DEF BoundsTo, Bounds, Entries
  <1>4. Bounds(entries, uses) \in SUBSET Ttls
    BY <1>1, <1>3 DEF BoundsTo
  <1> QED BY <1>2, <1>3, <1>4

LEMMA BoundsGrow ==
    ASSUME NEW entries \in Seq(Permissions), NEW uses, NEW k \in 1..Len(entries)
    PROVE  /\ entries[k].ttl \in Ttls /\ BoundsTo(entries, k - 1, uses) \in SUBSET Ttls
           /\ entries[k] \in uses =>
                BoundsTo(entries, k, uses) = BoundsTo(entries, k - 1, uses) \cup {entries[k].ttl}
           /\ entries[k] \notin uses =>
                BoundsTo(entries, k, uses) = BoundsTo(entries, k - 1, uses)
  <1>1. \A i \in 1..Len(entries) : entries[i].ttl \in Ttls
    BY GrantsAssumption
  <1>2. BoundsTo(entries, k - 1, uses) \in SUBSET Ttls
    BY <1>1 DEF BoundsTo
  <1>3. 1..k = (1..(k - 1)) \cup {k}
    OBVIOUS
  <1>4. PICK A : A = {j \in 1..(k - 1) : entries[j] \in uses}
    OBVIOUS
  <1>5. BoundsTo(entries, k - 1, uses) = {entries[i].ttl : i \in A}
    BY <1>4 DEF BoundsTo
  <1>6. ASSUME entries[k] \in uses
        PROVE  BoundsTo(entries, k, uses) = BoundsTo(entries, k - 1, uses) \cup {entries[k].ttl}
    <2>1. {j \in 1..k : entries[j] \in uses} = A \cup {k}
      BY <1>3, <1>4, <1>6
    <2>2. {entries[i].ttl : i \in A \cup {k}} = {entries[i].ttl : i \in A} \cup {entries[k].ttl}
      OBVIOUS
    <2>3. BoundsTo(entries, k, uses) = {entries[i].ttl : i \in A \cup {k}}
      BY <2>1 DEF BoundsTo
    <2> QED BY <1>5, <2>2, <2>3
  <1>7. ASSUME entries[k] \notin uses
        PROVE  BoundsTo(entries, k, uses) = BoundsTo(entries, k - 1, uses)
    <2>1. {j \in 1..k : entries[j] \in uses} = A
      BY <1>3, <1>4, <1>7
    <2> QED BY <1>5, <2>1 DEF BoundsTo
  <1> QED BY <1>1, <1>2, <1>6, <1>7

(* allowed_by, entry by entry: at the end x allows what all entries for the *)
(* use allow.                                                               *)
LEMMA UnionChain ==
    ASSUME NEW entries \in Seq(Permissions), NEW uses, NEW x, x[0] = Denied,
           \A i \in 1..Len(entries) :
               x[i] = IF entries[i] \in uses THEN CoveredUnion(x[i - 1], entries[i].ttl) ELSE x[i - 1]
    PROVE  Allows(x[Len(entries)], Bounds(entries, uses))
  <1> DEFINE B(k) == BoundsTo(entries, k, uses)
             Good == {i \in 0..Len(entries) : Allows(x[i], B(i))}
  <1>0. /\ B(0) = {} /\ B(Len(entries)) = Bounds(entries, uses)
        /\ \A k \in 1..Len(entries) :
             /\ entries[k].ttl \in Ttls /\ B(k - 1) \in SUBSET Ttls
             /\ entries[k] \in uses => B(k) = B(k - 1) \cup {entries[k].ttl}
             /\ entries[k] \notin uses => B(k) = B(k - 1)
    BY BoundsEnds, BoundsGrow
  <1> HIDE DEF B
  <1>1. Len(entries) \in Nat
    OBVIOUS
  <1>2. 0 \in Good
    BY <1>1, <1>0 DEF Allows
  <1>3. ASSUME NEW i \in 1..Len(entries), i - 1 \in Good PROVE i \in Good
    <2>1. Allows(x[i - 1], B(i - 1))
      BY <1>3
    <2>2. PICK y, S, t : y = x[i - 1] /\ S = B(i - 1) /\ t = entries[i].ttl
      OBVIOUS
    <2>3. Allows(y, S) /\ S \in SUBSET Ttls /\ t \in Ttls
      BY <2>1, <2>2, <1>0
    <2>4. CASE entries[i] \in uses
      <3>1. Allows(CoveredUnion(y, t), S \cup {t})
        BY <2>3, AllowsMore
      <3>2. B(i) = S \cup {t} /\ x[i] = CoveredUnion(y, t)
        BY <2>2, <2>4, <1>0
      <3>3. Allows(x[i], B(i))
        BY <3>1, <3>2
      <3> QED BY <3>3
    <2>5. CASE entries[i] \notin uses
      BY <2>3, <2>2, <2>5, <1>0
    <2> QED BY <2>4, <2>5
  <1>4. \A i \in 0..Len(entries) : i \in Good
    <2> HIDE DEF Good
    <2> QED BY <1>1, <1>2, <1>3, UpTo
  <1>5. Allows(x[Len(entries)], B(Len(entries)))
    BY <1>1, <1>4
  <1> QED BY <1>5, <1>0

(* subtract, entry by entry: a denial without a bound takes all, the others *)
(* cut.                                                                     *)
LEMMA DenyChain ==
    ASSUME NEW entries \in Seq(Permissions), NEW uses, NEW x,
           NEW missing \in BOOLEAN, NEW L \in SUBSET Ttls, Leaves(x[0], missing, L),
           \A i \in 1..Len(entries) :
               x[i] = IF entries[i] \in uses THEN CoveredDeny(x[i - 1], entries[i].ttl) ELSE x[i - 1]
    PROVE  Leaves(x[Len(entries)], missing \/ Unbounded \in Bounds(entries, uses),
                  L \cup Bounds(entries, uses))
  <1> DEFINE B(k) == BoundsTo(entries, k, uses)
             Left(i) == Leaves(x[i], missing \/ Unbounded \in B(i), L \cup B(i))
             Good == {i \in 0..Len(entries) : Left(i)}
  <1>0. /\ B(0) = {} /\ B(Len(entries)) = Bounds(entries, uses)
        /\ \A k \in 1..Len(entries) :
             /\ entries[k].ttl \in Ttls /\ B(k - 1) \in SUBSET Ttls
             /\ entries[k] \in uses => B(k) = B(k - 1) \cup {entries[k].ttl}
             /\ entries[k] \notin uses => B(k) = B(k - 1)
    BY BoundsEnds, BoundsGrow
  <1> HIDE DEF B
  <1>1. Len(entries) \in Nat
    OBVIOUS
  <1>2. 0 \in Good
    <2>1. Left(0)
      BY <1>0 DEF Leaves
    <2> HIDE DEF Left
    <2> QED BY <1>1, <2>1
  <1>3. ASSUME NEW i \in 1..Len(entries), i - 1 \in Good PROVE i \in Good
    <2>1. Left(i - 1)
      BY <1>3
    <2>2. PICK y, S, t : y = x[i - 1] /\ S = B(i - 1) /\ t = entries[i].ttl
      OBVIOUS
    <2> DEFINE gone == missing \/ Unbounded \in S
    <2>3. Leaves(y, gone, L \cup S) /\ L \cup S \in SUBSET Ttls /\ t \in Ttls
      BY <2>1, <2>2, <1>0
    <2>4. CASE entries[i] \in uses /\ t # Unbounded
      <3>1. Leaves(CoveredDeny(y, t), gone, (L \cup S) \cup {t})
        <4> gone \in BOOLEAN
          OBVIOUS
        <4> HIDE DEF gone
        <4> QED BY <2>3, <2>4, LeavesLess
      <3>2. B(i) = S \cup {t} /\ x[i] = CoveredDeny(y, t)
        BY <2>2, <2>4, <1>0
      <3>3. (L \cup S) \cup {t} = L \cup B(i)
        BY <3>2
      <3>4. gone = (missing \/ Unbounded \in B(i))
        BY <2>2, <2>4, <3>2
      <3>5. Left(i)
        BY <3>1, <3>2, <3>3, <3>4 DEF Leaves
      <3> HIDE DEF Left
      <3> QED BY <3>5
    <2>5. CASE entries[i] \in uses /\ t = Unbounded
      <3>1. x[i] = Denied
        BY <2>2, <2>5 DEF CoveredDeny
      <3>2. Unbounded \in B(i)
        BY <2>2, <2>5, <1>0
      <3> QED BY <3>1, <3>2 DEF Leaves
    <2>6. CASE entries[i] \notin uses
      <3>1. B(i) = S /\ x[i] = y
        BY <2>2, <2>6, <1>0
      <3> QED BY <2>1, <2>2, <3>1
    <2> QED BY <2>4, <2>5, <2>6
  <1>4. \A i \in 0..Len(entries) : i \in Good
    <2> HIDE DEF Good
    <2> QED BY <1>1, <1>2, <1>3, UpTo
  <1>5. Left(Len(entries))
    <2> HIDE DEF Left
    <2> QED BY <1>1, <1>4
  <1> QED BY <1>5, <1>0

(* The largest bound of each list that has one.                             *)
Tops(bounds) == {Largest(S) : S \in bounds \ {{}}}

(* One more ceiling: an empty list of bounds denies, another one cuts by    *)
(* its largest.                                                             *)
LEMMA CeilingLess ==
    ASSUME NEW bounds \in SUBSET (SUBSET Ttls), NEW x, Tops(bounds) \in SUBSET Ttls,
           Leaves(x, {} \in bounds, Tops(bounds)), NEW S \in SUBSET Ttls, NEW y, Allows(y, S)
    PROVE  /\ Tops(bounds \cup {S}) \in SUBSET Ttls
           /\ Leaves(CoveredIntersection(x, y), {} \in bounds \cup {S}, Tops(bounds \cup {S}))
  <1>1. CASE S = {}
    <2>1. Tops(bounds \cup {S}) = Tops(bounds)
      BY <1>1 DEF Tops
    <2> QED BY <1>1, <2>1 DEF Allows, Leaves, CoveredIntersection
  <1>2. CASE S # {}
    <2>1. y \in Ttls /\ Largest(S) = y
      BY <1>2, LargestIs DEF Allows, IsLargest
    <2>2. Tops(bounds \cup {S}) = Tops(bounds) \cup {y}
      BY <1>2, <2>1 DEF Tops
    <2>3. PICK T : T = Tops(bounds)
      OBVIOUS
    <2> DEFINE missing == {} \in bounds
    <2>5. ({} \in bounds \cup {S}) <=> missing
      BY <1>2
    <2>6. Leaves(CoveredIntersection(x, y), missing, T \cup {y})
      <3>1. missing \in BOOLEAN /\ Leaves(x, missing, T)
        BY <2>3
      <3> HIDE DEF missing
      <3> QED BY <3>1, <2>1, <2>3, LeavesLess
    <2> QED BY <2>1, <2>2, <2>3, <2>5, <2>6 DEF Leaves
  <1> QED BY <1>1, <1>2

(* The bounds that the first k boundaries give for a use, list by list.     *)
CeilingBounds(k, uses) == {Bounds(ceilings[b], uses) : b \in {x \in 1..k : ceilings[x] # None}}

(* intersect, boundary by boundary: y[b] is what the ceiling of b allows.   *)
LEMMA CeilingChain ==
    ASSUME GrantsTypeOK, NEW uses, NEW x, NEW y, Allows(x[0], Bounds(granted, uses)),
           \A b \in Boundaries : ceilings[b] # None => Allows(y[b], Bounds(ceilings[b], uses)),
           \A b \in Boundaries : x[b] = IF ceilings[b] = None THEN x[b - 1]
                                         ELSE CoveredIntersection(x[b - 1], y[b])
    PROVE  LET bounds == {Bounds(granted, uses)} \cup CeilingBounds(BoundaryCount, uses)
           IN  Tops(bounds) \in SUBSET Ttls /\ Leaves(x[BoundaryCount], {} \in bounds, Tops(bounds))
  <1> DEFINE bounds(k) == {Bounds(granted, uses)} \cup CeilingBounds(k, uses)
             Left(k) == /\ bounds(k) \in SUBSET (SUBSET Ttls) /\ Tops(bounds(k)) \in SUBSET Ttls
                        /\ Leaves(x[k], {} \in bounds(k), Tops(bounds(k)))
             Good == {k \in 0..BoundaryCount : Left(k)}
  <1>1. BoundaryCount \in Nat /\ Bounds(granted, uses) \in SUBSET Ttls
    BY GrantsAssumption, BoundsEnds DEF GrantsTypeOK
  <1>2. 0 \in Good
    <2>1. CeilingBounds(0, uses) = {}
      BY DEF CeilingBounds
    <2>2. bounds(0) = {Bounds(granted, uses)}
      BY <2>1
    <2>3. PICK S, v : S = Bounds(granted, uses) /\ v = x[0]
      OBVIOUS
    <2>4. S \in SUBSET Ttls /\ Allows(v, S)
      BY <1>1, <2>3
    <2>5. Tops({S}) \in SUBSET Ttls /\ Leaves(v, {} \in {S}, Tops({S}))
      <3>1. CASE S = {}
        <4>1. Tops({S}) = {}
          BY <3>1 DEF Tops
        <4> QED BY <2>4, <3>1, <4>1 DEF Allows, Leaves
      <3>2. CASE S # {}
        <4>1. v \in Ttls /\ Largest(S) = v
          BY <2>4, <3>2, LargestIs DEF Allows, IsLargest
        <4>2. Tops({S}) = {v}
          BY <3>2, <4>1 DEF Tops
        <4>3. IsSmallest(v, {v})
          BY <4>1, OfTwo DEF IsSmallest
        <4> QED BY <3>2, <4>1, <4>2, <4>3 DEF Leaves
      <3> QED BY <3>1, <3>2
    <2>6. Left(0)
      BY <2>2, <2>3, <2>4, <2>5
    <2> HIDE DEF Left
    <2> QED BY <1>1, <2>6
  <1>3. ASSUME NEW k \in 1..BoundaryCount, k - 1 \in Good PROVE k \in Good
    <2>1. Left(k - 1) /\ k \in Boundaries
      BY <1>1, <1>3 DEF Boundaries
    <2>2. 1..k = (1..(k - 1)) \cup {k}
      OBVIOUS
    <2>3. CASE ceilings[k] = None
      <3>1. {b \in 1..k : ceilings[b] # None} = {b \in 1..(k - 1) : ceilings[b] # None}
        BY <2>2, <2>3
      <3>2. CeilingBounds(k, uses) = CeilingBounds(k - 1, uses)
        BY <3>1 DEF CeilingBounds
      <3>3. x[k] = x[k - 1]
        BY <2>1, <2>3
      <3>4. Left(k)
        BY <2>1, <3>2, <3>3
      <3> HIDE DEF Left
      <3> QED BY <3>4
    <2>4. CASE ceilings[k] # None
      <3>1. {b \in 1..k : ceilings[b] # None} = {b \in 1..(k - 1) : ceilings[b] # None} \cup {k}
        BY <2>2, <2>4
      <3>2. CeilingBounds(k, uses) = CeilingBounds(k - 1, uses) \cup {Bounds(ceilings[k], uses)}
        <4>1. PICK A : A = {b \in 1..(k - 1) : ceilings[b] # None}
          OBVIOUS
        <4>2. {Bounds(ceilings[b], uses) : b \in A \cup {k}}
                  = {Bounds(ceilings[b], uses) : b \in A} \cup {Bounds(ceilings[k], uses)}
          OBVIOUS
        <4>3. CeilingBounds(k, uses) = {Bounds(ceilings[b], uses) : b \in A \cup {k}}
          BY <3>1, <4>1 DEF CeilingBounds
        <4>4. CeilingBounds(k - 1, uses) = {Bounds(ceilings[b], uses) : b \in A}
          BY <4>1 DEF CeilingBounds
        <4> QED BY <4>2, <4>3, <4>4
      <3>3. PICK ls, S, v, w : /\ ls = bounds(k - 1) /\ S = Bounds(ceilings[k], uses)
                               /\ v = x[k - 1] /\ w = y[k]
        OBVIOUS
      <3>4. bounds(k) = ls \cup {S}
        BY <3>2, <3>3
      <3>5. S \in SUBSET Ttls /\ Allows(w, S)
        BY <2>1, <2>4, <3>3, BoundsEnds DEF GrantsTypeOK
      <3>6. x[k] = CoveredIntersection(v, w)
        BY <2>1, <2>4, <3>3
      <3>7. ls \in SUBSET (SUBSET Ttls) /\ Tops(ls) \in SUBSET Ttls /\ Leaves(v, {} \in ls, Tops(ls))
        BY <2>1, <3>3
      <3>8. /\ Tops(ls \cup {S}) \in SUBSET Ttls
            /\ Leaves(CoveredIntersection(v, w), {} \in ls \cup {S}, Tops(ls \cup {S}))
        BY <3>5, <3>7, CeilingLess
      <3>9. Left(k)
        BY <3>4, <3>5, <3>6, <3>7, <3>8
      <3> HIDE DEF Left
      <3> QED BY <3>9
    <2> QED BY <2>3, <2>4
  <1>4. \A k \in 0..BoundaryCount : k \in Good
    <2> HIDE DEF Good
    <2> QED BY <1>1, <1>2, <1>3, UpTo
  <1>5. Left(BoundaryCount)
    <2> HIDE DEF Left
    <2> QED BY <1>1, <1>4
  <1> QED BY <1>5

(* So the three steps together leave what the entries mean.                 *)
LEMMA StepsLeaveTheMeaning ==
    ASSUME GrantsTypeOK, NEW uses, NEW x, NEW y, NEW z, Allows(x[0], Bounds(granted, uses)),
           \A b \in Boundaries : ceilings[b] # None => Allows(y[b], Bounds(ceilings[b], uses)),
           \A b \in Boundaries : x[b] = IF ceilings[b] = None THEN x[b - 1]
                                         ELSE CoveredIntersection(x[b - 1], y[b]),
           z[0] = x[BoundaryCount],
           \A i \in 1..Len(denied) :
               z[i] = IF denied[i] \in uses THEN CoveredDeny(z[i - 1], denied[i].ttl) ELSE z[i - 1]
    PROVE  z[Len(denied)] = Meaning(uses)
  <1> DEFINE bounds == {Bounds(granted, uses)} \cup CeilingBounds(BoundaryCount, uses)
  <1>1. Tops(bounds) \in SUBSET Ttls /\ Leaves(z[0], {} \in bounds, Tops(bounds))
    BY CeilingChain
  <1>2. PICK L, D, w : L = Tops(bounds) /\ D = Bounds(denied, uses) /\ w = z[Len(denied)]
    OBVIOUS
  <1> DEFINE missing == {} \in bounds
  <1>3. Leaves(w, missing \/ Unbounded \in D, L \cup D)
    <2>1. denied \in Seq(Permissions)
      BY DEF GrantsTypeOK
    <2> HIDE DEF bounds
    <2>2. Leaves(z[0], missing, L) /\ L \in SUBSET Ttls
      BY <1>1, <1>2
    <2>3. missing \in BOOLEAN
      OBVIOUS
    <2> HIDE DEF missing
    <2> QED BY <2>1, <2>2, <2>3, <1>2, DenyChain
  <1>4. bounds = {Bounds(granted, uses)} \cup
                {Bounds(ceilings[b], uses) : b \in {b \in Boundaries : ceilings[b] # None}}
    BY DEF CeilingBounds, Boundaries
  <1>5. CASE missing \/ Unbounded \in D
    <2>1. w = Denied
      BY <1>3, <1>5 DEF Leaves
    <2> HIDE DEF bounds
    <2> QED BY <1>2, <1>4, <1>5, <2>1 DEF Meaning
  <1>6. CASE ~missing /\ Unbounded \notin D
    <2>1. IsSmallest(w, L \cup D)
      BY <1>3, <1>6 DEF Leaves
    <2>2. L \cup D \in SUBSET Ttls
      BY <1>1, <1>2, BoundsEnds DEF GrantsTypeOK
    <2>3. Smallest(L \cup D) = w
      BY <2>1, <2>2, SmallestIs
    <2>4. L = {Largest(S) : S \in bounds}
      BY <1>2, <1>6 DEF Tops
    <2> HIDE DEF bounds
    <2> QED BY <1>2, <1>4, <1>6, <2>3, <2>4 DEF Meaning
  <1> QED BY <1>5, <1>6

-----------------------------------------------------------------------------
(* The two kinds of table, and what one entry makes of what a table says.   *)
CommandTables == [named : UNION {[D -> Covered] : D \in SUBSET Commands}, other : Covered]
CapTables == UNION {[D -> Ttls] : D \in SUBSET Capabilities}

ForCommand(c) == {p \in Permissions : p.commands = None \/ c \in p.commands}
ForCapability(c) == {p \in Permissions : c \in CapabilitiesOf(p)}

CapTtl(t, c) == IF c \in DOMAIN t THEN t[c] ELSE Denied

(* The operations on bounds give bounds or Denied.                          *)
LEMMA Closed ==
    ASSUME NEW a \in Covered, NEW b \in Covered
    PROVE  /\ CoveredUnion(a, b) \in Covered /\ CoveredIntersection(a, b) \in Covered
           /\ b \in Ttls => CoveredDeny(a, b) \in Covered
  BY DEF Covered, CoveredUnion, CoveredIntersection, CoveredDeny, TtlMax, TtlMin, Ttls

(* One entry changes what a table says of the commands that it is for,      *)
(* whether the table names them or not: a command that is named for the     *)
(* first time starts from the default.                                      *)
LEMMA CommandStep ==
    ASSUME NEW t \in CommandTables, NEW p \in Permissions
    PROVE  /\ CommandsUnion(t, p) \in CommandTables
           /\ CommandsDeny(t, p) \in CommandTables
           /\ \A c \in Commands :
                /\ Permits(CommandsUnion(t, p), c) =
                     IF p \in ForCommand(c) THEN CoveredUnion(Permits(t, c), p.ttl) ELSE Permits(t, c)
                /\ Permits(CommandsDeny(t, p), c) =
                     IF p \in ForCommand(c) THEN CoveredDeny(Permits(t, c), p.ttl) ELSE Permits(t, c)
  <1>1. PICK D \in SUBSET Commands : t.named \in [D -> Covered]
    BY DEF CommandTables
  <1>2. DOMAIN t.named = D /\ t.other \in Covered /\ t = [named |-> t.named, other |-> t.other]
    BY <1>1 DEF CommandTables
  <1>3. p.ttl \in Ttls /\ p.ttl \in Covered
    BY GrantsAssumption DEF Covered
  <1>4. \A a \in Covered : CoveredUnion(a, p.ttl) \in Covered /\ CoveredDeny(a, p.ttl) \in Covered
    BY <1>3, Closed
  <1>5. CASE p.commands = None
    <2>1. CommandsUnion(t, p) = [named |-> [c \in D |-> CoveredUnion(t.named[c], p.ttl)],
                                 other |-> CoveredUnion(t.other, p.ttl)]
      BY <1>2, <1>5 DEF CommandsUnion, Apply
    <2>2. CommandsDeny(t, p) = [named |-> [c \in D |-> CoveredDeny(t.named[c], p.ttl)],
                                other |-> CoveredDeny(t.other, p.ttl)]
      BY <1>2, <1>5 DEF CommandsDeny, Apply
    <2>3. /\ [c \in D |-> CoveredUnion(t.named[c], p.ttl)] \in [D -> Covered]
          /\ [c \in D |-> CoveredDeny(t.named[c], p.ttl)] \in [D -> Covered]
      BY <1>1, <1>4
    <2>4. \A c \in Commands : p \in ForCommand(c)
      BY <1>5 DEF ForCommand
    <2>5. CommandsUnion(t, p) \in CommandTables /\ CommandsDeny(t, p) \in CommandTables
      BY <1>2, <1>4, <2>1, <2>2, <2>3 DEF CommandTables
    <2> QED BY <1>2, <2>1, <2>2, <2>4, <2>5 DEF Permits
  <1>6. CASE p.commands # None
    <2>1. p.commands \in SUBSET Commands
      BY <1>6, GrantsAssumption
    <2> DEFINE E == D \cup p.commands
    <2>2. CommandsUnion(t, p) =
              [named |-> [c \in E |->
                            IF c \in p.commands THEN CoveredUnion(Permits(t, c), p.ttl) ELSE t.named[c]],
               other |-> t.other]
      BY <1>2, <1>6 DEF CommandsUnion, Apply, StartOf
    <2>3. CommandsDeny(t, p) =
              [named |-> [c \in E |->
                            IF c \in p.commands THEN CoveredDeny(Permits(t, c), p.ttl) ELSE t.named[c]],
               other |-> t.other]
      BY <1>2, <1>6 DEF CommandsDeny, Apply, StartOf
    <2>4. \A c : Permits(t, c) \in Covered
      BY <1>1, <1>2 DEF Permits
    <2>5. \A c \in Commands : p \in ForCommand(c) <=> c \in p.commands
      BY <1>6 DEF ForCommand
    <2>6. /\ [c \in E |-> IF c \in p.commands THEN CoveredUnion(Permits(t, c), p.ttl) ELSE t.named[c]]
                 \in [E -> Covered]
          /\ [c \in E |-> IF c \in p.commands THEN CoveredDeny(Permits(t, c), p.ttl) ELSE t.named[c]]
                 \in [E -> Covered]
      BY <1>1, <1>4, <2>4
    <2>7. E \in SUBSET Commands
      BY <2>1
    <2> HIDE DEF E
    <2>8. CommandsUnion(t, p) \in CommandTables /\ CommandsDeny(t, p) \in CommandTables
      BY <1>2, <2>2, <2>3, <2>6, <2>7 DEF CommandTables
    <2>9. ASSUME NEW c \in Commands
          PROVE  /\ Permits(CommandsUnion(t, p), c) =
                      IF p \in ForCommand(c) THEN CoveredUnion(Permits(t, c), p.ttl) ELSE Permits(t, c)
                 /\ Permits(CommandsDeny(t, p), c) =
                      IF p \in ForCommand(c) THEN CoveredDeny(Permits(t, c), p.ttl) ELSE Permits(t, c)
      <3>1. CASE c \in p.commands
        <4>1. c \in E
          BY <3>1 DEF E
        <4> QED BY <2>2, <2>3, <2>5, <3>1, <4>1 DEF Permits
      <3>2. CASE c \notin p.commands
        <4>1. c \in E <=> c \in D
          BY <3>2 DEF E
        <4> QED BY <1>2, <2>2, <2>3, <2>5, <3>2, <4>1 DEF Permits
      <3> QED BY <3>1, <3>2
    <2> QED BY <2>8, <2>9
  <1> QED BY <1>5, <1>6

(* Two tables that name other commands meet on each command.                *)
LEMMA CommandMeet ==
    ASSUME NEW t \in CommandTables, NEW u \in CommandTables
    PROVE  /\ CommandsIntersect(t, u) \in CommandTables
           /\ \A c \in Commands :
                Permits(CommandsIntersect(t, u), c) = CoveredIntersection(Permits(t, c), Permits(u, c))
  <1>1. PICK D \in SUBSET Commands : t.named \in [D -> Covered]
    BY DEF CommandTables
  <1>2. PICK E \in SUBSET Commands : u.named \in [E -> Covered]
    BY DEF CommandTables
  <1>3. /\ DOMAIN t.named = D /\ DOMAIN u.named = E
        /\ t.other \in Covered /\ u.other \in Covered
    BY <1>1, <1>2 DEF CommandTables
  <1>4. \A c : Permits(t, c) \in Covered /\ Permits(u, c) \in Covered
    BY <1>1, <1>2, <1>3 DEF Permits
  <1>5. PICK F : F = D \cup E
    OBVIOUS
  <1>6. CommandsIntersect(t, u) =
            [named |-> [c \in F |-> CoveredIntersection(Permits(t, c), Permits(u, c))],
             other |-> CoveredIntersection(t.other, u.other)]
    BY <1>3, <1>5 DEF CommandsIntersect
  <1>7. [c \in F |-> CoveredIntersection(Permits(t, c), Permits(u, c))] \in [F -> Covered]
    BY <1>4, Closed
  <1>8. CommandsIntersect(t, u) \in CommandTables
    <2>1. CoveredIntersection(t.other, u.other) \in Covered /\ F \in SUBSET Commands
      BY <1>3, <1>5, Closed
    <2> QED BY <1>6, <1>7, <2>1 DEF CommandTables
  <1>9. ASSUME NEW c \in Commands
        PROVE  Permits(CommandsIntersect(t, u), c) = CoveredIntersection(Permits(t, c), Permits(u, c))
    <2>1. CASE c \in F
      BY <1>6, <2>1 DEF Permits
    <2>2. CASE c \notin F
      BY <1>3, <1>5, <1>6, <2>2 DEF Permits
    <2> QED BY <2>1, <2>2
  <1> QED BY <1>8, <1>9

(* The same of the capabilities, where what is denied has no entry.         *)
LEMMA CapStep ==
    ASSUME NEW t \in CapTables, NEW p \in Permissions
    PROVE  /\ CapsUnion(t, p) \in CapTables
           /\ CapsDeny(t, p) \in CapTables
           /\ \A c \in Capabilities :
                /\ CapTtl(CapsUnion(t, p), c) =
                     IF p \in ForCapability(c) THEN CoveredUnion(CapTtl(t, c), p.ttl) ELSE CapTtl(t, c)
                /\ CapTtl(CapsDeny(t, p), c) =
                     IF p \in ForCapability(c) THEN CoveredDeny(CapTtl(t, c), p.ttl) ELSE CapTtl(t, c)
  <1>1. PICK D \in SUBSET Capabilities : t \in [D -> Ttls]
    BY DEF CapTables
  <1>2. PICK C : C = CapabilitiesOf(p)
    OBVIOUS
  <1>3. C \in SUBSET Capabilities
    BY <1>2, GrantsAssumption DEF CapabilitiesOf
  <1>4. p.ttl \in Ttls /\ p.ttl # Denied /\ \A c \in D : t[c] \in Ttls /\ t[c] # Denied
    BY <1>1, GrantsAssumption
  <1>5. \A c \in Capabilities : p \in ForCapability(c) <=> c \in C
    BY <1>2 DEF ForCapability
  <1>6. PICK E : E = D \cup C
    OBVIOUS
  <1>7. CapsUnion(t, p) = [c \in E |-> IF c \notin D THEN p.ttl
                                        ELSE IF c \in C THEN TtlMax(t[c], p.ttl) ELSE t[c]]
    BY <1>1, <1>2, <1>6 DEF CapsUnion
  <1>8. CapsUnion(t, p) \in CapTables
    <2>1. CapsUnion(t, p) \in [E -> Ttls]
      BY <1>4, <1>7 DEF TtlMax, Ttls
    <2> QED BY <1>3, <1>6, <2>1 DEF CapTables
  <1>9. CapsDeny(t, p) \in CapTables
    <2>1. CASE p.ttl = Unbounded
      <3>1. PICK F : F = D \ (C \cap D)
        OBVIOUS
      <3>2. CapsDeny(t, p) = [c \in F |-> t[c]]
        BY <1>1, <1>2, <2>1, <3>1 DEF CapsDeny
      <3>3. CapsDeny(t, p) \in [F -> Ttls] /\ F \in SUBSET Capabilities
        BY <1>1, <3>1, <3>2
      <3> QED BY <3>3 DEF CapTables
    <2>2. CASE p.ttl # Unbounded
      <3>1. CapsDeny(t, p) = [c \in D |-> IF c \in C \cap D THEN TtlMin(t[c], p.ttl) ELSE t[c]]
        BY <1>1, <1>2, <2>2 DEF CapsDeny
      <3>2. CapsDeny(t, p) \in [D -> Ttls]
        BY <1>4, <3>1 DEF TtlMin, Ttls
      <3> QED BY <3>2 DEF CapTables
    <2> QED BY <2>1, <2>2
  <1>10. ASSUME NEW c \in Capabilities
         PROVE  CapTtl(CapsUnion(t, p), c) =
                     IF c \in C THEN CoveredUnion(CapTtl(t, c), p.ttl) ELSE CapTtl(t, c)
    BY <1>1, <1>4, <1>6, <1>7 DEF CapTtl, CoveredUnion
  <1>11. ASSUME NEW c \in Capabilities
         PROVE  CapTtl(CapsDeny(t, p), c) =
                     IF c \in C THEN CoveredDeny(CapTtl(t, c), p.ttl) ELSE CapTtl(t, c)
    <2>1. CASE p.ttl = Unbounded
      <3>1. CapsDeny(t, p) = [x \in D \ (C \cap D) |-> t[x]]
        BY <1>1, <1>2, <2>1 DEF CapsDeny
      <3> QED BY <1>1, <1>4, <2>1, <3>1 DEF CapTtl, CoveredDeny
    <2>2. CASE p.ttl # Unbounded
      <3>1. CapsDeny(t, p) = [x \in D |-> IF x \in C \cap D THEN TtlMin(t[x], p.ttl) ELSE t[x]]
        BY <1>1, <1>2, <2>2 DEF CapsDeny
      <3> QED BY <1>1, <1>4, <2>2, <3>1 DEF CapTtl, CoveredDeny
    <2> QED BY <2>1, <2>2
  <1> QED BY <1>5, <1>8, <1>9, <1>10, <1>11

LEMMA CapMeet ==
    ASSUME NEW t \in CapTables, NEW u \in CapTables
    PROVE  /\ CapsIntersect(t, u) \in CapTables
           /\ \A c \in Capabilities :
                CapTtl(CapsIntersect(t, u), c) = CoveredIntersection(CapTtl(t, c), CapTtl(u, c))
  <1>1. PICK D \in SUBSET Capabilities : t \in [D -> Ttls]
    BY DEF CapTables
  <1>2. PICK E \in SUBSET Capabilities : u \in [E -> Ttls]
    BY DEF CapTables
  <1>3. PICK F : F = D \cap E
    OBVIOUS
  <1>4. CapsIntersect(t, u) = [c \in F |-> TtlMin(t[c], u[c])]
    BY <1>1, <1>2, <1>3 DEF CapsIntersect
  <1>5. (\A c \in D : t[c] \in Ttls /\ t[c] # Denied) /\ (\A c \in E : u[c] \in Ttls /\ u[c] # Denied)
    BY <1>1, <1>2, GrantsAssumption
  <1>6. CapsIntersect(t, u) \in [F -> Ttls] /\ F \in SUBSET Capabilities
    BY <1>3, <1>4, <1>5 DEF TtlMin, Ttls
  <1>7. CapsIntersect(t, u) \in CapTables
    BY <1>6 DEF CapTables
  <1>8. ASSUME NEW c \in Capabilities
        PROVE  CapTtl(CapsIntersect(t, u), c) = CoveredIntersection(CapTtl(t, c), CapTtl(u, c))
    BY <1>1, <1>2, <1>3, <1>4, <1>5 DEF CapTtl, CoveredIntersection
  <1> QED BY <1>7, <1>8


(* The tables that allow nothing.                                           *)
LEMMA EmptyTables == NoCommands \in CommandTables /\ NoCaps \in CapTables
  <1>1. [c \in {} |-> Denied] \in [{} -> Covered] /\ [c \in {} |-> Denied] \in [{} -> Ttls]
    OBVIOUS
  <1>2. {} \in SUBSET Commands /\ {} \in SUBSET Capabilities /\ Denied \in Covered
    BY DEF Covered
  <1> QED BY <1>1, <1>2 DEF NoCommands, NoCaps, CommandTables, CapTables

(* Two functions that start alike and go on alike end alike.                *)
LEMMA SameEnd ==
    ASSUME NEW n \in Nat, NEW f, NEW g, g[0] = f[0],
           \A i \in 1..n : g[i - 1] = f[i - 1] => g[i] = f[i]
    PROVE  g[n] = f[n]
  <1> DEFINE Same == {i \in 0..n : g[i] = f[i]}
  <1>1. 0 \in Same /\ \A i \in 1..n : i - 1 \in Same => i \in Same
    OBVIOUS
  <1> HIDE DEF Same
  <1>2. n \in Same
    BY <1>1, UpTo
  <1> QED BY <1>2 DEF Same

(* allowed_by, for commands: one table after each entry.                    *)
LEMMA CommandsAllowed ==
    ASSUME NEW entries \in Seq(Permissions), NEW covering
    PROVE  \E f \in [0..Len(entries) -> CommandTables] :
               /\ f[0] = NoCommands /\ f[Len(entries)] = CommandsAllowedBy(entries, covering)
               /\ \A i \in 1..Len(entries) :
                    f[i] = IF entries[i] \in covering THEN CommandsUnion(f[i - 1], entries[i]) ELSE f[i - 1]
  <1> DEFINE n == Len(entries)
             After(t, i) == IF entries[i] \in covering THEN CommandsUnion(t, entries[i]) ELSE t
             step == [i \in 1..n |-> [t \in CommandTables |-> After(t, i)]]
             isFold(h) == h = [i \in 0..n |-> IF i = 0 THEN NoCommands ELSE After(h[i - 1], i)]
  <1>1. n \in Nat /\ NoCommands \in CommandTables
    BY EmptyTables
  <1>2. step \in [1..n -> [CommandTables -> CommandTables]]
    BY CommandStep
  <1>3. \E f \in [0..n -> CommandTables] :
            /\ f[0] = NoCommands
            /\ \A i \in 1..n : f[i] = step[i][f[i - 1]]
    <2>1. PICK s, m, T, a : s = step /\ m = n /\ T = CommandTables /\ a = NoCommands
      OBVIOUS
    <2> HIDE DEF step, n
    <2>2. m \in Nat /\ a \in T /\ s \in [1..m -> [T -> T]]
      BY <1>1, <1>2, <2>1
    <2>3. \E f \in [0..m -> T] : f[0] = a /\ \A i \in 1..m : f[i] = s[i][f[i - 1]]
      BY <2>2, Recursion
    <2> QED BY <2>1, <2>3
  <1>4. PICK f \in [0..n -> CommandTables] :
            /\ f[0] = NoCommands
            /\ \A i \in 1..n : f[i] = step[i][f[i - 1]]
    BY <1>3
  <1>5. ASSUME NEW i \in 1..n PROVE f[i] = After(f[i - 1], i)
    <2>1. f[i - 1] \in CommandTables /\ f[i] = step[i][f[i - 1]]
      BY <1>1, <1>4
    <2> HIDE DEF After
    <2> QED BY <2>1
  <1> DEFINE g == CHOOSE h : isFold(h)
  <1>6. isFold(g)
    <2>1. isFold(f)
      BY <1>1, <1>4, <1>5
    <2> HIDE DEF isFold
    <2> QED BY <2>1
  <1>7. CommandsAllowedBy(entries, covering) = g[n]
    BY DEF CommandsAllowedBy, Folded
  <1> HIDE DEF g, step
  <1>8. g[0] = f[0] /\ \A i \in 1..n : g[i - 1] = f[i - 1] => g[i] = f[i]
    <2> HIDE DEF After, n
    <2>1. g[0] = f[0]
      BY <1>1, <1>4, <1>6
    <2>2. ASSUME NEW i \in 1..n, g[i - 1] = f[i - 1] PROVE g[i] = f[i]
      <3>1. i \in 0..n /\ i # 0
        BY <1>1
      <3>2. g[i] = After(g[i - 1], i)
        BY <3>1, <1>6
      <3> QED BY <1>5, <2>2, <3>2
    <2> QED BY <2>1, <2>2
  <1>9. g[n] = f[n]
    <2> HIDE DEF n
    <2> QED BY <1>1, <1>8, SameEnd
  <1> QED BY <1>4, <1>5, <1>7, <1>9

LEMMA CommandsAllowedTable ==
    ASSUME NEW entries \in Seq(Permissions), NEW covering
    PROVE  CommandsAllowedBy(entries, covering) \in CommandTables
  <1>1. Len(entries) \in 0..Len(entries)
    OBVIOUS
  <1> QED BY <1>1, CommandsAllowed

(* subtract, for commands.                                                  *)
LEMMA CommandsDenied ==
    ASSUME NEW entries \in Seq(Permissions), NEW table, NEW covering
    PROVE  table \in CommandTables => \E f \in [0..Len(entries) -> CommandTables] :
               /\ f[0] = table /\ f[Len(entries)] = CommandsSubtract(table, entries, covering)
               /\ \A i \in 1..Len(entries) :
                    f[i] = IF entries[i] \in covering THEN CommandsDeny(f[i - 1], entries[i]) ELSE f[i - 1]
  <1>1. ASSUME table \in CommandTables
        PROVE  \E f \in [0..Len(entries) -> CommandTables] :
                 /\ f[0] = table /\ f[Len(entries)] = CommandsSubtract(table, entries, covering)
                 /\ \A i \in 1..Len(entries) :
                      f[i] = IF entries[i] \in covering THEN CommandsDeny(f[i - 1], entries[i]) ELSE f[i - 1]
    <2> DEFINE n == Len(entries)
               After(t, i) == IF entries[i] \in covering THEN CommandsDeny(t, entries[i]) ELSE t
               step == [i \in 1..n |-> [t \in CommandTables |-> After(t, i)]]
               isFold(h) == h = [i \in 0..n |-> IF i = 0 THEN table ELSE After(h[i - 1], i)]
    <2>1. n \in Nat /\ table \in CommandTables
      BY <1>1
    <2>2. step \in [1..n -> [CommandTables -> CommandTables]]
      BY CommandStep
    <2>3. \E f \in [0..n -> CommandTables] :
              /\ f[0] = table
              /\ \A i \in 1..n : f[i] = step[i][f[i - 1]]
      <3>1. PICK s, m, T, a : s = step /\ m = n /\ T = CommandTables /\ a = table
        OBVIOUS
      <3> HIDE DEF step, n
      <3>2. m \in Nat /\ a \in T /\ s \in [1..m -> [T -> T]]
        BY <2>1, <2>2, <3>1
      <3>3. \E f \in [0..m -> T] : f[0] = a /\ \A i \in 1..m : f[i] = s[i][f[i - 1]]
        BY <3>2, Recursion
      <3> QED BY <3>1, <3>3
    <2>4. PICK f \in [0..n -> CommandTables] :
              /\ f[0] = table
              /\ \A i \in 1..n : f[i] = step[i][f[i - 1]]
      BY <2>3
    <2>5. ASSUME NEW i \in 1..n PROVE f[i] = After(f[i - 1], i)
      <3>1. f[i - 1] \in CommandTables /\ f[i] = step[i][f[i - 1]]
        BY <2>1, <2>4
      <3> HIDE DEF After
      <3> QED BY <3>1
    <2> DEFINE g == CHOOSE h : isFold(h)
    <2>6. isFold(g)
      <3>1. isFold(f)
        BY <2>1, <2>4, <2>5
      <3> HIDE DEF isFold
      <3> QED BY <3>1
    <2>7. CommandsSubtract(table, entries, covering) = g[n]
      BY DEF CommandsSubtract, Folded
    <2> HIDE DEF g, step
    <2>8. g[0] = f[0] /\ \A i \in 1..n : g[i - 1] = f[i - 1] => g[i] = f[i]
      <3> HIDE DEF After, n
      <3>1. g[0] = f[0]
        BY <2>1, <2>4, <2>6
      <3>2. ASSUME NEW i \in 1..n, g[i - 1] = f[i - 1] PROVE g[i] = f[i]
        <4>1. i \in 0..n /\ i # 0
          BY <2>1
        <4>2. g[i] = After(g[i - 1], i)
          BY <4>1, <2>6
        <4> QED BY <2>5, <3>2, <4>2
      <3> QED BY <3>1, <3>2
    <2>9. g[n] = f[n]
      <3> HIDE DEF n
      <3> QED BY <2>1, <2>8, SameEnd
    <2> QED BY <2>4, <2>5, <2>7, <2>9
  <1> QED BY <1>1

(* The loop over the ceilings, for commands.                                *)
LEMMA CommandsCeiled ==
    ASSUME GrantsTypeOK, NEW covering
    PROVE  \E f \in [0..BoundaryCount -> CommandTables] :
               /\ f[0] = CommandsAllowedBy(granted, covering)
               /\ f[BoundaryCount] = CommandsUnderCeilings(covering)
               /\ \A i \in 1..BoundaryCount : f[i] = IF ceilings[i] = None THEN f[i - 1]
                                        ELSE CommandsIntersect(f[i - 1], CommandsAllowedBy(ceilings[i], covering))
  <1> DEFINE n == BoundaryCount
             After(t, i) == IF ceilings[i] = None THEN t
                                        ELSE CommandsIntersect(t, CommandsAllowedBy(ceilings[i], covering))
             step == [i \in 1..n |-> [t \in CommandTables |-> After(t, i)]]
             isFold(h) == h = [i \in 0..n |->
                              IF i = 0 THEN CommandsAllowedBy(granted, covering) ELSE After(h[i - 1], i)]
  <1>1. n \in Nat /\ CommandsAllowedBy(granted, covering) \in CommandTables
    BY GrantsAssumption, CommandsAllowedTable DEF GrantsTypeOK
  <1>2. step \in [1..n -> [CommandTables -> CommandTables]]
    <2>1. ASSUME NEW t \in CommandTables, NEW i \in 1..n PROVE After(t, i) \in CommandTables
      <3>1. ceilings[i] # None => CommandsAllowedBy(ceilings[i], covering) \in CommandTables
        BY CommandsAllowedTable DEF GrantsTypeOK, Boundaries
      <3> QED BY <3>1, CommandMeet
    <2> HIDE DEF After
    <2> QED BY <2>1
  <1>3. \E f \in [0..n -> CommandTables] :
            /\ f[0] = CommandsAllowedBy(granted, covering)
            /\ \A i \in 1..n : f[i] = step[i][f[i - 1]]
    <2>1. PICK s, m, T, a :
              s = step /\ m = n /\ T = CommandTables /\ a = CommandsAllowedBy(granted, covering)
      OBVIOUS
    <2> HIDE DEF step, n
    <2>2. m \in Nat /\ a \in T /\ s \in [1..m -> [T -> T]]
      BY <1>1, <1>2, <2>1
    <2>3. \E f \in [0..m -> T] : f[0] = a /\ \A i \in 1..m : f[i] = s[i][f[i - 1]]
      BY <2>2, Recursion
    <2> QED BY <2>1, <2>3
  <1>4. PICK f \in [0..n -> CommandTables] :
            /\ f[0] = CommandsAllowedBy(granted, covering)
            /\ \A i \in 1..n : f[i] = step[i][f[i - 1]]
    BY <1>3
  <1>5. ASSUME NEW i \in 1..n PROVE f[i] = After(f[i - 1], i)
    <2>1. f[i - 1] \in CommandTables /\ f[i] = step[i][f[i - 1]]
      BY <1>1, <1>4
    <2> HIDE DEF After
    <2> QED BY <2>1
  <1> DEFINE g == CHOOSE h : isFold(h)
  <1>6. isFold(g)
    <2>1. isFold(f)
      BY <1>1, <1>4, <1>5
    <2> HIDE DEF isFold
    <2> QED BY <2>1
  <1>7. CommandsUnderCeilings(covering) = g[n]
    BY DEF CommandsUnderCeilings, UnderCeilings
  <1> HIDE DEF g, step
  <1>8. g[0] = f[0] /\ \A i \in 1..n : g[i - 1] = f[i - 1] => g[i] = f[i]
    <2> HIDE DEF After, n
    <2>1. g[0] = f[0]
      BY <1>1, <1>4, <1>6
    <2>2. ASSUME NEW i \in 1..n, g[i - 1] = f[i - 1] PROVE g[i] = f[i]
      <3>1. i \in 0..n /\ i # 0
        BY <1>1
      <3>2. g[i] = After(g[i - 1], i)
        BY <3>1, <1>6
      <3> QED BY <1>5, <2>2, <3>2
    <2> QED BY <2>1, <2>2
  <1>9. g[n] = f[n]
    <2> HIDE DEF n
    <2> QED BY <1>1, <1>8, SameEnd
  <1> QED BY <1>4, <1>5, <1>7, <1>9

(* allowed_by, for capabilities: one table after each entry.                *)
LEMMA CapsAllowed ==
    ASSUME NEW entries \in Seq(Permissions), NEW covering
    PROVE  \E f \in [0..Len(entries) -> CapTables] :
               /\ f[0] = NoCaps /\ f[Len(entries)] = CapsAllowedBy(entries, covering)
               /\ \A i \in 1..Len(entries) :
                    f[i] = IF entries[i] \in covering THEN CapsUnion(f[i - 1], entries[i]) ELSE f[i - 1]
  <1> DEFINE n == Len(entries)
             After(t, i) == IF entries[i] \in covering THEN CapsUnion(t, entries[i]) ELSE t
             step == [i \in 1..n |-> [t \in CapTables |-> After(t, i)]]
             isFold(h) == h = [i \in 0..n |-> IF i = 0 THEN NoCaps ELSE After(h[i - 1], i)]
  <1>1. n \in Nat /\ NoCaps \in CapTables
    BY EmptyTables
  <1>2. step \in [1..n -> [CapTables -> CapTables]]
    BY CapStep
  <1>3. \E f \in [0..n -> CapTables] : f[0] = NoCaps /\ \A i \in 1..n : f[i] = step[i][f[i - 1]]
    <2>1. PICK s, m, T, a : s = step /\ m = n /\ T = CapTables /\ a = NoCaps
      OBVIOUS
    <2> HIDE DEF step, n
    <2>2. m \in Nat /\ a \in T /\ s \in [1..m -> [T -> T]]
      BY <1>1, <1>2, <2>1
    <2>3. \E f \in [0..m -> T] : f[0] = a /\ \A i \in 1..m : f[i] = s[i][f[i - 1]]
      BY <2>2, Recursion
    <2> QED BY <2>1, <2>3
  <1>4. PICK f \in [0..n -> CapTables] : f[0] = NoCaps /\ \A i \in 1..n : f[i] = step[i][f[i - 1]]
    BY <1>3
  <1>5. ASSUME NEW i \in 1..n PROVE f[i] = After(f[i - 1], i)
    <2>1. f[i - 1] \in CapTables /\ f[i] = step[i][f[i - 1]]
      BY <1>1, <1>4
    <2> HIDE DEF After
    <2> QED BY <2>1
  <1> DEFINE g == CHOOSE h : isFold(h)
  <1>6. isFold(g)
    <2>1. isFold(f)
      BY <1>1, <1>4, <1>5
    <2> HIDE DEF isFold
    <2> QED BY <2>1
  <1>7. CapsAllowedBy(entries, covering) = g[n]
    BY DEF CapsAllowedBy, Folded
  <1> HIDE DEF g, step
  <1>8. g[0] = f[0] /\ \A i \in 1..n : g[i - 1] = f[i - 1] => g[i] = f[i]
    <2> HIDE DEF After, n
    <2>1. g[0] = f[0]
      BY <1>1, <1>4, <1>6
    <2>2. ASSUME NEW i \in 1..n, g[i - 1] = f[i - 1] PROVE g[i] = f[i]
      <3>1. i \in 0..n /\ i # 0
        BY <1>1
      <3>2. g[i] = After(g[i - 1], i)
        BY <3>1, <1>6
      <3> QED BY <1>5, <2>2, <3>2
    <2> QED BY <2>1, <2>2
  <1>9. g[n] = f[n]
    <2> HIDE DEF n
    <2> QED BY <1>1, <1>8, SameEnd
  <1> QED BY <1>4, <1>5, <1>7, <1>9

LEMMA CapsAllowedTable ==
    ASSUME NEW entries \in Seq(Permissions), NEW covering
    PROVE  CapsAllowedBy(entries, covering) \in CapTables
  <1>1. Len(entries) \in 0..Len(entries)
    OBVIOUS
  <1> QED BY <1>1, CapsAllowed

(* subtract, for capabilities.                                              *)
LEMMA CapsDenied ==
    ASSUME NEW entries \in Seq(Permissions), NEW table, NEW covering
    PROVE  table \in CapTables => \E f \in [0..Len(entries) -> CapTables] :
               /\ f[0] = table /\ f[Len(entries)] = CapsSubtract(table, entries, covering)
               /\ \A i \in 1..Len(entries) :
                    f[i] = IF entries[i] \in covering THEN CapsDeny(f[i - 1], entries[i]) ELSE f[i - 1]
  <1>1. ASSUME table \in CapTables
        PROVE  \E f \in [0..Len(entries) -> CapTables] :
                 /\ f[0] = table /\ f[Len(entries)] = CapsSubtract(table, entries, covering)
                 /\ \A i \in 1..Len(entries) :
                      f[i] = IF entries[i] \in covering THEN CapsDeny(f[i - 1], entries[i]) ELSE f[i - 1]
    <2> DEFINE n == Len(entries)
               After(t, i) == IF entries[i] \in covering THEN CapsDeny(t, entries[i]) ELSE t
               step == [i \in 1..n |-> [t \in CapTables |-> After(t, i)]]
               isFold(h) == h = [i \in 0..n |-> IF i = 0 THEN table ELSE After(h[i - 1], i)]
    <2>1. n \in Nat /\ table \in CapTables
      BY <1>1
    <2>2. step \in [1..n -> [CapTables -> CapTables]]
      BY CapStep
    <2>3. \E f \in [0..n -> CapTables] : f[0] = table /\ \A i \in 1..n : f[i] = step[i][f[i - 1]]
      <3>1. PICK s, m, T, a : s = step /\ m = n /\ T = CapTables /\ a = table
        OBVIOUS
      <3> HIDE DEF step, n
      <3>2. m \in Nat /\ a \in T /\ s \in [1..m -> [T -> T]]
        BY <2>1, <2>2, <3>1
      <3>3. \E f \in [0..m -> T] : f[0] = a /\ \A i \in 1..m : f[i] = s[i][f[i - 1]]
        BY <3>2, Recursion
      <3> QED BY <3>1, <3>3
    <2>4. PICK f \in [0..n -> CapTables] : f[0] = table /\ \A i \in 1..n : f[i] = step[i][f[i - 1]]
      BY <2>3
    <2>5. ASSUME NEW i \in 1..n PROVE f[i] = After(f[i - 1], i)
      <3>1. f[i - 1] \in CapTables /\ f[i] = step[i][f[i - 1]]
        BY <2>1, <2>4
      <3> HIDE DEF After
      <3> QED BY <3>1
    <2> DEFINE g == CHOOSE h : isFold(h)
    <2>6. isFold(g)
      <3>1. isFold(f)
        BY <2>1, <2>4, <2>5
      <3> HIDE DEF isFold
      <3> QED BY <3>1
    <2>7. CapsSubtract(table, entries, covering) = g[n]
      BY DEF CapsSubtract, Folded
    <2> HIDE DEF g, step
    <2>8. g[0] = f[0] /\ \A i \in 1..n : g[i - 1] = f[i - 1] => g[i] = f[i]
      <3> HIDE DEF After, n
      <3>1. g[0] = f[0]
        BY <2>1, <2>4, <2>6
      <3>2. ASSUME NEW i \in 1..n, g[i - 1] = f[i - 1] PROVE g[i] = f[i]
        <4>1. i \in 0..n /\ i # 0
          BY <2>1
        <4>2. g[i] = After(g[i - 1], i)
          BY <4>1, <2>6
        <4> QED BY <2>5, <3>2, <4>2
      <3> QED BY <3>1, <3>2
    <2>9. g[n] = f[n]
      <3> HIDE DEF n
      <3> QED BY <2>1, <2>8, SameEnd
    <2> QED BY <2>4, <2>5, <2>7, <2>9
  <1> QED BY <1>1

(* The loop over the ceilings, for capabilities.                            *)
LEMMA CapsCeiled ==
    ASSUME GrantsTypeOK, NEW covering
    PROVE  \E f \in [0..BoundaryCount -> CapTables] :
               /\ f[0] = CapsAllowedBy(granted, covering)
               /\ f[BoundaryCount] = CapsUnderCeilings(covering)
               /\ \A i \in 1..BoundaryCount : f[i] = IF ceilings[i] = None THEN f[i - 1]
                                        ELSE CapsIntersect(f[i - 1], CapsAllowedBy(ceilings[i], covering))
  <1> DEFINE n == BoundaryCount
             After(t, i) == IF ceilings[i] = None THEN t
                                        ELSE CapsIntersect(t, CapsAllowedBy(ceilings[i], covering))
             step == [i \in 1..n |-> [t \in CapTables |-> After(t, i)]]
             isFold(h) == h = [i \in 0..n |->
                              IF i = 0 THEN CapsAllowedBy(granted, covering) ELSE After(h[i - 1], i)]
  <1>1. n \in Nat /\ CapsAllowedBy(granted, covering) \in CapTables
    BY GrantsAssumption, CapsAllowedTable DEF GrantsTypeOK
  <1>2. step \in [1..n -> [CapTables -> CapTables]]
    <2>1. ASSUME NEW t \in CapTables, NEW i \in 1..n PROVE After(t, i) \in CapTables
      <3>1. ceilings[i] # None => CapsAllowedBy(ceilings[i], covering) \in CapTables
        BY CapsAllowedTable DEF GrantsTypeOK, Boundaries
      <3> QED BY <3>1, CapMeet
    <2> HIDE DEF After
    <2> QED BY <2>1
  <1>3. \E f \in [0..n -> CapTables] :
            /\ f[0] = CapsAllowedBy(granted, covering)
            /\ \A i \in 1..n : f[i] = step[i][f[i - 1]]
    <2>1. PICK s, m, T, a :
              s = step /\ m = n /\ T = CapTables /\ a = CapsAllowedBy(granted, covering)
      OBVIOUS
    <2> HIDE DEF step, n
    <2>2. m \in Nat /\ a \in T /\ s \in [1..m -> [T -> T]]
      BY <1>1, <1>2, <2>1
    <2>3. \E f \in [0..m -> T] : f[0] = a /\ \A i \in 1..m : f[i] = s[i][f[i - 1]]
      BY <2>2, Recursion
    <2> QED BY <2>1, <2>3
  <1>4. PICK f \in [0..n -> CapTables] :
            /\ f[0] = CapsAllowedBy(granted, covering)
            /\ \A i \in 1..n : f[i] = step[i][f[i - 1]]
    BY <1>3
  <1>5. ASSUME NEW i \in 1..n PROVE f[i] = After(f[i - 1], i)
    <2>1. f[i - 1] \in CapTables /\ f[i] = step[i][f[i - 1]]
      BY <1>1, <1>4
    <2> HIDE DEF After
    <2> QED BY <2>1
  <1> DEFINE g == CHOOSE h : isFold(h)
  <1>6. isFold(g)
    <2>1. isFold(f)
      BY <1>1, <1>4, <1>5
    <2> HIDE DEF isFold
    <2> QED BY <2>1
  <1>7. CapsUnderCeilings(covering) = g[n]
    BY DEF CapsUnderCeilings, UnderCeilings
  <1> HIDE DEF g, step
  <1>8. g[0] = f[0] /\ \A i \in 1..n : g[i - 1] = f[i - 1] => g[i] = f[i]
    <2> HIDE DEF After, n
    <2>1. g[0] = f[0]
      BY <1>1, <1>4, <1>6
    <2>2. ASSUME NEW i \in 1..n, g[i - 1] = f[i - 1] PROVE g[i] = f[i]
      <3>1. i \in 0..n /\ i # 0
        BY <1>1
      <3>2. g[i] = After(g[i - 1], i)
        BY <3>1, <1>6
      <3> QED BY <1>5, <2>2, <3>2
    <2> QED BY <2>1, <2>2
  <1>9. g[n] = f[n]
    <2> HIDE DEF n
    <2> QED BY <1>1, <1>8, SameEnd
  <1> QED BY <1>4, <1>5, <1>7, <1>9

(* What allowed_by says of one of the commands.                             *)
LEMMA CommandIsAllowed ==
    ASSUME NEW entries \in Seq(Permissions), NEW covering, NEW c \in Commands
    PROVE  Allows(Permits(CommandsAllowedBy(entries, covering), c),
                  Bounds(entries, ForCommand(c) \cap covering))
  <1>1. PICK f \in [0..Len(entries) -> CommandTables] :
            /\ f[0] = NoCommands /\ f[Len(entries)] = CommandsAllowedBy(entries, covering)
            /\ \A i \in 1..Len(entries) :
                 f[i] = IF entries[i] \in covering THEN CommandsUnion(f[i - 1], entries[i]) ELSE f[i - 1]
    <2>1. PICK t : t = CommandsAllowedBy(entries, covering)
      OBVIOUS
    <2>2. \E f \in [0..Len(entries) -> CommandTables] :
              /\ f[0] = NoCommands /\ f[Len(entries)] = t
              /\ \A i \in 1..Len(entries) :
                   f[i] = IF entries[i] \in covering THEN CommandsUnion(f[i - 1], entries[i]) ELSE f[i - 1]
      BY <2>1, CommandsAllowed
    <2> QED BY <2>1, <2>2
  <1>2. PICK x, uses :
            x = [i \in 0..Len(entries) |-> Permits(f[i], c)] /\ uses = ForCommand(c) \cap covering
    OBVIOUS
  <1>3. Len(entries) \in Nat /\ x[Len(entries)] = Permits(CommandsAllowedBy(entries, covering), c)
    BY <1>1, <1>2
  <1>4. x[0] = Denied
    <2>1. Permits(NoCommands, c) = Denied
      BY DEF Permits, NoCommands
    <2> QED BY <1>1, <1>2, <1>3, <2>1
  <1>5. ASSUME NEW i \in 1..Len(entries)
        PROVE  x[i] = IF entries[i] \in uses THEN CoveredUnion(x[i - 1], entries[i].ttl) ELSE x[i - 1]
    <2>1. PICK t \in CommandTables, p \in Permissions : t = f[i - 1] /\ p = entries[i]
      BY <1>1, <1>3
    <2>2. x[i - 1] = Permits(t, c) /\ x[i] = Permits(f[i], c)
      BY <1>2, <1>3, <2>1
    <2>3. Permits(CommandsUnion(t, p), c) =
              IF p \in ForCommand(c) THEN CoveredUnion(Permits(t, c), p.ttl) ELSE Permits(t, c)
      BY CommandStep
    <2>4. f[i] = IF p \in covering THEN CommandsUnion(t, p) ELSE t
      BY <1>1, <2>1
    <2> QED BY <1>2, <2>1, <2>2, <2>3, <2>4
  <1>6. Allows(x[Len(entries)], Bounds(entries, uses))
    BY <1>4, <1>5, UnionChain
  <1> QED BY <1>2, <1>3, <1>6

(* The decision on each of the commands is what the entries mean.           *)
LEMMA CommandIsExact ==
    ASSUME GrantsTypeOK, NEW covering, NEW c \in Commands
    PROVE  Permits(CommandsSubtract(CommandsUnderCeilings(covering), denied, covering), c)
               = Meaning(ForCommand(c) \cap covering)
  <1>1. BoundaryCount \in Nat /\ denied \in Seq(Permissions) /\ granted \in Seq(Permissions)
    BY GrantsAssumption DEF GrantsTypeOK
  <1>2. PICK f \in [0..BoundaryCount -> CommandTables] :
            /\ f[0] = CommandsAllowedBy(granted, covering)
            /\ f[BoundaryCount] = CommandsUnderCeilings(covering)
            /\ \A b \in 1..BoundaryCount :
                 f[b] = IF ceilings[b] = None THEN f[b - 1]
                        ELSE CommandsIntersect(f[b - 1], CommandsAllowedBy(ceilings[b], covering))
    BY CommandsCeiled
  <1>3. CommandsUnderCeilings(covering) \in CommandTables
    BY <1>1, <1>2
  <1>4. PICK g \in [0..Len(denied) -> CommandTables] :
            /\ g[0] = CommandsUnderCeilings(covering)
            /\ g[Len(denied)] = CommandsSubtract(CommandsUnderCeilings(covering), denied, covering)
            /\ \A i \in 1..Len(denied) :
                 g[i] = IF denied[i] \in covering THEN CommandsDeny(g[i - 1], denied[i]) ELSE g[i - 1]
    <2>1. PICK list \in Seq(Permissions), table \in CommandTables :
              list = denied /\ table = CommandsUnderCeilings(covering)
      BY <1>1, <1>3
    <2>2. PICK rest : rest = CommandsSubtract(table, list, covering)
      OBVIOUS
    <2>3. \E g \in [0..Len(list) -> CommandTables] :
              /\ g[0] = table /\ g[Len(list)] = rest
              /\ \A i \in 1..Len(list) :
                   g[i] = IF list[i] \in covering THEN CommandsDeny(g[i - 1], list[i]) ELSE g[i - 1]
      BY <2>2, CommandsDenied
    <2> QED BY <2>1, <2>2, <2>3
  <1>5. PICK uses, x, y, z :
            /\ uses = ForCommand(c) \cap covering
            /\ x = [b \in 0..BoundaryCount |-> Permits(f[b], c)]
            /\ y = [b \in Boundaries |-> Permits(CommandsAllowedBy(ceilings[b], covering), c)]
            /\ z = [i \in 0..Len(denied) |-> Permits(g[i], c)]
    OBVIOUS
  <1>6. Allows(x[0], Bounds(granted, uses))
    <2>1. x[0] = Permits(CommandsAllowedBy(granted, covering), c)
      BY <1>1, <1>2, <1>5
    <2> QED BY <1>1, <1>5, <2>1, CommandIsAllowed
  <1>7. \A b \in Boundaries : ceilings[b] # None => Allows(y[b], Bounds(ceilings[b], uses))
    <2>1. ASSUME NEW b \in Boundaries, ceilings[b] # None PROVE Allows(y[b], Bounds(ceilings[b], uses))
      <3>1. PICK entries \in Seq(Permissions) : entries = ceilings[b]
        BY <2>1 DEF GrantsTypeOK
      <3>2. Allows(Permits(CommandsAllowedBy(entries, covering), c), Bounds(entries, uses))
        BY <1>5, CommandIsAllowed
      <3> QED BY <1>5, <3>1, <3>2
    <2> QED BY <2>1
  <1>8. \A b \in Boundaries : x[b] = IF ceilings[b] = None THEN x[b - 1]
                                      ELSE CoveredIntersection(x[b - 1], y[b])
    <2>1. ASSUME NEW b \in Boundaries, ceilings[b] # None PROVE x[b] = CoveredIntersection(x[b - 1], y[b])
      <3>1. b \in 1..BoundaryCount /\ b - 1 \in 0..BoundaryCount
        BY <1>1 DEF Boundaries
      <3>2. PICK t \in CommandTables, u \in CommandTables :
                t = f[b - 1] /\ u = CommandsAllowedBy(ceilings[b], covering)
        BY <1>2, <2>1, <3>1, CommandsAllowedTable DEF GrantsTypeOK
      <3>3. f[b] = CommandsIntersect(t, u)
        BY <1>2, <2>1, <3>1, <3>2
      <3>4. Permits(CommandsIntersect(t, u), c) = CoveredIntersection(Permits(t, c), Permits(u, c))
        BY CommandMeet
      <3>5. x[b] = Permits(f[b], c) /\ x[b - 1] = Permits(t, c) /\ y[b] = Permits(u, c)
        BY <1>5, <3>1, <3>2
      <3> QED BY <3>3, <3>4, <3>5
    <2>2. ASSUME NEW b \in Boundaries, ceilings[b] = None PROVE x[b] = x[b - 1]
      <3>1. b \in 1..BoundaryCount /\ b - 1 \in 0..BoundaryCount
        BY <1>1 DEF Boundaries
      <3> QED BY <1>2, <1>5, <2>2, <3>1
    <2> QED BY <2>1, <2>2
  <1>9. z[0] = x[BoundaryCount]
    BY <1>1, <1>2, <1>4, <1>5
  <1>10. ASSUME NEW i \in 1..Len(denied)
         PROVE  z[i] = IF denied[i] \in uses THEN CoveredDeny(z[i - 1], denied[i].ttl) ELSE z[i - 1]
    <2>1. PICK t \in CommandTables, p \in Permissions : t = g[i - 1] /\ p = denied[i]
      <3>1. i - 1 \in 0..Len(denied) /\ denied[i] \in Permissions
        BY <1>1
      <3> QED BY <1>4, <3>1
    <2>2. z[i - 1] = Permits(t, c) /\ z[i] = Permits(g[i], c)
      BY <1>1, <1>5, <2>1
    <2>3. Permits(CommandsDeny(t, p), c) =
              IF p \in ForCommand(c) THEN CoveredDeny(Permits(t, c), p.ttl) ELSE Permits(t, c)
      BY CommandStep
    <2>4. g[i] = IF p \in covering THEN CommandsDeny(t, p) ELSE t
      BY <1>4, <2>1
    <2> QED BY <1>5, <2>1, <2>2, <2>3, <2>4
  <1>11. z[Len(denied)] = Meaning(uses)
    BY <1>6, <1>7, <1>8, <1>9, <1>10, StepsLeaveTheMeaning
  <1>12. z[Len(denied)] = Permits(CommandsSubtract(CommandsUnderCeilings(covering), denied, covering), c)
    BY <1>1, <1>4, <1>5
  <1> QED BY <1>5, <1>11, <1>12

(* What allowed_by says of one of the capabilities.                         *)
LEMMA CapIsAllowed ==
    ASSUME NEW entries \in Seq(Permissions), NEW covering, NEW c \in Capabilities
    PROVE  Allows(CapTtl(CapsAllowedBy(entries, covering), c),
                  Bounds(entries, ForCapability(c) \cap covering))
  <1>1. PICK f \in [0..Len(entries) -> CapTables] :
            /\ f[0] = NoCaps /\ f[Len(entries)] = CapsAllowedBy(entries, covering)
            /\ \A i \in 1..Len(entries) :
                 f[i] = IF entries[i] \in covering THEN CapsUnion(f[i - 1], entries[i]) ELSE f[i - 1]
    <2>1. PICK t : t = CapsAllowedBy(entries, covering)
      OBVIOUS
    <2>2. \E f \in [0..Len(entries) -> CapTables] :
              /\ f[0] = NoCaps /\ f[Len(entries)] = t
              /\ \A i \in 1..Len(entries) :
                   f[i] = IF entries[i] \in covering THEN CapsUnion(f[i - 1], entries[i]) ELSE f[i - 1]
      BY <2>1, CapsAllowed
    <2> QED BY <2>1, <2>2
  <1>2. PICK x, uses :
            x = [i \in 0..Len(entries) |-> CapTtl(f[i], c)] /\ uses = ForCapability(c) \cap covering
    OBVIOUS
  <1>3. Len(entries) \in Nat /\ x[Len(entries)] = CapTtl(CapsAllowedBy(entries, covering), c)
    BY <1>1, <1>2
  <1>4. x[0] = Denied
    <2>1. CapTtl(NoCaps, c) = Denied
      BY DEF CapTtl, NoCaps
    <2> QED BY <1>1, <1>2, <1>3, <2>1
  <1>5. ASSUME NEW i \in 1..Len(entries)
        PROVE  x[i] = IF entries[i] \in uses THEN CoveredUnion(x[i - 1], entries[i].ttl) ELSE x[i - 1]
    <2>1. PICK t \in CapTables, p \in Permissions : t = f[i - 1] /\ p = entries[i]
      BY <1>1, <1>3
    <2>2. x[i - 1] = CapTtl(t, c) /\ x[i] = CapTtl(f[i], c)
      BY <1>2, <1>3, <2>1
    <2>3. CapTtl(CapsUnion(t, p), c) =
              IF p \in ForCapability(c) THEN CoveredUnion(CapTtl(t, c), p.ttl) ELSE CapTtl(t, c)
      BY CapStep
    <2>4. f[i] = IF p \in covering THEN CapsUnion(t, p) ELSE t
      BY <1>1, <2>1
    <2> QED BY <1>2, <2>1, <2>2, <2>3, <2>4
  <1>6. Allows(x[Len(entries)], Bounds(entries, uses))
    BY <1>4, <1>5, UnionChain
  <1> QED BY <1>2, <1>3, <1>6

(* The decision on each of the capabilities is what the entries mean.       *)
LEMMA CapIsExact ==
    ASSUME GrantsTypeOK, NEW covering, NEW c \in Capabilities
    PROVE  CapTtl(CapsSubtract(CapsUnderCeilings(covering), denied, covering), c)
               = Meaning(ForCapability(c) \cap covering)
  <1>1. BoundaryCount \in Nat /\ denied \in Seq(Permissions) /\ granted \in Seq(Permissions)
    BY GrantsAssumption DEF GrantsTypeOK
  <1>2. PICK f \in [0..BoundaryCount -> CapTables] :
            /\ f[0] = CapsAllowedBy(granted, covering)
            /\ f[BoundaryCount] = CapsUnderCeilings(covering)
            /\ \A b \in 1..BoundaryCount :
                 f[b] = IF ceilings[b] = None THEN f[b - 1]
                        ELSE CapsIntersect(f[b - 1], CapsAllowedBy(ceilings[b], covering))
    BY CapsCeiled
  <1>3. CapsUnderCeilings(covering) \in CapTables
    BY <1>1, <1>2
  <1>4. PICK g \in [0..Len(denied) -> CapTables] :
            /\ g[0] = CapsUnderCeilings(covering)
            /\ g[Len(denied)] = CapsSubtract(CapsUnderCeilings(covering), denied, covering)
            /\ \A i \in 1..Len(denied) :
                 g[i] = IF denied[i] \in covering THEN CapsDeny(g[i - 1], denied[i]) ELSE g[i - 1]
    <2>1. PICK list \in Seq(Permissions), table \in CapTables :
              list = denied /\ table = CapsUnderCeilings(covering)
      BY <1>1, <1>3
    <2>2. PICK rest : rest = CapsSubtract(table, list, covering)
      OBVIOUS
    <2>3. \E g \in [0..Len(list) -> CapTables] :
              /\ g[0] = table /\ g[Len(list)] = rest
              /\ \A i \in 1..Len(list) :
                   g[i] = IF list[i] \in covering THEN CapsDeny(g[i - 1], list[i]) ELSE g[i - 1]
      BY <2>2, CapsDenied
    <2> QED BY <2>1, <2>2, <2>3
  <1>5. PICK uses, x, y, z :
            /\ uses = ForCapability(c) \cap covering
            /\ x = [b \in 0..BoundaryCount |-> CapTtl(f[b], c)]
            /\ y = [b \in Boundaries |-> CapTtl(CapsAllowedBy(ceilings[b], covering), c)]
            /\ z = [i \in 0..Len(denied) |-> CapTtl(g[i], c)]
    OBVIOUS
  <1>6. Allows(x[0], Bounds(granted, uses))
    <2>1. x[0] = CapTtl(CapsAllowedBy(granted, covering), c)
      BY <1>1, <1>2, <1>5
    <2> QED BY <1>1, <1>5, <2>1, CapIsAllowed
  <1>7. \A b \in Boundaries : ceilings[b] # None => Allows(y[b], Bounds(ceilings[b], uses))
    <2>1. ASSUME NEW b \in Boundaries, ceilings[b] # None PROVE Allows(y[b], Bounds(ceilings[b], uses))
      <3>1. PICK entries \in Seq(Permissions) : entries = ceilings[b]
        BY <2>1 DEF GrantsTypeOK
      <3>2. Allows(CapTtl(CapsAllowedBy(entries, covering), c), Bounds(entries, uses))
        BY <1>5, CapIsAllowed
      <3> QED BY <1>5, <3>1, <3>2
    <2> QED BY <2>1
  <1>8. \A b \in Boundaries : x[b] = IF ceilings[b] = None THEN x[b - 1]
                                      ELSE CoveredIntersection(x[b - 1], y[b])
    <2>1. ASSUME NEW b \in Boundaries, ceilings[b] # None PROVE x[b] = CoveredIntersection(x[b - 1], y[b])
      <3>1. b \in 1..BoundaryCount /\ b - 1 \in 0..BoundaryCount
        BY <1>1 DEF Boundaries
      <3>2. PICK t \in CapTables, u \in CapTables :
                t = f[b - 1] /\ u = CapsAllowedBy(ceilings[b], covering)
        BY <1>2, <2>1, <3>1, CapsAllowedTable DEF GrantsTypeOK
      <3>3. f[b] = CapsIntersect(t, u)
        BY <1>2, <2>1, <3>1, <3>2
      <3>4. CapTtl(CapsIntersect(t, u), c) = CoveredIntersection(CapTtl(t, c), CapTtl(u, c))
        BY CapMeet
      <3>5. x[b] = CapTtl(f[b], c) /\ x[b - 1] = CapTtl(t, c) /\ y[b] = CapTtl(u, c)
        BY <1>5, <3>1, <3>2
      <3> QED BY <3>3, <3>4, <3>5
    <2>2. ASSUME NEW b \in Boundaries, ceilings[b] = None PROVE x[b] = x[b - 1]
      <3>1. b \in 1..BoundaryCount /\ b - 1 \in 0..BoundaryCount
        BY <1>1 DEF Boundaries
      <3> QED BY <1>2, <1>5, <2>2, <3>1
    <2> QED BY <2>1, <2>2
  <1>9. z[0] = x[BoundaryCount]
    BY <1>1, <1>2, <1>4, <1>5
  <1>10. ASSUME NEW i \in 1..Len(denied)
         PROVE  z[i] = IF denied[i] \in uses THEN CoveredDeny(z[i - 1], denied[i].ttl) ELSE z[i - 1]
    <2>1. PICK t \in CapTables, p \in Permissions : t = g[i - 1] /\ p = denied[i]
      <3>1. i - 1 \in 0..Len(denied) /\ denied[i] \in Permissions
        BY <1>1
      <3> QED BY <1>4, <3>1
    <2>2. z[i - 1] = CapTtl(t, c) /\ z[i] = CapTtl(g[i], c)
      BY <1>1, <1>5, <2>1
    <2>3. CapTtl(CapsDeny(t, p), c) =
              IF p \in ForCapability(c) THEN CoveredDeny(CapTtl(t, c), p.ttl) ELSE CapTtl(t, c)
      BY CapStep
    <2>4. g[i] = IF p \in covering THEN CapsDeny(t, p) ELSE t
      BY <1>4, <2>1
    <2> QED BY <1>5, <2>1, <2>2, <2>3, <2>4
  <1>11. z[Len(denied)] = Meaning(uses)
    BY <1>6, <1>7, <1>8, <1>9, <1>10, StepsLeaveTheMeaning
  <1>12. z[Len(denied)] = CapTtl(CapsSubtract(CapsUnderCeilings(covering), denied, covering), c)
    BY <1>1, <1>4, <1>5
  <1> QED BY <1>5, <1>11, <1>12

-----------------------------------------------------------------------------
(* Only the entries of the lists count for what they mean.                  *)
LEMMA MeaningOfLists ==
    ASSUME NEW A, NEW B, \A p \in Listed : p \in A <=> p \in B
    PROVE  Meaning(A) = Meaning(B)
  <1>1. ASSUME NEW list, Entries(list) \subseteq Listed PROVE Bounds(list, A) = Bounds(list, B)
    <2>1. Entries(list) \cap A = Entries(list) \cap B
      BY <1>1
    <2> QED BY <2>1 DEF Bounds
  <1>2. Bounds(granted, A) = Bounds(granted, B) /\ Bounds(denied, A) = Bounds(denied, B)
    BY <1>1 DEF Listed
  <1>3. ASSUME NEW b \in Boundaries, ceilings[b] # None
        PROVE  Bounds(ceilings[b], A) = Bounds(ceilings[b], B)
    <2>1. Entries(ceilings[b]) \subseteq Listed
      BY <1>3 DEF Listed, CeilingEntries
    <2> QED BY <1>1, <2>1
  <1>4. {Bounds(ceilings[b], A) : b \in {x \in Boundaries : ceilings[x] # None}}
            = {Bounds(ceilings[b], B) : b \in {x \in Boundaries : ceilings[x] # None}}
    BY <1>3
  <1> QED BY <1>2, <1>4 DEF Meaning

(* CapabilityTtl has no entry that says "denied".                           *)
LEMMA CapsAreTtls ==
    ASSUME GrantsTypeOK, NEW covering
    PROVE  DecideFor(covering).caps \in CapTables
  <1>1. CapsUnderCeilings(covering) \in CapTables
    BY GrantsAssumption, CapsCeiled
  <1>2. denied \in Seq(Permissions) /\ Len(denied) \in 0..Len(denied)
    BY DEF GrantsTypeOK
  <1>3. CapsSubtract(CapsUnderCeilings(covering), denied, covering) \in CapTables
    BY <1>1, <1>2, CapsDenied
  <1> QED BY <1>3 DEF DecideFor

(* The lists hold nothing else.                                             *)
LEMMA EntriesArePermissions ==
    ASSUME GrantsTypeOK
    PROVE  Listed \subseteq Permissions
  <1>1. Entries(granted) \subseteq Permissions /\ Entries(denied) \subseteq Permissions
    BY DEF GrantsTypeOK, Entries
  <1>2. ASSUME NEW b \in Boundaries PROVE Entries(CeilingEntries(b)) \subseteq Permissions
    <2>1. CASE ceilings[b] = None
      BY <2>1 DEF CeilingEntries, Entries
    <2>2. CASE ceilings[b] # None
      BY <2>2 DEF CeilingEntries, Entries, GrantsTypeOK
    <2> QED BY <2>1, <2>2
  <1> QED BY <1>1, <1>2 DEF Listed

(* A decision for a user name looks at the entries that cover it, and no    *)
(* others.                                                                  *)
LEMMA DecisionMeans ==
    ASSUME GrantsTypeOK, NEW u, NEW covering, \A p \in Listed : p \in covering <=> Covers(p, u)
    PROVE  MeansWhatIsGranted(DecideFor(covering), u)
  <1>1. ASSUME NEW c \in Commands PROVE Permits(DecideFor(covering).commands, c) = MayRun(u, c)
    <2>1. PICK A, B :
              A = ForCommand(c) \cap covering /\
              B = {p \in Listed : Covers(p, u) /\ (p.commands = None \/ c \in p.commands)}
      OBVIOUS
    <2>2. \A p \in Listed : p \in A <=> p \in B
      BY <2>1, EntriesArePermissions DEF ForCommand
    <2>3. Meaning(A) = Meaning(B)
      BY <2>2, MeaningOfLists
    <2>4. Permits(DecideFor(covering).commands, c) = Meaning(A)
      BY <2>1, CommandIsExact DEF DecideFor
    <2> QED BY <2>1, <2>3, <2>4 DEF MayRun
  <1>2. ASSUME NEW c \in Capabilities PROVE CapOf(DecideFor(covering), c) = MayUse(u, c)
    <2>1. PICK A, B :
              A = ForCapability(c) \cap covering /\
              B = {p \in Listed : Covers(p, u) /\ c \in CapabilitiesOf(p)}
      OBVIOUS
    <2>2. \A p \in Listed : p \in A <=> p \in B
      BY <2>1, EntriesArePermissions DEF ForCapability
    <2>3. Meaning(A) = Meaning(B)
      BY <2>2, MeaningOfLists
    <2>4. CapOf(DecideFor(covering), c) = Meaning(A)
      BY <2>1, CapIsExact DEF DecideFor, CapOf, CapTtl
    <2> QED BY <2>1, <2>3, <2>4 DEF MayUse
  <1> QED BY <1>1, <1>2 DEF MeansWhatIsGranted

(* What the theorem needs of the lists is that they are lists of entries:   *)
(* the group decision sees just the entries that cover a name that none of  *)
(* them names.                                                              *)
LEMMA ExactWhenTyped ==
    ASSUME GrantsTypeOK
    PROVE  DecisionsAreExact
  <1>1. ASSUME NEW u \in Users PROVE MeansWhatIsGranted(Decide(u), u)
    <2>1. PICK covering : covering = {p \in Listed : Covers(p, u)}
      OBVIOUS
    <2>2. \A p \in Listed : p \in covering <=> Covers(p, u)
      BY <2>1, EntriesArePermissions
    <2> QED BY <2>1, <2>2, DecisionMeans DEF Decide
  <1>2. ASSUME NEW u \in Users, ~Named(u) PROVE MeansWhatIsGranted(GroupDecision, u)
    <2>1. PICK covering : covering = {p \in Listed : CoversUnnamed(p)}
      OBVIOUS
    <2>2. \A p \in Listed : Covers(p, u) => p.users = None
      BY <1>2 DEF Named, Listed
    <2>3. \A p \in Listed : p \in covering <=> Covers(p, u)
      BY <2>1, <2>2, EntriesArePermissions DEF Covers, CoversUnnamed
    <2> QED BY <2>1, <2>3, DecisionMeans DEF GroupDecision
  <1> QED BY <1>1, <1>2 DEF DecisionsAreExact

(* The deadline is the least of the bounds in the decision.                 *)
LEMMA ShortWhenExact ==
    ASSUME GrantsTypeOK, DecisionsAreExact
    PROVE  SessionsAreShort
  <1>1. SUFFICES ASSUME NEW u \in Users, NEW c \in DOMAIN Decide(u).caps
                 PROVE  TtlMin(SessionTtl({Decide(u).caps[x] : x \in DOMAIN Decide(u).caps}), MayUse(u, c))
                            = SessionTtl({Decide(u).caps[x] : x \in DOMAIN Decide(u).caps})
    BY DEF SessionsAreShort
  <1>2. PICK D \in SUBSET Capabilities : Decide(u).caps \in [D -> Ttls]
    <2>1. PICK covering : covering = {p \in Listed : Covers(p, u)}
      OBVIOUS
    <2>2. DecideFor(covering).caps \in CapTables
      BY CapsAreTtls
    <2>3. Decide(u).caps \in CapTables
      BY <2>1, <2>2 DEF Decide
    <2> QED BY <2>3 DEF CapTables
  <1> DEFINE caps == Decide(u).caps
  <1>3. PICK ttls : ttls = {caps[x] : x \in D}
    OBVIOUS
  <1>4. c \in D /\ caps[c] \in ttls /\ ttls \in SUBSET Ttls
    BY <1>1, <1>2, <1>3
  <1>5. MayUse(u, c) = caps[c]
    BY <1>2, <1>4 DEF DecisionsAreExact, MeansWhatIsGranted, CapOf
  <1>6. \A t \in ttls : TtlMin(SessionTtl(ttls), t) = SessionTtl(ttls)
    <2>1. CASE \A t \in ttls : t = Unbounded
      <3>1. SessionTtl(ttls) = Unbounded
        BY <2>1 DEF SessionTtl
      <3> QED BY <2>1, <3>1 DEF TtlMin
    <2>2. CASE \E t \in ttls : t # Unbounded
      <3>1. PICK S : S = ttls \ {Unbounded}
        OBVIOUS
      <3>2. S \in SUBSET Nat /\ S # {}
        BY <1>4, <2>2, <3>1 DEF Ttls
      <3>3. \E m \in S : \A n \in S : m <= n
        BY <3>2, TheLeast
      <3>4. SessionTtl(ttls) = CHOOSE t \in S : \A n \in S : t <= n
        BY <2>2, <3>1 DEF SessionTtl
      <3>5. PICK m : m = SessionTtl(ttls)
        OBVIOUS
      <3>6. m \in S /\ \A n \in S : m <= n
        BY <3>3, <3>4, <3>5
      <3>7. m \in Nat /\ m # Unbounded
        BY <3>1, <3>2, <3>6
      <3>8. ASSUME NEW t \in ttls PROVE TtlMin(m, t) = m
        <4>1. CASE t = Unbounded
          BY <3>7, <4>1 DEF TtlMin
        <4>2. CASE t # Unbounded
          BY <3>1, <3>2, <3>6, <3>7, <4>2 DEF TtlMin
        <4> QED BY <4>1, <4>2
      <3> QED BY <3>5, <3>8
    <2> QED BY <2>1, <2>2
  <1> QED BY <1>2, <1>3, <1>4, <1>5, <1>6

(* The lists stay lists of entries, however they are edited.                *)
LEMMA GrantsTyped == GrantsSpec => []GrantsTypeOK
  <1>1. GrantsInit => GrantsTypeOK
    BY DEF GrantsInit, GrantsTypeOK
  <1>2. GrantsTypeOK /\ [GrantsNext]_grantVars => GrantsTypeOK'
    <2> SUFFICES ASSUME GrantsTypeOK, [GrantsNext]_grantVars PROVE GrantsTypeOK'
      OBVIOUS
    <2> USE DEF GrantsTypeOK
    <2>1. ASSUME NEW p \in Permissions, Grant(p) PROVE GrantsTypeOK'
      BY <2>1 DEF Grant
    <2>2. ASSUME NEW p \in Permissions, Deny(p) PROVE GrantsTypeOK'
      BY <2>2 DEF Deny
    <2>3. ASSUME NEW p \in Permissions, NEW b \in Boundaries, RaiseCeiling(b, p) PROVE GrantsTypeOK'
      BY <2>3 DEF RaiseCeiling
    <2>4. ASSUME NEW b \in Boundaries, SetCeiling(b) PROVE GrantsTypeOK'
      BY <2>4 DEF SetCeiling
    <2>5. CASE UNCHANGED grantVars
      BY <2>5 DEF grantVars
    <2> QED BY <2>1, <2>2, <2>3, <2>4, <2>5 DEF GrantsNext
  <1> QED BY <1>1, <1>2, PTL DEF GrantsSpec

(* For all lists of grants, ceilings and denials, any number of boundaries, *)
(* and all user names, commands and capabilities: SSHChecker._decide gives  *)
(* what the entries mean, whatever their order; the group decision is exact *)
(* for every user name that no entry names; and a session is never longer   *)
(* than the bound of any capability in its certificate.                     *)
THEOREM ChecksAreAsWritten == GrantsSpec => []ChecksAreExact
  <1>1. GrantsTypeOK => ChecksAreExact
    BY ExactWhenTyped, ShortWhenExact DEF ChecksAreExact
  <1> QED BY <1>1, GrantsTyped, PTL

-----------------------------------------------------------------------------
(* The editing of grants.  A name in a kind is one object, so a grant that  *)
(* went through names and back is the same grant, as long as it resolves;   *)
(* what a client has read or typed has the fields of its type, so a form    *)
(* that was not touched makes the grant that it was opened with.            *)

(* A list that is not set is no list of grants.                             *)
NullIsNoList == \A S \in (SUBSET ShownGrants) \cup (SUBSET StoredGrants) : S # Null

AllLists == {"grants", "members", "denied", "ceiling"}
ShownLists(l) == IF l = "members" THEN SUBSET AnyName ELSE {Null} \cup SUBSET ShownGrants
StoredLists(l) == IF l = "members" THEN SUBSET Identities ELSE {Null} \cup SUBSET StoredGrants

ObjectsAreNamed ==
    /\ name \in [Objects -> AnyName]
    /\ \A kind \in {Identities, Roles, Tags} : \A o, p \in kind :
          name[o] = name[p] /\ name[o] \in Names => o = p

ListsAreStored == DOMAIN lists = AllLists /\ \A l \in AllLists : lists[l] \in StoredLists(l)

ReadAndCopied(saved, copy) ==
    /\ DOMAIN saved \in {{"grants", "members"}, {"denied", "ceiling"}} /\ DOMAIN copy = DOMAIN saved
    /\ \A l \in DOMAIN saved :
          saved[l] \in ShownLists(l) /\ copy[l] \in ShownLists(l) /\ (copy[l] = Null => saved[l] = Null)

ViewHolds(v) ==
    v # NoView =>
        /\ v.tool \in {"tui", "pfa"}
        /\ v = [tool |-> v.tool, saved |-> v.saved, copy |-> v.copy, send |-> v.send]
        /\ ReadAndCopied(v.saved, v.copy)
        /\ v.send \subseteq DOMAIN v.copy /\ \A l \in v.send : v.copy[l] # Null

EditInv ==
    /\ ObjectsAreNamed /\ ListsAreStored
    /\ DOMAIN view = Admins /\ fresh \in [Admins -> BOOLEAN]
    /\ \A a \in Admins : ViewHolds(view[a])
    /\ ScreensTellTheTruth

(* The kinds are disjoint, so an object's kind is the one it is in.         *)
LEMMA KindsOfObjects ==
    ASSUME NEW kind \in {Identities, Roles, Tags}, NEW o \in kind
    PROVE  KindOfObject(o) = kind
  <1>1. \A other \in {Identities, Roles, Tags} : o \in other => other = kind
    BY EditingAssumption
  <1> QED BY <1>1 DEF KindOfObject

LEMMA KindsByType ==
    ASSUME NEW type, KindOf(type) # {}
    PROVE  KindOf(type) \in {Identities, Roles, Tags} /\ KindOf(type) \subseteq Objects
  BY DEF KindOf, Objects

(* A grant with another filter is a grant like it.                          *)
LEMMA FilterChanged ==
    ASSUME NEW g, g \in ShownGrants \/ g \in StoredGrants, NEW of
    PROVE  [g EXCEPT !.of = of] = GrantFor(g.type, of, g.update, g.list)
  BY DEF ShownGrants, StoredGrants, Grants, Invalid, GrantFor

LEMMA GrantIsItsFields ==
    ASSUME NEW g, g \in ShownGrants \/ g \in StoredGrants
    PROVE  g = GrantFor(g.type, g.of, g.update, g.list)
  BY DEF ShownGrants, StoredGrants, Grants, Invalid, GrantFor

LEMMA ShownIsShown ==
    ASSUME ObjectsAreNamed, NEW g \in StoredGrants
    PROVE  /\ Shown(g) \in ShownGrants
           /\ Shown(g) # Invalid => /\ Shown(g) = GrantFor(g.type, Shown(g).of, g.update, g.list)
                                    /\ Shown(g).of = IF g.of = Null THEN Null ELSE name[g.of]
  <1>1. g.type # "invalid"
    BY DEF StoredGrants, Grants
  <1>2. CASE g.of = Null
    <2>1. Shown(g) = g
      BY <1>2 DEF Shown
    <2>2. g \in ShownGrants
      BY <1>2 DEF StoredGrants, ShownGrants, Grants, HasItsFields
    <2> QED BY <1>2, <2>1, <2>2, GrantIsItsFields
  <1>3. CASE g.of # Null /\ name[g.of] \in Names
    <2>1. PICK s : s = GrantFor(g.type, name[g.of], g.update, g.list)
      OBVIOUS
    <2>2. Shown(g) = s
      BY <1>3, <2>1, FilterChanged DEF Shown
    <2>3. s \in ShownGrants /\ s.of = name[g.of]
      BY <1>3, <2>1 DEF StoredGrants, ShownGrants, Grants, HasItsFields, GrantFor
    <2> QED BY <1>3, <2>1, <2>2, <2>3
  <1>4. CASE g.of # Null /\ name[g.of] \notin Names
    BY <1>4 DEF Shown, ShownGrants
  <1> QED BY <1>2, <1>3, <1>4

(* What a client sends, if it resolves, is stored and shown as it was sent. *)
LEMMA SentIsShown ==
    ASSUME ObjectsAreNamed, NEW s \in ShownGrants, Resolves(s)
    PROVE  Stored(s) \in StoredGrants /\ Shown(Stored(s)) = s
  <1>1. s \in Grants(Names \cup {Stem}) /\ HasItsFields(s)
    BY DEF Resolves, ShownGrants
  <1>2. CASE s.of = Null
    <2>1. Stored(s) = s
      BY <1>2, FilterChanged, GrantIsItsFields DEF Stored
    <2>2. s \in StoredGrants
      BY <1>1, <1>2 DEF StoredGrants, Grants, HasItsFields
    <2> QED BY <1>2, <2>1, <2>2 DEF Shown
  <1>3. CASE s.of # Null
    <2>1. PICK o : o = CHOOSE p \in WithName(s.type, s.of) : TRUE
      OBVIOUS
    <2>2. o \in WithName(s.type, s.of)
      BY <1>3, <2>1 DEF Resolves
    <2>3. o \in KindOf(s.type) /\ o \in Objects /\ name[o] = s.of
      BY <2>2, KindsByType DEF WithName
    <2>4. s.of \in Names
      BY <1>1, <1>3, <2>3, EditingAssumption DEF ObjectsAreNamed, AnyName, Grants
    <2>5. PICK g : g = GrantFor(s.type, o, s.update, s.list)
      OBVIOUS
    <2>6. Stored(s) = g
      BY <1>3, <2>1, <2>5, FilterChanged DEF Stored
    <2>7. g \in StoredGrants /\ g.of = o /\ g.of # Null
      BY <1>1, <2>3, <2>5, EditingAssumption DEF StoredGrants, Grants, HasItsFields, GrantFor
    <2>8. Shown(g) = GrantFor(g.type, s.of, g.update, g.list)
      BY <2>3, <2>4, <2>7, FilterChanged DEF Shown
    <2>9. Shown(g) = s
      BY <2>5, <2>8, GrantIsItsFields DEF GrantFor
    <2> QED BY <2>6, <2>7, <2>9
  <1> QED BY <1>2, <1>3

(* A stored grant whose names resolve comes back as it is.                  *)
LEMMA ShownIsSent ==
    ASSUME ObjectsAreNamed, NEW g \in StoredGrants, Resolves(Shown(g))
    PROVE  Stored(Shown(g)) = g
  <1>1. PICK s : s = Shown(g)
    OBVIOUS
  <1>2. s \in ShownGrants /\ s = GrantFor(g.type, s.of, g.update, g.list)
    BY <1>1, ShownIsShown DEF Resolves
  <1>3. CASE g.of = Null
    <2>1. s = g
      BY <1>1, <1>3 DEF Shown
    <2> QED BY <1>1, <1>3, <2>1, FilterChanged, GrantIsItsFields DEF Stored
  <1>4. CASE g.of # Null
    <2>1. name[g.of] \in Names /\ s.of = name[g.of] /\ s.of # Null /\ s.type = g.type
      BY <1>1, <1>2, <1>4, ShownIsShown, EditingAssumption DEF Resolves, Shown, GrantFor
    <2>2. g.of \in KindOf(g.type)
      BY <1>4 DEF StoredGrants
    <2>3. KindOf(g.type) \in {Identities, Roles, Tags}
      BY <2>2, KindsByType
    <2>4. \A o \in KindOf(g.type) : name[o] = name[g.of] => o = g.of
      BY <2>1, <2>2, <2>3 DEF ObjectsAreNamed
    <2>5. WithName(s.type, s.of) = {g.of}
      BY <2>1, <2>2, <2>4 DEF WithName
    <2>6. Stored(s) = GrantFor(s.type, g.of, s.update, s.list)
      BY <1>2, <2>1, <2>5, FilterChanged DEF Stored
    <2> QED BY <1>1, <1>2, <2>6, GrantIsItsFields DEF GrantFor
  <1> QED BY <1>3, <1>4

-----------------------------------------------------------------------------
(* The editor of one grant.                                                 *)

EditedNames == Names \cup {Stem, Null}

FormsOf(type) ==
    [type: {type}, boxed: BOOLEAN, of: EditedNames,
     ticks: SUBSET {"name", "rest"}, listed: BOOLEAN, list: SUBSET Axis]

LEMMA GrantsMade ==
    ASSUME NEW type \in {"tag", "role", "identity", "ssh"}, NEW of \in EditedNames,
           NEW update \in {Null} \cup SUBSET {"name", "rest"}, NEW list \in {Null} \cup SUBSET Axis,
           type \in {"tag", "ssh"} => update = {}, type \in {"tag", "role"} => list = {}
    PROVE  GrantFor(type, of, update, list) \in ShownGrants
  BY DEF EditedNames, ShownGrants, Grants, HasItsFields, GrantFor

LEMMA FormsOpen ==
    ASSUME NEW s \in ShownGrants, NEW ticks \in SUBSET {"name", "rest"}
    PROVE  /\ Form(s, ticks) \in FormsOf(s.type)
           /\ Form(s, ticks) = [type |-> s.type, boxed |-> s.of # Null, of |-> s.of, ticks |-> ticks,
                                listed |-> s.list # Null, list |-> IF s.list = Null THEN {} ELSE s.list]
  BY DEF Form, FormsOf, EditedNames, ShownGrants, Grants, Invalid, GrantFor

LEMMA AllOfGrant ==
    ASSUME NEW type, NEW of, NEW update, NEW list
    PROVE  AllOf(GrantFor(type, of, update, list)) =
             GrantFor(type, of, IF update = Null THEN UpdateFields(type) ELSE update,
                      IF list = Null THEN Axis ELSE list)
  <1>1. PICK g : g = GrantFor(type, of, update, list)
    OBVIOUS
  <1>2. g.type = type /\ g.update = update /\ g.list = list
    BY <1>1 DEF GrantFor
  <1>3. PICK u, l : u = (IF update = Null THEN UpdateFields(type) ELSE update)
                    /\ l = (IF list = Null THEN Axis ELSE list)
    OBVIOUS
  <1>4. AllOf(g) = [g EXCEPT !.update = u, !.list = l]
    BY <1>2, <1>3 DEF AllOf
  <1>5. [g EXCEPT !.update = u, !.list = l] = GrantFor(type, of, u, l)
    <2>1. PICK h : h = [g EXCEPT !.update = u]
      OBVIOUS
    <2>2. h = GrantFor(type, of, u, list)
      BY <1>1, <2>1 DEF GrantFor
    <2>3. [h EXCEPT !.list = l] = GrantFor(type, of, u, l)
      BY <2>2 DEF GrantFor
    <2>4. [g EXCEPT !.update = u, !.list = l] = [h EXCEPT !.list = l]
      BY <2>1
    <2> QED BY <2>3, <2>4
  <1> QED BY <1>1, <1>3, <1>4, <1>5

LEMMA TicksOfAll ==
    ASSUME NEW s \in ShownGrants, s.type = "role"
    PROVE  /\ AllOf(s).update \in SUBSET {"name", "rest"}
           /\ AllOf(s).update = IF s.update = Null THEN {"name", "rest"} ELSE s.update
  BY DEF AllOf, UpdateFields, ShownGrants, Grants, Invalid, GrantFor

LEMMA WidgetsOpen ==
    ASSUME NEW s \in ShownGrants, Editable(s.type)
    PROVE  Widget(s) \in FormsOf(s.type)
  <1>1. CASE s.type \in {"tag", "ssh"}
    BY <1>1, FormsOpen DEF Widget, TagForm, SSHForm
  <1>2. CASE s.type = "role"
    BY <1>2, FormsOpen, TicksOfAll DEF Widget, RoleForm
  <1>3. CASE s.type = "identity"
    <2>1. PICK ticks : ticks = IF s.update = Null THEN {} ELSE s.update \cap {"name"}
      OBVIOUS
    <2>2. ticks \in SUBSET {"name", "rest"}
      BY <2>1
    <2>3. Widget(s) = Form(s, ticks)
      BY <1>3, <2>1 DEF Widget, IdentityForm
    <2> QED BY <2>2, <2>3, FormsOpen
  <1> QED BY <1>1, <1>2, <1>3 DEF Editable

LEMMA FormsTouched ==
    ASSUME NEW type, NEW w \in FormsOf(type), NEW x \in Touched(w)
    PROVE  x \in FormsOf(type)
  <1>1. CASE x = w
    BY <1>1
  <1>2. CASE \E n \in Filters : x = [w EXCEPT !.boxed = TRUE, !.of = n]
    BY <1>2 DEF FormsOf, Filters, EditedNames
  <1>3. CASE x = [w EXCEPT !.boxed = FALSE, !.of = Null]
    BY <1>3 DEF FormsOf, EditedNames
  <1>4. CASE \E f \in UpdateFields(w.type) : x = [w EXCEPT !.ticks = (@ \ {f}) \cup ({f} \ @)]
    <2>1. PICK f \in UpdateFields(w.type) : x = [w EXCEPT !.ticks = (w.ticks \ {f}) \cup ({f} \ w.ticks)]
      BY <1>4
    <2>2. (w.ticks \ {f}) \cup ({f} \ w.ticks) \in SUBSET {"name", "rest"}
      BY <2>1 DEF FormsOf, UpdateFields
    <2> QED BY <2>1, <2>2 DEF FormsOf
  <1>5. CASE \E l \in SUBSET Axis : x = [w EXCEPT !.listed = TRUE, !.list = l]
    BY <1>5 DEF FormsOf
  <1>6. CASE x = [w EXCEPT !.listed = FALSE, !.list = {}]
    BY <1>6 DEF FormsOf
  <1> QED BY <1>1, <1>2, <1>3, <1>4, <1>5, <1>6 DEF Touched

LEMMA FormsMakeGrants ==
    ASSUME NEW type, Editable(type), NEW w \in FormsOf(type)
    PROVE  Confirmed(w) \in ShownGrants
  <1>1. /\ w.type = type /\ w.of \in EditedNames /\ w.ticks \in SUBSET {"name", "rest"}
        /\ w.list \in SUBSET Axis
    BY DEF FormsOf
  <1>2. NameFilter(w) \in EditedNames /\ TagFilter(w) \in EditedNames
    BY <1>1 DEF NameFilter, TagFilter, Word, EditedNames
  <1>3. CASE type = "tag"
    BY <1>1, <1>2, <1>3, GrantsMade DEF Confirmed, TagOf
  <1>4. CASE type = "ssh"
    <2>1. AxisPerm(w) \in {Null} \cup SUBSET Axis
      BY <1>1 DEF AxisPerm
    <2> QED BY <1>1, <1>2, <1>4, <2>1, GrantsMade DEF Confirmed, SSHOf
  <1>5. CASE type = "role"
    BY <1>1, <1>2, <1>5, GrantsMade DEF Confirmed, RoleOf
  <1>6. CASE type = "identity"
    <2>1. TagPerm(w) \in SUBSET Axis
      BY <1>1 DEF TagPerm
    <2> QED BY <1>1, <1>2, <1>6, <2>1, GrantsMade DEF Confirmed, IdentityOf
  <1> QED BY <1>3, <1>4, <1>5, <1>6 DEF Editable

LEMMA EditsMakeGrants ==
    ASSUME NEW s \in ShownGrants, Editable(s.type), NEW w \in Touched(Widget(s))
    PROVE  Confirmed(w) \in ShownGrants
  BY WidgetsOpen, FormsTouched, FormsMakeGrants

LEMMA NewGrantsAreShown ==
    ASSUME NEW t \in NewTypes
    PROVE  NewGrant(t) \in ShownGrants /\ Editable(NewGrant(t).type)
  <1>1. t \in {"ssh", "identity", "role", "tag"}
    BY EditingAssumption
  <1>2. CASE t = "ssh"
    <2>1. NewGrant(t) = GrantFor("ssh", Null, {}, Axis)
      BY <1>2 DEF NewGrant
    <2> QED BY <2>1, GrantsMade DEF EditedNames, Editable, GrantFor
  <1>3. CASE t = "identity"
    <2>1. NewGrant(t) = GrantFor("identity", Null, {}, Null)
      BY <1>3 DEF NewGrant
    <2> QED BY <2>1, GrantsMade DEF EditedNames, Editable, GrantFor
  <1>4. CASE t \in {"role", "tag"}
    <2>1. NewGrant(t) = GrantFor(t, Null, {}, {})
      BY <1>4 DEF NewGrant
    <2> QED BY <1>4, <2>1, GrantsMade DEF EditedNames, Editable, GrantFor
  <1> QED BY <1>1, <1>2, <1>3, <1>4

LEMMA TypedAreShown ==
    ASSUME NEW s \in Typed \cap Made
    PROVE  s \in ShownGrants
  <1>1. CASE s \in TagGrants
    BY <1>1, GrantsMade DEF TagGrants, Filters, EditedNames
  <1>2. CASE s \in RoleGrants
    BY <1>2, GrantsMade DEF RoleGrants, UpdateFields, Filters, EditedNames
  <1>3. CASE s \in IdentityGrants
    BY <1>3, GrantsMade DEF IdentityGrants, UpdateFields, Filters, EditedNames
  <1>4. CASE s \in ShellGrants
    BY <1>4, GrantsMade DEF ShellGrants, Filters, EditedNames
  <1>5. CASE s \in OtherGrants
    BY <1>5 DEF OtherGrants, ShownGrants, Grants, HasItsFields, GrantFor
  <1> QED BY <1>1, <1>2, <1>3, <1>4, <1>5 DEF Made

(* A form that was not touched.                                             *)
LEMMA ShownIsKept ==
    ASSUME NEW s \in ShownGrants, s.type \in {"ssh", "role"} \/ (s.type = "tag" /\ s.of \notin Spaced)
    PROVE  IsKept(s)
  <1>1. SUFFICES ASSUME ~IsRefused(Widget(s))
                 PROVE  AllOf(Confirmed(Widget(s))) = AllOf(s)
    BY DEF IsKept
  <1>2. /\ HasItsFields(s) /\ s.list \in {Null} \cup SUBSET Axis
        /\ s.update \in {Null} \cup SUBSET {"name", "rest"}
    BY DEF ShownGrants, Grants, Invalid, GrantFor
  <1>3. Null \notin SUBSET Axis /\ Null \notin SUBSET {"name", "rest"}
    BY EditingAssumption
  <1>4. CASE s.type = "ssh"
    <2>1. PICK w : w = Widget(s)
      OBVIOUS
    <2>2. w = [type |-> "ssh", boxed |-> s.of # Null, of |-> s.of, ticks |-> {},
               listed |-> s.list # Null, list |-> IF s.list = Null THEN {} ELSE s.list]
      BY <1>4, <2>1, FormsOpen DEF Widget, SSHForm
    <2>3. NameFilter(w) = s.of /\ AxisPerm(w) = s.list
      BY <2>2 DEF NameFilter, AxisPerm
    <2>4. Confirmed(w) = GrantFor("ssh", s.of, {}, s.list)
      BY <2>2, <2>3 DEF Confirmed, SSHOf
    <2>5. Confirmed(w) = s
      BY <1>2, <1>4, <2>4, GrantIsItsFields DEF HasItsFields
    <2> QED BY <2>1, <2>5
  <1>5. CASE s.type = "tag"
    <2>1. PICK w : w = Widget(s)
      OBVIOUS
    <2>2. w = [type |-> "tag", boxed |-> s.of # Null, of |-> s.of, ticks |-> {},
               listed |-> s.list # Null, list |-> IF s.list = Null THEN {} ELSE s.list]
      BY <1>5, <2>1, FormsOpen DEF Widget, TagForm
    <2>3. TagFilter(w) = s.of
      BY <1>5, <2>2 DEF TagFilter, Word
    <2>4. Confirmed(w) = GrantFor("tag", s.of, {}, {})
      BY <2>2, <2>3 DEF Confirmed, TagOf
    <2>5. Confirmed(w) = s
      BY <1>2, <1>5, <2>4, GrantIsItsFields DEF HasItsFields
    <2> QED BY <2>1, <2>5
  <1>6. CASE s.type = "role"
    <2>1. PICK w : w = Widget(s)
      OBVIOUS
    <2>2. PICK ticks : ticks = AllOf(s).update
      OBVIOUS
    <2>3. /\ ticks \in SUBSET {"name", "rest"}
          /\ ticks = IF s.update = Null THEN {"name", "rest"} ELSE s.update
      BY <1>6, <2>2, TicksOfAll
    <2>4. w = [type |-> "role", boxed |-> s.of # Null, of |-> s.of, ticks |-> ticks,
               listed |-> s.list # Null, list |-> IF s.list = Null THEN {} ELSE s.list]
      BY <1>6, <2>1, <2>2, <2>3, FormsOpen DEF Widget, RoleForm
    <2>5. NameFilter(w) = s.of
      BY <2>4 DEF NameFilter
    <2>6. Confirmed(w) = GrantFor("role", s.of, ticks, {})
      BY <2>4, <2>5 DEF Confirmed, RoleOf
    <2>7. UpdateFields("role") = {"name", "rest"} /\ {} # Null /\ ticks # Null
      BY <1>3, <2>3 DEF UpdateFields
    <2>8. AllOf(Confirmed(w)) = GrantFor("role", s.of, ticks, {})
      BY <2>6, <2>7, AllOfGrant
    <2>9. s = GrantFor("role", s.of, s.update, {})
      BY <1>2, <1>6, GrantIsItsFields DEF HasItsFields
    <2>10. AllOf(s) = GrantFor("role", s.of, ticks, {})
      BY <2>3, <2>7, <2>9, AllOfGrant
    <2> QED BY <2>1, <2>8, <2>10
  <1> QED BY <1>4, <1>5, <1>6

-----------------------------------------------------------------------------
(* Lists, to the client and back.                                           *)

LEMMA ListsRead ==
    ASSUME ObjectsAreNamed, NEW l \in AllLists, NEW value \in StoredLists(l)
    PROVE  ShownList(l, value) \in ShownLists(l)
  <1>1. CASE l = "members"
    <2>1. value \in SUBSET Identities /\ value # Null
      BY <1>1, EditingAssumption DEF StoredLists
    <2>2. \A i \in value : name[i] \in AnyName
      BY <2>1 DEF ObjectsAreNamed, Objects
    <2> QED BY <1>1, <2>1, <2>2 DEF ShownList, ShownLists
  <1>2. CASE l # "members" /\ value = Null
    BY <1>2 DEF ShownList, ShownLists
  <1>3. CASE l # "members" /\ value # Null
    <2>1. value \in SUBSET StoredGrants
      BY <1>3 DEF StoredLists
    <2>2. \A g \in value : Shown(g) \in ShownGrants
      BY <2>1, ShownIsShown
    <2> QED BY <1>3, <2>2 DEF ShownList, ShownLists
  <1> QED BY <1>1, <1>2, <1>3

LEMMA ListsSent ==
    ASSUME ObjectsAreNamed, NullIsNoList, NEW l \in AllLists, NEW value \in ShownLists(l),
           value # Null, Resolved(l, value)
    PROVE  StoredList(l, value) \in StoredLists(l) /\ ShownList(l, StoredList(l, value)) = value
  <1>1. CASE l = "members"
    <2>1. PICK stored : stored = UNION {WithName("identity", n) : n \in value}
      OBVIOUS
    <2>2. StoredList(l, value) = stored
      BY <1>1, <2>1 DEF StoredList
    <2>3. \A i : i \in stored <=> i \in Identities /\ name[i] \in value
      BY <2>1 DEF WithName, KindOf
    <2>4. stored \in SUBSET Identities /\ stored # Null
      BY <2>3, EditingAssumption
    <2>5. \A n \in value : \E i \in Identities : name[i] = n
      BY <1>1 DEF Resolved, WithName, KindOf
    <2>6. value \subseteq {name[i] : i \in stored} /\ {name[i] : i \in stored} \subseteq value
      BY <2>3, <2>5
    <2>7. ShownList(l, stored) = {name[i] : i \in stored}
      BY <1>1, <2>4 DEF ShownList
    <2> QED BY <1>1, <2>2, <2>4, <2>6, <2>7 DEF StoredLists
  <1>2. CASE l # "members"
    <2>1. value \in SUBSET ShownGrants /\ \A s \in value : Resolves(s)
      BY <1>2 DEF ShownLists, Resolved
    <2>2. \A s \in value : Stored(s) \in StoredGrants /\ Shown(Stored(s)) = s
      BY <2>1, SentIsShown
    <2>3. PICK stored : stored = {Stored(s) : s \in value}
      OBVIOUS
    <2>4. StoredList(l, value) = stored
      BY <1>2, <2>3 DEF StoredList
    <2>5. stored \in SUBSET StoredGrants /\ stored # Null
      BY <2>2, <2>3 DEF NullIsNoList
    <2>6. value \subseteq {Shown(g) : g \in stored} /\ {Shown(g) : g \in stored} \subseteq value
      BY <2>2, <2>3
    <2>7. ShownList(l, stored) = {Shown(g) : g \in stored}
      BY <1>2, <2>5 DEF ShownList
    <2> QED BY <1>2, <2>4, <2>5, <2>6, <2>7 DEF StoredLists
  <1> QED BY <1>1, <1>2

(* What a view sends is in it, and set.                                     *)
LEMMA SentIsSet ==
    ASSUME EditInv, NEW a \in Admins, IsOpen(a)
    PROVE  /\ ReadAndCopied(view[a].saved, view[a].copy) /\ DOMAIN view[a].saved \subseteq AllLists
           /\ Sent(a) \subseteq DOMAIN view[a].saved
           /\ \A l \in Sent(a) : view[a].copy[l] # Null
  <1>1. /\ ReadAndCopied(view[a].saved, view[a].copy) /\ view[a].send \subseteq DOMAIN view[a].copy
        /\ \A l \in view[a].send : view[a].copy[l] # Null
    BY DEF EditInv, ViewHolds, IsOpen
  <1>2. CASE view[a].tool = "pfa"
    BY <1>1, <1>2 DEF Sent, ReadAndCopied, AllLists
  <1>3. CASE view[a].tool # "pfa"
    BY <1>1, <1>3 DEF Sent, ReadAndCopied, AllLists
  <1> QED BY <1>2, <1>3

-----------------------------------------------------------------------------
(* The steps.                                                               *)

LEMMA StartHolds == EditInit => EditInv
  <1> SUFFICES ASSUME EditInit PROVE EditInv
    OBVIOUS
  <1>1. ObjectsAreNamed
    BY EditingAssumption DEF EditInit, ObjectsAreNamed
  <1>2. ListsAreStored
    <2>1. \A l \in AllLists : lists[l] \in StoredLists(l)
      BY EditingAssumption DEF EditInit, StoredLists, AllLists
    <2> QED BY <2>1, EditingAssumption DEF EditInit, ListsAreStored, AllLists
  <1>3. /\ DOMAIN view = Admins /\ fresh \in [Admins -> BOOLEAN]
        /\ \A a \in Admins : view[a] = NoView
    BY DEF EditInit
  <1> QED BY <1>1, <1>2, <1>3 DEF EditInv, ViewHolds, ScreensTellTheTruth, IsOpen

(* One view changes, and tells the truth if it is fresh.                    *)
LEMMA ViewMoves ==
    ASSUME EditInv, NEW a \in Admins, UNCHANGED <<name, lists>>,
           NEW v, view' = [view EXCEPT ![a] = v], ViewHolds(v),
           fresh' \in [Admins -> BOOLEAN], \A b \in Admins \ {a} : fresh'[b] => fresh[b],
           fresh'[a] /\ v # NoView => \A l \in DOMAIN v.saved : v.saved[l] = ShownList(l, lists[l])
    PROVE  EditInv'
  <1>1. view'[a] = v /\ DOMAIN view' = Admins /\ \A b \in Admins \ {a} : view'[b] = view[b]
    BY DEF EditInv
  <1>2. ObjectsAreNamed' /\ ListsAreStored'
    BY DEF EditInv, ObjectsAreNamed, ListsAreStored
  <1>3. \A b \in Admins : ViewHolds(view'[b])
    BY <1>1 DEF EditInv
  <1>4. ASSUME NEW b \in Admins, fresh'[b], view'[b] # NoView, NEW l \in DOMAIN view'[b].saved
        PROVE  view'[b].saved[l] = ShownList(l, lists[l])
    <2>1. CASE b = a
      BY <1>1, <1>4, <2>1
    <2>2. CASE b # a
      BY <1>1, <1>4, <2>2 DEF EditInv, ScreensTellTheTruth, IsOpen
    <2> QED BY <2>1, <2>2
  <1>5. \A l, value : ShownList(l, value)' = ShownList(l, value)
    BY DEF ShownList, Shown
  <1>6. ScreensTellTheTruth'
    BY <1>4, <1>5 DEF ScreensTellTheTruth, IsOpen
  <1> QED BY <1>1, <1>2, <1>3, <1>6 DEF EditInv, ViewHolds

LEMMA LeaveHolds ==
    ASSUME EditInv, NEW a \in Admins, Leave(a)
    PROVE  EditInv'
  <1>1. fresh' \in [Admins -> BOOLEAN] /\ \A b \in Admins : fresh'[b] => fresh[b]
    BY DEF EditInv, Leave
  <1>2. ViewHolds(NoView)
    BY DEF ViewHolds
  <1> QED BY <1>1, <1>2, ViewMoves DEF Leave

LEMMA OpenHolds ==
    ASSUME EditInv, NEW a \in Admins, NEW tool \in Tools[a], NEW place \in DOMAIN Places, Open(a, tool, place)
    PROVE  EditInv'
  <1>1. PICK read : read = [l \in Places[place] |-> ShownList(l, lists[l])]
    OBVIOUS
  <1>2. PICK v : v = [tool |-> tool, saved |-> read, copy |-> read, send |-> {}]
    OBVIOUS
  <1>3. Places[place] \in {{"grants", "members"}, {"denied", "ceiling"}} /\ Places[place] \subseteq AllLists
    BY DEF Places, AllLists
  <1>4. \A l \in Places[place] : read[l] \in ShownLists(l)
    BY <1>1, <1>3, ListsRead DEF EditInv, ListsAreStored
  <1>5. ReadAndCopied(read, read)
    BY <1>1, <1>3, <1>4 DEF ReadAndCopied
  <1>6. ViewHolds(v)
    BY <1>2, <1>5, EditingAssumption DEF ViewHolds
  <1>7. fresh' \in [Admins -> BOOLEAN] /\ \A b \in Admins \ {a} : fresh'[b] => fresh[b]
    BY DEF Open, EditInv
  <1>8. view' = [view EXCEPT ![a] = v]
    BY <1>1, <1>2 DEF Open
  <1> QED BY <1>1, <1>2, <1>6, <1>7, <1>8, ViewMoves DEF Open

LEMMA RewriteHolds ==
    ASSUME EditInv, NEW a \in Admins, NEW l, Has(a, l), NEW value \in ShownLists(l), value # Null,
           NEW send \in SUBSET {l}, Rewrite(a, l, value, send)
    PROVE  EditInv'
  <1>1. PICK old : old = view[a]
    OBVIOUS
  <1>2. PICK copy : copy = [old.copy EXCEPT ![l] = value]
    OBVIOUS
  <1>3. PICK v : v = [tool |-> old.tool, saved |-> old.saved, copy |-> copy, send |-> send]
    OBVIOUS
  <1>4. /\ old # NoView /\ old.tool \in {"tui", "pfa"} /\ l \in DOMAIN old.saved
        /\ old = [tool |-> old.tool, saved |-> old.saved, copy |-> old.copy, send |-> old.send]
        /\ ReadAndCopied(old.saved, old.copy)
    BY <1>1 DEF EditInv, ViewHolds, Has, IsOpen
  <1>5. view' = [view EXCEPT ![a] = v]
    <2>1. PICK half : half = [old EXCEPT !.copy = copy]
      OBVIOUS
    <2>2. half = [tool |-> old.tool, saved |-> old.saved, copy |-> copy, send |-> old.send]
      BY <1>4, <2>1
    <2>3. [half EXCEPT !.send = send] = v
      BY <1>3, <2>2
    <2>4. view' = [[view EXCEPT ![a] = half] EXCEPT ![a] = [half EXCEPT !.send = send]]
      BY <1>1, <1>2, <2>1 DEF Rewrite, EditInv
    <2> QED BY <2>3, <2>4
  <1>6. /\ DOMAIN copy = DOMAIN old.saved /\ copy[l] = value
        /\ \A m \in DOMAIN old.saved \ {l} : copy[m] = old.copy[m]
    BY <1>2, <1>4 DEF ReadAndCopied
  <1>7. ReadAndCopied(old.saved, copy)
    BY <1>4, <1>6 DEF ReadAndCopied
  <1>8. ViewHolds(v)
    BY <1>3, <1>4, <1>6, <1>7 DEF ViewHolds
  <1>9. fresh' \in [Admins -> BOOLEAN] /\ \A b \in Admins : fresh'[b] => fresh[b]
    BY DEF Rewrite, EditInv
  <1>10. fresh'[a] => \A m \in DOMAIN v.saved : v.saved[m] = ShownList(m, lists[m])
    BY <1>1, <1>3, <1>4 DEF Rewrite, EditInv, ScreensTellTheTruth, IsOpen
  <1> QED BY <1>5, <1>8, <1>9, <1>10, ViewMoves DEF Rewrite

(* What the screens and the commands make is a list of grants, or of names. *)
LEMMA GrantsRewritten ==
    ASSUME EditInv, NullIsNoList, NEW a \in Admins, NEW l \in GrantLists, Has(a, l),
           NEW value \in SUBSET ShownGrants, NEW send \in SUBSET {l}, Rewrite(a, l, value, send)
    PROVE  EditInv'
  <1>1. value \in ShownLists(l) /\ value # Null
    BY DEF GrantLists, ShownLists, NullIsNoList
  <1> QED BY <1>1, RewriteHolds

LEMMA PresentGrants ==
    ASSUME EditInv, NEW a \in Admins, NEW l \in GrantLists, Has(a, l)
    PROVE  Present(a, l) \in SUBSET ShownGrants
  BY DEF EditInv, ViewHolds, ReadAndCopied, Has, IsOpen, Present, ShownLists, GrantLists

LEMMA EditHolds ==
    ASSUME EditInv, NullIsNoList, NEW a \in Admins, NEW l \in GrantLists, Edit(a, l)
    PROVE  EditInv'
  <1>1. ASSUME NEW s \in Typed \cap Made, PfaAdd(a, l, s)
        PROVE  EditInv'
    <2>1. Has(a, l) /\ Rewrite(a, l, Present(a, l) \cup {s}, {l})
      BY <1>1 DEF PfaAdd
    <2>2. Present(a, l) \cup {s} \in SUBSET ShownGrants
      BY <2>1, PresentGrants, TypedAreShown
    <2> QED BY <2>1, <2>2, GrantsRewritten
  <1>2. ASSUME NEW s \in Typed \cap Made, PfaDelete(a, l, s)
        PROVE  EditInv'
    <2>1. CASE view[a].copy[l] = Null
      BY <1>2, <2>1, LeaveHolds DEF PfaDelete
    <2>2. CASE view[a].copy[l] # Null
      <3>1. Has(a, l) /\ Rewrite(a, l, Present(a, l) \ {s}, {l})
        BY <1>2, <2>2 DEF PfaDelete, Present
      <3>2. Present(a, l) \ {s} \in SUBSET ShownGrants
        BY <3>1, PresentGrants
      <3> QED BY <3>1, <3>2, GrantsRewritten
    <2> QED BY <2>1, <2>2
  <1>3. ASSUME NEW s \in Typed \cap Made, PfaSet(a, l, s)
        PROVE  EditInv'
    <2>1. Has(a, l) /\ Rewrite(a, l, {s}, {l})
      BY <1>3 DEF PfaSet
    <2>2. {s} \in SUBSET ShownGrants
      BY TypedAreShown
    <2> QED BY <2>1, <2>2, GrantsRewritten
  <1>4. ASSUME NEW t \in NewTypes, NEW w \in Touched(Widget(NewGrant(t))), TuiAdd(a, l, w)
        PROVE  EditInv'
    <2>1. Has(a, l) /\ Rewrite(a, l, Present(a, l) \cup {Confirmed(w)}, {})
      BY <1>4 DEF TuiAdd, OnScreen
    <2>2. Confirmed(w) \in ShownGrants
      BY NewGrantsAreShown, EditsMakeGrants
    <2>3. Present(a, l) \cup {Confirmed(w)} \in SUBSET ShownGrants
      BY <2>1, <2>2, PresentGrants
    <2> QED BY <2>1, <2>3, GrantsRewritten
  <1>5. ASSUME NEW s \in Present(a, l), TuiDelete(a, l, s)
        PROVE  EditInv'
    <2>1. Has(a, l) /\ Rewrite(a, l, Present(a, l) \ {s}, {})
      BY <1>5 DEF TuiDelete, OnScreen
    <2>2. Present(a, l) \ {s} \in SUBSET ShownGrants
      BY <2>1, PresentGrants
    <2> QED BY <2>1, <2>2, GrantsRewritten
  <1>6. ASSUME NEW s \in Present(a, l), Editable(s.type), NEW w \in Touched(Widget(s)), TuiEdit(a, l, s, w)
        PROVE  EditInv'
    <2>1. Has(a, l) /\ Rewrite(a, l, (Present(a, l) \ {s}) \cup {Confirmed(w)}, {})
      BY <1>6 DEF TuiEdit, OnScreen
    <2>2. s \in ShownGrants
      BY <2>1, PresentGrants
    <2>3. Confirmed(w) \in ShownGrants
      BY <1>6, <2>2, EditsMakeGrants
    <2>4. (Present(a, l) \ {s}) \cup {Confirmed(w)} \in SUBSET ShownGrants
      BY <2>1, <2>3, PresentGrants
    <2> QED BY <2>1, <2>4, GrantsRewritten
  <1> QED BY <1>1, <1>2, <1>3, <1>4, <1>5, <1>6 DEF Edit

LEMMA NamesRewritten ==
    ASSUME EditInv, NEW a \in Admins, Has(a, "members"),
           NEW value \in SUBSET AnyName, NEW send \in SUBSET {"members"}, Rewrite(a, "members", value, send)
    PROVE  EditInv'
  <1>1. value \in ShownLists("members") /\ value # Null
    BY EditingAssumption DEF ShownLists
  <1> QED BY <1>1, RewriteHolds

LEMMA MembersHold ==
    ASSUME EditInv, NEW a \in Admins, NEW n \in Names, PfaMembers(a, n) \/ TuiMembers(a, n)
    PROVE  EditInv'
  <1>1. Has(a, "members")
    BY DEF PfaMembers, TuiMembers, OnScreen
  <1>2. PICK members : members = view[a].copy["members"]
    OBVIOUS
  <1>3. members \in SUBSET AnyName /\ n \in AnyName
    BY <1>1, <1>2 DEF EditInv, ViewHolds, ReadAndCopied, Has, IsOpen, ShownLists, AnyName
  <1>4. \A then \in {members \cup {n}, members \ {n}, {n}} : then \in SUBSET AnyName
    BY <1>3
  <1>5. CASE PfaMembers(a, n)
    <2>1. PICK then \in {members \cup {n}, members \ {n}, {n}} : Rewrite(a, "members", then, {"members"})
      BY <1>2, <1>5 DEF PfaMembers
    <2> QED BY <1>1, <1>4, <2>1, NamesRewritten
  <1>6. CASE TuiMembers(a, n)
    <2>1. PICK then : then = IF n \in members THEN members \ {n} ELSE members \cup {n}
      OBVIOUS
    <2>2. Rewrite(a, "members", then, {}) /\ then \in SUBSET AnyName
      BY <1>2, <1>4, <1>6, <2>1 DEF TuiMembers
    <2> QED BY <1>1, <2>2, NamesRewritten
  <1> QED BY <1>5, <1>6

(* Elsewhere something changes: nobody is fresh.                            *)
LEMMA ElsewhereHolds ==
    ASSUME EditInv, Elsewhere, ObjectsAreNamed', ListsAreStored'
    PROVE  EditInv'
  <1>1. /\ view' = view /\ fresh' \in [Admins -> BOOLEAN]
        /\ \A a \in Admins : ~fresh'[a]
    BY DEF Elsewhere
  <1>2. ScreensTellTheTruth'
    BY <1>1 DEF ScreensTellTheTruth
  <1>3. DOMAIN view' = Admins /\ \A a \in Admins : ViewHolds(view[a])'
    BY <1>1 DEF EditInv, ViewHolds
  <1> QED BY <1>1, <1>2, <1>3 DEF EditInv

LEMMA RenameHolds ==
    ASSUME EditInv, NEW o \in Objects, NEW n \in Names, Rename(o, n)
    PROVE  EditInv'
  <1>1. /\ name' = [name EXCEPT ![o] = n] /\ lists' = lists /\ ~IsTaken(o, n)
        /\ name \in [Objects -> AnyName]
    BY DEF Rename, EditInv, ObjectsAreNamed
  <1>2. name' \in [Objects -> AnyName] /\ name'[o] = n /\ \A p \in Objects \ {o} : name'[p] = name[p]
    BY <1>1 DEF AnyName
  <1>3. ASSUME NEW kind \in {Identities, Roles, Tags}, NEW p \in kind, NEW q \in kind,
               name'[p] = name'[q], name'[p] \in Names
        PROVE  p = q
    <2>1. p \in Objects /\ q \in Objects
      BY DEF Objects
    <2>2. o \in kind => \A x \in kind : name[x] # n
      BY <1>1, KindsOfObjects DEF IsTaken
    <2>3. CASE p = o \/ q = o
      BY <1>2, <1>3, <2>1, <2>2, <2>3
    <2>4. CASE p # o /\ q # o
      BY <1>2, <1>3, <2>1, <2>4 DEF EditInv, ObjectsAreNamed
    <2> QED BY <2>3, <2>4
  <1>4. ObjectsAreNamed'
    BY <1>2, <1>3 DEF ObjectsAreNamed
  <1>5. ListsAreStored'
    BY <1>1 DEF EditInv, ListsAreStored
  <1> QED BY <1>4, <1>5, ElsewhereHolds DEF Rename

LEMMA DeleteHolds ==
    ASSUME EditInv, NEW o \in Objects, Delete(o)
    PROVE  EditInv'
  <1>1. /\ name' = [name EXCEPT ![o] = Null] /\ name \in [Objects -> AnyName]
        /\ lists' = [l \in DOMAIN lists |-> Swept(o, l)]
    BY DEF Delete, EditInv, ObjectsAreNamed
  <1>2. name' \in [Objects -> AnyName] /\ name'[o] = Null /\ \A p \in Objects \ {o} : name'[p] = name[p]
    BY <1>1 DEF AnyName
  <1>3. ASSUME NEW kind \in {Identities, Roles, Tags}, NEW p \in kind, NEW q \in kind,
               name'[p] = name'[q], name'[p] \in Names
        PROVE  p = q
    <2>1. p \in Objects /\ q \in Objects /\ p # o /\ q # o
      BY <1>2, <1>3, EditingAssumption DEF Objects
    <2> QED BY <1>2, <1>3, <2>1 DEF EditInv, ObjectsAreNamed
  <1>4. ObjectsAreNamed'
    BY <1>2, <1>3 DEF ObjectsAreNamed
  <1>5. ASSUME NEW l \in AllLists PROVE lists'[l] \in StoredLists(l)
    <2>1. lists'[l] = Swept(o, l) /\ lists[l] \in StoredLists(l)
      BY <1>1 DEF EditInv, ListsAreStored
    <2>2. CASE lists[l] = Null \/ o \in Roles
      BY <2>1, <2>2 DEF Swept
    <2>3. CASE lists[l] # Null /\ o \notin Roles /\ l = "members"
      BY <2>1, <2>3 DEF Swept, StoredLists
    <2>4. CASE lists[l] # Null /\ o \notin Roles /\ l # "members"
      BY <2>1, <2>4 DEF Swept, StoredLists
    <2> QED BY <2>2, <2>3, <2>4
  <1>6. ListsAreStored'
    BY <1>1, <1>5 DEF EditInv, ListsAreStored
  <1> QED BY <1>4, <1>6, ElsewhereHolds DEF Delete

(* A save: what was sent is stored and would be shown as it was sent.       *)
LEMMA SaveStores ==
    ASSUME EditInv, NullIsNoList, NEW a \in Admins, Save(a), NEW l \in Sent(a)
    PROVE  /\ l \in AllLists /\ view[a].copy[l] # Null /\ view[a].copy[l] \in ShownLists(l)
           /\ Resolved(l, view[a].copy[l])
           /\ lists'[l] = StoredList(l, view[a].copy[l]) /\ lists'[l] \in StoredLists(l)
           /\ ShownList(l, lists'[l]) = view[a].copy[l]
  <1>1. /\ l \in AllLists /\ view[a].copy[l] # Null /\ view[a].copy[l] \in ShownLists(l)
    BY SentIsSet DEF Save, ReadAndCopied
  <1>2. Resolved(l, view[a].copy[l])
    BY DEF Save, Accepted
  <1>3. lists'[l] = StoredList(l, view[a].copy[l])
    BY <1>1 DEF Save, EditInv, ListsAreStored
  <1> QED BY <1>1, <1>2, <1>3, ListsSent DEF EditInv

LEMMA SaveHolds ==
    ASSUME EditInv, NullIsNoList, NEW a \in Admins, Save(a)
    PROVE  EditInv'
  <1>1. /\ IsOpen(a) /\ name' = name
        /\ lists' = [l \in DOMAIN lists |-> IF l \in Sent(a) THEN StoredList(l, view[a].copy[l]) ELSE lists[l]]
        /\ view' = [view EXCEPT ![a] = SavedView(a)] /\ fresh' = Outdated(a)
    BY DEF Save
  <1>2. ObjectsAreNamed'
    BY <1>1 DEF EditInv, ObjectsAreNamed
  <1>3. \A l \in AllLists \ Sent(a) : lists'[l] = lists[l]
    BY <1>1 DEF EditInv, ListsAreStored
  <1>4. ListsAreStored'
    <2>1. \A l \in AllLists : lists'[l] \in StoredLists(l)
      BY <1>3, SaveStores DEF EditInv, ListsAreStored
    <2> QED BY <1>1, <2>1 DEF EditInv, ListsAreStored
  <1>5. /\ fresh' \in [Admins -> BOOLEAN] /\ (fresh'[a] => fresh[a])
        /\ \A b \in Admins \ {a} : ~fresh'[b]
    BY <1>1 DEF Outdated, EditInv
  <1>6. PICK old, v : old = view[a] /\ v = SavedView(a)
    OBVIOUS
  <1>7. v # NoView => v = [tool |-> old.tool, saved |-> old.copy, copy |-> old.copy, send |-> old.send]
    BY <1>1, <1>6 DEF SavedView, IsOpen, EditInv, ViewHolds
  <1>8. ViewHolds(v)
    <2> SUFFICES ASSUME v # NoView PROVE ViewHolds(v)
      BY DEF ViewHolds
    <2>1. /\ old.tool \in {"tui", "pfa"} /\ ReadAndCopied(old.saved, old.copy)
          /\ old.send \subseteq DOMAIN old.copy /\ \A l \in old.send : old.copy[l] # Null
      BY <1>1, <1>6 DEF IsOpen, EditInv, ViewHolds
    <2>2. ReadAndCopied(old.copy, old.copy)
      BY <2>1 DEF ReadAndCopied
    <2> QED BY <1>7, <2>1, <2>2 DEF ViewHolds
  <1>9. DOMAIN view' = Admins /\ view'[a] = v /\ \A b \in Admins \ {a} : view'[b] = view[b]
    BY <1>1, <1>6 DEF EditInv
  <1>10. \A b \in Admins : ViewHolds(view'[b])
    BY <1>8, <1>9 DEF EditInv
  <1>11. ASSUME fresh'[a], v # NoView, NEW l \in DOMAIN v.saved
         PROVE  v.saved[l] = ShownList(l, lists'[l])
    <2>1. v.saved[l] = view[a].copy[l] /\ l \in DOMAIN view[a].copy
      BY <1>6, <1>7, <1>11
    <2>2. CASE l \in Sent(a)
      BY <2>1, <2>2, SaveStores
    <2>3. CASE l \notin Sent(a)
      <3>1. view[a].tool = "tui"
        BY <1>6, <1>11 DEF SavedView
      <3>2. l \in DOMAIN view[a].saved /\ l \in AllLists
        BY <1>1, <2>1, SentIsSet DEF ReadAndCopied
      <3>3. view[a].copy[l] = view[a].saved[l]
        BY <2>3, <3>1, <3>2 DEF Sent
      <3>4. view[a].saved[l] = ShownList(l, lists[l])
        BY <1>1, <1>5, <1>11, <3>2 DEF EditInv, ScreensTellTheTruth
      <3> QED BY <1>3, <2>1, <2>3, <3>2, <3>3, <3>4
    <2> QED BY <2>2, <2>3
  <1>12. \A l, value : ShownList(l, value)' = ShownList(l, value)
    BY <1>1 DEF ShownList, Shown
  <1>13. ScreensTellTheTruth'
    BY <1>5, <1>9, <1>11, <1>12 DEF ScreensTellTheTruth, IsOpen
  <1> QED BY <1>2, <1>4, <1>5, <1>9, <1>10, <1>13 DEF EditInv, ViewHolds

LEMMA EditingMoves ==
    ASSUME EditInv, NullIsNoList, [EditNext]_editVars
    PROVE  EditInv'
  <1>1. ASSUME NEW a \in Admins, NEW tool \in Tools[a], NEW place \in DOMAIN Places, Open(a, tool, place)
        PROVE  EditInv'
    BY <1>1, OpenHolds
  <1>2. ASSUME NEW a \in Admins, NEW l \in GrantLists, Edit(a, l)
        PROVE  EditInv'
    BY <1>2, EditHolds
  <1>3. ASSUME NEW a \in Admins, NEW n \in Names, PfaMembers(a, n) \/ TuiMembers(a, n)
        PROVE  EditInv'
    BY <1>3, MembersHold
  <1>4. ASSUME NEW a \in Admins, Save(a)
        PROVE  EditInv'
    BY <1>4, SaveHolds
  <1>5. ASSUME NEW a \in Admins, Refuse(a) \/ Leave(a)
        PROVE  EditInv'
    BY <1>5, LeaveHolds DEF Refuse
  <1>6. ASSUME NEW o \in Objects, Delete(o)
        PROVE  EditInv'
    BY <1>6, DeleteHolds
  <1>7. ASSUME NEW o \in Objects, NEW n \in Names, Rename(o, n)
        PROVE  EditInv'
    BY <1>7, RenameHolds
  <1>8. CASE UNCHANGED editVars
    <2>1. UNCHANGED <<name, lists, view, fresh>>
      BY <1>8 DEF editVars
    <2>2. ObjectsAreNamed' /\ ListsAreStored'
      BY <2>1 DEF EditInv, ObjectsAreNamed, ListsAreStored
    <2>3. \A l, value : ShownList(l, value)' = ShownList(l, value)
      BY <2>1 DEF ShownList, Shown
    <2>4. ScreensTellTheTruth'
      BY <2>1, <2>3 DEF EditInv, ScreensTellTheTruth, IsOpen
    <2> QED BY <2>1, <2>2, <2>4 DEF EditInv, ViewHolds
  <1> QED BY <1>1, <1>2, <1>3, <1>4, <1>5, <1>6, <1>7, <1>8 DEF EditNext

LEMMA EditsAlwaysHold == ASSUME NullIsNoList PROVE EditSpec => []EditInv
  <1>1. EditInit => EditInv
    BY StartHolds
  <1>2. EditInv /\ [EditNext]_editVars => EditInv'
    BY EditingMoves
  <1> QED BY <1>1, <1>2, PTL DEF EditSpec

(* Unless something else changed since it read, what a client shows is what *)
(* the server has (role_view.py keeps what it saved and does not read it    *)
(* again), and a form of an ssh, role or tag grant that is confirmed as it  *)
(* opened makes a grant that allows the same.                               *)
THEOREM EditorsHold == ASSUME NullIsNoList PROVE EditSpec => []EditorsAreHonest
  <1>1. ASSUME EditInv PROVE ConfirmChangesNothing
    <2> SUFFICES ASSUME NEW s \in OnDisplay,
                        s.type \in {"ssh", "role"} \/ (s.type = "tag" /\ s.of \notin Spaced)
                 PROVE  IsKept(s)
      BY DEF ConfirmChangesNothing
    <2>1. \E a \in Admins : IsOpen(a) /\ \E l \in DOMAIN view[a].saved \ {"members"} : s \in Present(a, l)
      BY DEF OnDisplay
    <2>2. PICK a \in Admins : IsOpen(a) /\ \E l \in DOMAIN view[a].saved \ {"members"} : s \in Present(a, l)
      BY <2>1
    <2>3. PICK l \in DOMAIN view[a].saved \ {"members"} : s \in Present(a, l)
      BY <2>2
    <2>4. view[a].copy[l] \in ShownLists(l)
      BY <1>1, <2>2 DEF EditInv, ViewHolds, ReadAndCopied, IsOpen
    <2>5. s \in ShownGrants
      BY <2>3, <2>4 DEF Present, ShownLists
    <2> QED BY <2>5, ShownIsKept
  <1>2. EditInv => EditorsAreHonest
    BY <1>1 DEF EditInv, EditorsAreHonest
  <1> QED BY <1>2, EditsAlwaysHold, PTL

(* A save does what the administrator did and nothing more: a grant that is *)
(* still in the copy is stored as it was, though it went through names and  *)
(* back, what was not in the list that was read is new, and the rest goes.  *)
THEOREM SavesHold == ASSUME NullIsNoList PROVE EditSpec => SavesAreTheEdit
  <1>1. ASSUME EditInv, NEW a \in Admins, Save(a), NEW l \in GrantLists, lists'[l] # lists[l]
        PROVE  LET old == IF lists[l] = Null THEN {} ELSE lists[l]
                   kept == {g \in old : Shown(g) \in view[a].copy[l]}
                   new == view[a].copy[l] \ {Shown(g) : g \in old}
               IN  kept \subseteq lists'[l] /\ {Shown(g) : g \in lists'[l] \ kept} = new
    <2>1. l \in Sent(a) /\ l \in AllLists /\ l # "members"
      BY <1>1 DEF Save, EditInv, ListsAreStored, GrantLists, AllLists
    <2>2. PICK copy, stored : copy = view[a].copy[l] /\ stored = lists'[l]
      OBVIOUS
    <2>3. /\ copy \in SUBSET ShownGrants /\ copy # Null /\ \A s \in copy : Resolves(s)
          /\ stored = {Stored(s) : s \in copy}
      BY <1>1, <2>1, <2>2, SaveStores DEF ShownLists, Resolved, StoredList
    <2>4. PICK old : old = IF lists[l] = Null THEN {} ELSE lists[l]
      OBVIOUS
    <2>5. ObjectsAreNamed /\ old \in SUBSET StoredGrants
      BY <1>1, <2>1, <2>4 DEF EditInv, ListsAreStored, StoredLists
    <2>6. PICK kept, new : /\ kept = {g \in old : Shown(g) \in copy}
                          /\ new = copy \ {Shown(g) : g \in old}
      OBVIOUS
    <2>7. \A s \in copy : Stored(s) \in StoredGrants /\ Shown(Stored(s)) = s
      BY <2>3, <2>5, SentIsShown
    <2>8. \A g \in old : Shown(g) \in copy => Stored(Shown(g)) = g
      BY <2>3, <2>5, ShownIsSent
    <2>9. kept \subseteq stored
      BY <2>3, <2>6, <2>8
    <2>10. ASSUME NEW g \in stored \ kept PROVE Shown(g) \in new
      BY <2>3, <2>6, <2>7, <2>8, <2>10
    <2>11. ASSUME NEW s \in new PROVE \E g \in stored \ kept : Shown(g) = s
      BY <2>3, <2>6, <2>7, <2>11
    <2>12. {Shown(g) : g \in stored \ kept} = new
      BY <2>10, <2>11
    <2> QED BY <2>2, <2>4, <2>6, <2>9, <2>12
  <1>2. EditInv /\ [EditNext]_editVars =>
          [\A a \in Admins : Save(a) /\ fresh[a] =>
              \A l \in GrantLists : lists'[l] # lists[l] =>
                 LET old == IF lists[l] = Null THEN {} ELSE lists[l]
                     kept == {g \in old : Shown(g) \in view[a].copy[l]}
                     new == view[a].copy[l] \ {Shown(g) : g \in old}
                 IN  kept \subseteq lists'[l] /\ {Shown(g) : g \in lists'[l] \ kept} = new]_editVars
    BY <1>1
  <1> QED BY <1>2, EditsAlwaysHold, PTL DEF EditSpec, SavesAreTheEdit
=============================================================================
