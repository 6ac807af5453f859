--------------------------- MODULE DeletionProofs ---------------------------
(***************************************************************************)
(* Proofs about what deletes: Retention, for any number of runs, any       *)
(* periods, batch size and skew, and whether or not the database locks the *)
(* whole file; and AdminObjects, for any sets of objects, any rows to      *)
(* start from and any list of requests.                                    *)
(*                                                                         *)
(* Retention.  That a batch may be deleted was established when it was     *)
(* read, possibly long ago and by a transaction that others overtook.  It  *)
(* still may be: entries never change, numbers are never used again, an    *)
(* end that is set stays, and time only goes on (BatchIsExpired).  What    *)
(* was deleted is split up between the records and the runs that are under *)
(* way, each with its count (Accounts).                                    *)
(*                                                                         *)
(* AdminObjects.  On every database, a row that a transaction has written  *)
(* is locked by it, and an owner of grants is noted before it is written   *)
(* (KeysInv).  On one that serializes writers, what a transaction has      *)
(* written and what it has still to read or write add up to the result of  *)
(* its request (SerialInv); and that result, LeftOf or Edited, names what  *)
(* is there and leaves the reach of the other grants as it was.            *)
(***************************************************************************)
EXTENDS Retention, AdminObjects, FiniteSetTheorems, WellFoundedInduction, TLAPS

MayGo(i, at) ==
    /\ log[i].class # "exempt"
    /\ log[i].at < at - (IF log[i].class = "activity" THEN ActivityDays ELSE AuditDays)

BatchIsExpired ==
    \A r \in Runs :
        /\ run[r].pc = "delete" => \A i \in run[r].batch \cap DOMAIN log : MayGo(i, run[r].at)
        /\ run[r].pc = "deleteLive" =>
               \A s \in run[r].batch \cap DOMAIN sessions :
                   sessions[s] # None /\ sessions[s] < run[r].at - ActivityDays

RunType == [pc : {"idle", "read", "delete", "readLive", "deleteLive", "record"},
            at : Nat, batch : SUBSET (Nat \cup Sessions)]

Shapes ==
    /\ now \in Nat /\ counter \in Nat
    /\ DOMAIN log \subseteq 1..counter
    /\ \A i \in DOMAIN log : log[i].class \in Classes /\ log[i].at \in 0..now
    /\ DOMAIN names \subseteq Names /\ DOMAIN sessions \subseteq Sessions
    /\ run \in [Runs -> RunType]
    /\ \A s \in DOMAIN sessions : sessions[s] = None \/ sessions[s] \in Nat
    /\ \A r \in Runs : /\ run[r].at <= now
                       /\ (run[r].pc = "delete" => run[r].batch \subseteq 1..counter)

IInv == Shapes /\ WholeEntries /\ BatchIsExpired

(* Every batch that is read consists of entries whose period is over.      *)
LEMMA BatchMayGo ==
    ASSUME NEW at, NEW i \in Batch(at)
    PROVE  i \in DOMAIN log /\ MayGo(i, at)
  BY DEF Batch, First, Expired, MayGo

LEMMA InitInv == Init => IInv
  <1> SUFFICES ASSUME Init PROVE IInv
    OBVIOUS
  <1>1. DOMAIN log = {} /\ DOMAIN names = {}
    BY DEF Init
  <1>2. run \in [Runs -> RunType] /\ \A r \in Runs : run[r] = IdleRun
    BY DEF Init, IdleRun, RunType
  <1>3. sessions \in [Sessions -> {None}] /\ now = 0 /\ counter = 0 /\ refs = {}
    BY DEF Init
  <1>4. Shapes
    BY <1>1, <1>2, <1>3 DEF Shapes, IdleRun
  <1>5. WholeEntries /\ BatchIsExpired
    BY <1>1, <1>2, <1>3 DEF WholeEntries, BatchIsExpired, IdleRun
  <1> QED BY <1>4, <1>5 DEF IInv

(* What a run is at keeps its type.                                        *)
LEMMA RunsTyped ==
    ASSUME Shapes, [Next]_vars
    PROVE  run' \in [Runs -> RunType]
  <1> USE DEF Shapes
  <1>1. ASSUME NEW r \in Runs, Start(r) \/ Record(r) \/ Fail(r) PROVE run' \in [Runs -> RunType]
    <2>1. IdleRun \in RunType /\ [IdleRun EXCEPT !.pc = "read", !.at = now] \in RunType
      BY DEF IdleRun, RunType
    <2> QED BY <1>1, <2>1 DEF Start, Record, Fail
  <1>2. ASSUME NEW r \in Runs, ReadBatch(r) PROVE run' \in [Runs -> RunType]
    <2> DEFINE batch == Batch(run[r].at)
    <2>1. batch \in SUBSET (Nat \cup Sessions)
      BY BatchMayGo
    <2> HIDE DEF batch
    <2>2. run' = [run EXCEPT ![r].batch = batch, ![r].pc = IF batch = {} THEN "readLive" ELSE "delete"]
      BY <1>2 DEF ReadBatch, batch
    <2> QED BY <2>1, <2>2, ZenonT(60) DEF RunType
  <1>3. ASSUME NEW r \in Runs, DeleteBatch(r) \/ DeleteLive(r) PROVE run' \in [Runs -> RunType]
    BY <1>3 DEF DeleteBatch, DeleteLive, RunType
  <1>4. ASSUME NEW r \in Runs, ReadLive(r) PROVE run' \in [Runs -> RunType]
    <2>1. PICK batch \in SUBSET EndedBefore(run[r].at - ActivityDays) :
              run' = [run EXCEPT ![r].batch = batch, ![r].pc = IF batch = {} THEN "record" ELSE "deleteLive"]
      BY <1>4 DEF ReadLive
    <2>2. batch \in SUBSET (Nat \cup Sessions)
      BY DEF EndedBefore
    <2> QED BY <2>1, <2>2 DEF RunType
  <1>5. ASSUME UNCHANGED run PROVE run' \in [Runs -> RunType]
    BY <1>5
  <1> QED BY <1>1, <1>2, <1>3, <1>4, <1>5 DEF Next, RunStep, Write, EndSession, Tick, vars

(* A new entry takes a number that no batch holds.                         *)
LEMMA WriteInv ==
    ASSUME IInv, NEW class \in Classes, NEW name \in Names \cup {None}, NEW d \in 0..Skew,
           d <= now, Write(class, name, now - d)
    PROVE  IInv'
  <1> USE RetentionAssumption DEF IInv, Write, Number
  <1>0. d \in Nat /\ now - d \in 0..now
    BY DEF Shapes
  <1>1. Shapes'
    BY <1>0 DEF Shapes
  <1>2. counter + 1 \notin DOMAIN log
    BY DEF Shapes
  <1>3. WholeEntries'
    BY <1>2 DEF WholeEntries
  <1>4. BatchIsExpired'
    BY <1>2 DEF BatchIsExpired, MayGo, Shapes
  <1> QED BY <1>1, <1>3, <1>4

LEMMA ReadBatchInv ==
    ASSUME IInv, NEW r \in Runs, ReadBatch(r)
    PROVE  IInv'
  <1> DEFINE batch == Batch(run[r].at)
  <1>1. \A i \in batch : i \in DOMAIN log /\ MayGo(i, run[r].at)
    BY BatchMayGo
  <1>2. run' \in [Runs -> RunType]
    BY RunsTyped DEF IInv, Next, RunStep
  <1> HIDE DEF batch
  <1>3. run' = [run EXCEPT ![r].batch = batch, ![r].pc = IF batch = {} THEN "readLive" ELSE "delete"]
    BY DEF ReadBatch, batch
  <1>4. /\ run'[r].at = run[r].at /\ run'[r].batch = batch /\ run'[r].pc \in {"readLive", "delete"}
        /\ \A q \in Runs \ {r} : run'[q] = run[q]
    BY <1>3 DEF IInv, Shapes, RunType
  <1>5. UNCHANGED <<now, counter, log, refs, names, sessions>>
    BY DEF ReadBatch
  <1>6. Shapes'
    BY <1>1, <1>2, <1>4, <1>5 DEF IInv, Shapes
  <1>7. WholeEntries'
    BY <1>5 DEF IInv, WholeEntries
  <1>8. BatchIsExpired'
    BY <1>1, <1>4, <1>5 DEF IInv, BatchIsExpired, MayGo
  <1> QED BY <1>6, <1>7, <1>8 DEF IInv

LEMMA DeleteBatchInv ==
    ASSUME IInv, NEW r \in Runs, DeleteBatch(r)
    PROVE  IInv'
  <1>1. run' \in [Runs -> RunType]
    BY RunsTyped DEF IInv, Next, RunStep
  <1>2. /\ run'[r].at = run[r].at /\ run'[r].pc = "read"
        /\ \A q \in Runs \ {r} : run'[q] = run[q]
    BY DEF DeleteBatch, IInv, Shapes, RunType
  <1>3. /\ DOMAIN log' = DOMAIN log \ run[r].batch /\ \A i \in DOMAIN log' : log'[i] = log[i]
        /\ UNCHANGED <<now, counter, sessions>>
    BY DEF DeleteBatch
  <1>4. DOMAIN names' \subseteq DOMAIN names
    BY DEF DeleteBatch
  <1>5. Shapes'
    BY <1>1, <1>2, <1>3, <1>4 DEF IInv, Shapes
  <1>6. WholeEntries'
    BY DEF IInv, WholeEntries, DeleteBatch, RefsAfter, NamesOf
  <1>7. BatchIsExpired'
    BY <1>2, <1>3 DEF IInv, BatchIsExpired, MayGo
  <1> QED BY <1>5, <1>6, <1>7 DEF IInv

LEMMA LiveInv ==
    ASSUME IInv, NEW r \in Runs, ReadLive(r) \/ DeleteLive(r)
    PROVE  IInv'
  <1>1. run' \in [Runs -> RunType]
    BY RunsTyped DEF IInv, Next, RunStep
  <1>2. UNCHANGED <<now, counter, log, refs, names>>
    BY DEF ReadLive, DeleteLive
  <1>3. WholeEntries'
    BY <1>2 DEF IInv, WholeEntries
  <1>4. CASE ReadLive(r)
    <2>1. PICK batch \in SUBSET EndedBefore(run[r].at - ActivityDays) :
              run' = [run EXCEPT ![r].batch = batch, ![r].pc = IF batch = {} THEN "record" ELSE "deleteLive"]
      BY <1>4 DEF ReadLive
    <2>2. /\ run'[r].at = run[r].at /\ run'[r].batch = batch /\ run'[r].pc \in {"record", "deleteLive"}
          /\ \A q \in Runs \ {r} : run'[q] = run[q]
      BY <2>1 DEF IInv, Shapes, RunType
    <2>3. sessions' = sessions
      BY <1>4 DEF ReadLive
    <2>4. Shapes'
      BY <1>1, <1>2, <2>2, <2>3 DEF IInv, Shapes
    <2>5. BatchIsExpired'
      BY <1>2, <2>2, <2>3 DEF IInv, BatchIsExpired, EndedBefore, MayGo
    <2> QED BY <1>3, <2>4, <2>5 DEF IInv
  <1>5. CASE DeleteLive(r)
    <2>1. /\ run'[r].at = run[r].at /\ run'[r].pc = "readLive"
          /\ \A q \in Runs \ {r} : run'[q] = run[q]
      BY <1>5 DEF DeleteLive, IInv, Shapes, RunType
    <2>2. DOMAIN sessions' \subseteq DOMAIN sessions /\ \A s \in DOMAIN sessions' : sessions'[s] = sessions[s]
      BY <1>5 DEF DeleteLive
    <2>3. Shapes'
      BY <1>1, <1>2, <2>1, <2>2 DEF IInv, Shapes
    <2>4. BatchIsExpired'
      BY <1>2, <2>1, <2>2 DEF IInv, BatchIsExpired, MayGo
    <2> QED BY <1>3, <2>3, <2>4 DEF IInv
  <1> QED BY <1>4, <1>5

LEMMA TurnInv ==
    ASSUME IInv, NEW r \in Runs, Start(r) \/ Record(r) \/ Fail(r)
    PROVE  IInv'
  <1>1. run' \in [Runs -> RunType]
    BY RunsTyped DEF IInv, Next, RunStep
  <1>2. UNCHANGED <<now, counter, log, refs, names, sessions>>
    BY DEF Start, Record, Fail
  <1>3. /\ run'[r].at \in {0, now} /\ run'[r].pc \in {"idle", "read"}
        /\ \A q \in Runs \ {r} : run'[q] = run[q]
    <2> DEFINE started == [IdleRun EXCEPT !.pc = "read", !.at = now]
    <2>1. run' = [run EXCEPT ![r] = started] \/ run' = [run EXCEPT ![r] = IdleRun]
      BY DEF Start, Record, Fail
    <2>2. started.at = now /\ started.pc = "read" /\ IdleRun.at = 0 /\ IdleRun.pc = "idle"
      BY DEF IdleRun
    <2> HIDE DEF started
    <2> QED BY <2>1, <2>2 DEF IInv, Shapes
  <1>4. Shapes'
    BY <1>1, <1>2, <1>3 DEF IInv, Shapes
  <1>5. WholeEntries'
    BY <1>2 DEF IInv, WholeEntries
  <1>6. BatchIsExpired'
    BY <1>2, <1>3 DEF IInv, BatchIsExpired, MayGo
  <1> QED BY <1>4, <1>5, <1>6 DEF IInv

(* Time passes, a session ends, or nothing happens.                        *)
LEMMA OtherInv ==
    ASSUME IInv, (\E s \in Sessions, d \in 0..Skew : d <= now /\ EndSession(s, now - d)) \/ Tick \/ UNCHANGED vars
    PROVE  IInv'
  <1>1. CASE \E s \in Sessions, d \in 0..Skew : d <= now /\ EndSession(s, now - d)
    <2>1. /\ UNCHANGED <<now, counter, log, refs, names, run>> /\ DOMAIN sessions' = DOMAIN sessions
          /\ \A x \in DOMAIN sessions :
                 sessions'[x] = sessions[x] \/ (sessions[x] = None /\ sessions'[x] \in Nat)
      BY <1>1, RetentionAssumption DEF EndSession, IInv, Shapes
    <2>2. Shapes'
      BY <2>1 DEF IInv, Shapes
    <2>3. WholeEntries'
      BY <2>1 DEF IInv, WholeEntries
    <2>4. BatchIsExpired'
      BY <2>1 DEF IInv, BatchIsExpired, MayGo
    <2> QED BY <2>2, <2>3, <2>4 DEF IInv
  <1>2. CASE Tick
    <2>1. now' = now + 1 /\ UNCHANGED <<counter, log, refs, names, sessions, run>>
      BY <1>2 DEF Tick
    <2>2. Shapes'
      BY <2>1 DEF IInv, Shapes, RunType
    <2>3. WholeEntries' /\ BatchIsExpired'
      BY <2>1 DEF IInv, WholeEntries, BatchIsExpired, MayGo
    <2> QED BY <2>2, <2>3 DEF IInv
  <1>3. CASE UNCHANGED vars
    BY <1>3 DEF IInv, Shapes, WholeEntries, BatchIsExpired, vars, MayGo
  <1> QED BY <1>1, <1>2, <1>3

LEMMA NextInv == IInv /\ [Next]_vars => IInv'
  <1> SUFFICES ASSUME IInv, [Next]_vars PROVE IInv'
    OBVIOUS
  <1>1. CASE \E class \in Classes, name \in Names \cup {None}, d \in 0..Skew :
                 d <= now /\ Write(class, name, now - d)
    BY <1>1, WriteInv
  <1>2. CASE \E r \in Runs : RunStep(r)
    <2>1. PICK r \in Runs : RunStep(r)
      BY <1>2
    <2> QED BY <2>1, ReadBatchInv, DeleteBatchInv, LiveInv, TurnInv DEF RunStep
  <1>3. CASE \E r \in Runs : Fail(r)
    BY <1>3, TurnInv
  <1> QED BY <1>1, <1>2, <1>3, OtherInv DEF Next

(* The database is consistent after every transaction: an entry goes with  *)
(* its refs, and no name outlives the entry that introduced it.            *)
THEOREM EntriesAreWhole == Spec => []WholeEntries
  <1>1. IInv => WholeEntries
    BY DEF IInv
  <1> QED BY <1>1, InitInv, NextInv, PTL DEF Spec

(* One step deletes only what is past the period of its class, however     *)
(* long ago the batch was read and whatever other runs did since.          *)
LEMMA StepGoesLate ==
    ASSUME IInv, [Next]_vars
    PROVE  /\ \A i \in DOMAIN log \ DOMAIN log' :
                  /\ log[i].class # "exempt"
                  /\ now - log[i].at > (IF log[i].class = "activity" THEN ActivityDays ELSE AuditDays)
           /\ \A s \in DOMAIN sessions \ DOMAIN sessions' :
                  sessions[s] # None /\ now - sessions[s] > ActivityDays
  <1>1. CASE \E r \in Runs : DeleteBatch(r)
    <2>1. PICK r \in Runs : DeleteBatch(r)
      BY <1>1
    <2>2. \A i \in DOMAIN log \ DOMAIN log' : MayGo(i, run[r].at)
      BY <2>1 DEF DeleteBatch, IInv, BatchIsExpired
    <2>3. run[r].at \in Nat /\ run[r].at <= now /\ now \in Nat
      BY DEF IInv, Shapes, RunType
    <2>4. \A i \in DOMAIN log : log[i].at \in Nat
      BY DEF IInv, Shapes
    <2>5. sessions' = sessions
      BY <2>1 DEF DeleteBatch
    <2> QED BY <2>2, <2>3, <2>4, <2>5, RetentionAssumption DEF MayGo
  <1>2. CASE \E r \in Runs : DeleteLive(r)
    <2>1. PICK r \in Runs : DeleteLive(r)
      BY <1>2
    <2>2. run[r].at \in Nat /\ run[r].at <= now /\ now \in Nat
      BY DEF IInv, Shapes, RunType
    <2>3. \A s \in DOMAIN sessions \ DOMAIN sessions' :
              sessions[s] # None /\ sessions[s] < run[r].at - ActivityDays
      BY <2>1 DEF DeleteLive, IInv, BatchIsExpired
    <2>4. \A s \in DOMAIN sessions : sessions[s] = None \/ sessions[s] \in Nat
      BY DEF IInv, Shapes
    <2>5. log' = log
      BY <2>1 DEF DeleteLive
    <2> QED BY <2>2, <2>3, <2>4, <2>5, RetentionAssumption
  <1>3. ASSUME ~ \E r \in Runs : DeleteBatch(r) \/ DeleteLive(r)
        PROVE  DOMAIN log \subseteq DOMAIN log' /\ DOMAIN sessions = DOMAIN sessions'
    BY <1>3 DEF Next, RunStep, Write, EndSession, Start, ReadBatch, ReadLive, Record, Fail, Tick, vars
  <1> QED BY <1>1, <1>2, <1>3

(* Nothing is deleted before its period is over, and exempt entries never. *)
THEOREM RetentionIsKept == Spec => NothingGoesEarly
  <1>1. IInv /\ [Next]_vars =>
            [/\ \A i \in DOMAIN log \ DOMAIN log' :
                    /\ log[i].class # "exempt"
                    /\ now - log[i].at > (IF log[i].class = "activity" THEN ActivityDays ELSE AuditDays)
             /\ \A s \in DOMAIN sessions \ DOMAIN sessions' :
                    sessions[s] # None /\ now - sessions[s] > ActivityDays]_vars
    BY StepGoesLate
  <1> QED BY <1>1, InitInv, NextInv, PTL DEF Spec, NothingGoesEarly

-----------------------------------------------------------------------------
(* The records of the purges.  What has been deleted is split up: what the  *)
(* records tell of, and for each run what it has deleted so far.            *)
Split(all, settled, own) ==
    /\ settled \subseteq all /\ own \in [Runs -> SUBSET all]
    /\ \A x \in all : x \in settled \/ \E r \in Runs : x \in own[r]
    /\ \A r \in Runs : own[r] \cap settled = {}
    /\ \A r1, r2 \in Runs : r1 # r2 => own[r1] \cap own[r2] = {}

IsTop(n, s) == n \in s \cup {0} /\ \A i \in s : i <= n

EntriesTally(settled, own) ==
    /\ Split(gone.entries, settled, own)
    /\ recorded.entries = Cardinality(settled) /\ IsTop(recorded.highest, settled)
    /\ \A r \in Runs : result[r].entries = Cardinality(own[r]) /\ IsTop(result[r].highest, own[r])

SessionsTally(settled, own) ==
    /\ Split(gone.sessions, settled, own)
    /\ recorded.sessions = Cardinality(settled)
    /\ \A r \in Runs : result[r].sessions = Cardinality(own[r])

IsResult(x) ==
    /\ x = [entries |-> x.entries, refs |-> x.refs, names |-> x.names,
            sessions |-> x.sessions, highest |-> x.highest]
    /\ x.entries \in Nat /\ x.sessions \in Nat /\ x.highest \in Nat

InTransaction(r) == run[r].pc \in {"delete", "deleteLive"}

Accounts ==
    /\ gone = [entries |-> gone.entries, sessions |-> gone.sessions]
    /\ gone.entries \subseteq (1..counter) \ DOMAIN log
    /\ gone.sessions \subseteq Sessions \ DOMAIN sessions
    /\ IsResult(recorded)
    /\ DOMAIN result = Runs /\ \A r \in Runs : IsResult(result[r])
    /\ \A r \in Runs : run[r].pc = "idle" => result[r] = Nothing
    /\ \A r \in Runs : run[r].pc = "delete" => run[r].batch \subseteq DOMAIN log
    /\ \A r1, r2 \in Runs : InTransaction(r1) /\ InTransaction(r2) => r1 = r2
    /\ \E settled, own : EntriesTally(settled, own)
    /\ \E settled, own : SessionsTally(settled, own)

AccountsInv == IInv /\ crashes \in Nat /\ (fileLock /\ crashes = 0 => Accounts)

(* Numbers are well-founded, hence a bounded set of them has a greatest.    *)
LEMMA LeastNumber ==
    ASSUME NEW S \in SUBSET Nat, S # {}
    PROVE  \E m \in S : \A n \in S : m <= n
  <1> DEFINE R == OpToRel(<, Nat)
  <1>1. IsWellFoundedOn(R, Nat)
    BY NatLessThanWellFounded
  <1>2. \A x, y \in Nat : x < y => <<x, y>> \in R
    BY DEF OpToRel
  <1> HIDE DEF R
  <1>3. PICK m \in S : \A n \in S : ~ (<<n, m>> \in R)
    BY <1>1, WFMin
  <1>4. \A n \in S : ~ (n < m)
    BY <1>2, <1>3
  <1> QED BY <1>4

LEMMA GreatestNumber ==
    ASSUME NEW S \in SUBSET Nat, S # {}, NEW bound \in Nat, \A n \in S : n <= bound
    PROVE  Max(S) \in S /\ \A n \in S : n <= Max(S)
  <1> DEFINE Bounds == {u \in Nat : \A n \in S : n <= u}
  <1>1. PICK m \in Bounds : \A u \in Bounds : m <= u
    BY LeastNumber
  <1>2. m \in S
    <2>1. SUFFICES ASSUME m \notin S PROVE FALSE
      OBVIOUS
    <2>2. PICK s \in S : TRUE
      OBVIOUS
    <2>3. m - 1 \in Bounds
      BY <2>1, <2>2
    <2>4. QED BY <1>1, <2>3
  <1> QED BY <1>1, <1>2 DEF Max

(* A batch makes the account of its run grow.                               *)
LEMMA SplitGrows ==
    ASSUME NEW all, NEW settled, NEW own, Split(all, settled, own), IsFiniteSet(all),
           NEW r \in Runs, NEW batch, IsFiniteSet(batch), batch \cap all = {}
    PROVE  /\ Split(all \cup batch, settled, [own EXCEPT ![r] = @ \cup batch])
           /\ Cardinality(own[r] \cup batch) = Cardinality(own[r]) + Cardinality(batch)
  <1>1. own[r] \subseteq all /\ own[r] \cap batch = {}
    BY DEF Split
  <1>2. IsFiniteSet(own[r]) /\ Cardinality(own[r]) \in Nat
    BY <1>1, FS_Subset, FS_CardinalityType
  <1>3. Cardinality(batch) \in Nat
    BY FS_CardinalityType
  <1>4. Cardinality(own[r] \cup batch) = Cardinality(own[r]) + Cardinality(batch)
    <2>1. Cardinality(own[r] \cup batch)
              = Cardinality(own[r]) + Cardinality(batch) - Cardinality(own[r] \cap batch)
      BY <1>2, FS_Union
    <2>2. Cardinality(own[r] \cap batch) = 0
      BY <1>1, FS_EmptySet
    <2> QED BY <1>2, <1>3, <2>1, <2>2
  <1> DEFINE new == [own EXCEPT ![r] = @ \cup batch]
  <1>5. new[r] = own[r] \cup batch /\ \A q \in Runs \ {r} : new[q] = own[q]
    BY DEF Split
  <1>6. new \in [Runs -> SUBSET (all \cup batch)]
    BY DEF Split
  <1> HIDE DEF new
  <1>7. Split(all \cup batch, settled, new)
    BY <1>5, <1>6 DEF Split
  <1> QED BY <1>4, <1>7 DEF new

(* A record settles the account of its run.                                 *)
LEMMA SplitSettles ==
    ASSUME NEW all, NEW settled, NEW own, Split(all, settled, own), IsFiniteSet(all), NEW r \in Runs
    PROVE  /\ Split(all, settled \cup own[r], [own EXCEPT ![r] = {}])
           /\ Cardinality(settled \cup own[r]) = Cardinality(settled) + Cardinality(own[r])
  <1>1. own[r] \subseteq all /\ settled \subseteq all /\ own[r] \cap settled = {}
    BY DEF Split
  <1>2. /\ IsFiniteSet(own[r]) /\ Cardinality(own[r]) \in Nat
        /\ IsFiniteSet(settled) /\ Cardinality(settled) \in Nat
    BY <1>1, FS_Subset, FS_CardinalityType
  <1>3. Cardinality(settled \cup own[r]) = Cardinality(settled) + Cardinality(own[r])
    <2>1. Cardinality(settled \cup own[r])
              = Cardinality(settled) + Cardinality(own[r]) - Cardinality(settled \cap own[r])
      BY <1>2, FS_Union
    <2>2. settled \cap own[r] = {}
      BY <1>1
    <2>3. Cardinality(settled \cap own[r]) = 0
      BY <2>2, FS_EmptySet
    <2> QED BY <1>2, <2>1, <2>3
  <1> DEFINE new == [own EXCEPT ![r] = {}]
  <1>4. new[r] = {} /\ \A q \in Runs \ {r} : new[q] = own[q]
    BY DEF Split
  <1>5. new \in [Runs -> SUBSET all]
    BY DEF Split
  <1> HIDE DEF new
  <1>6. Split(all, settled \cup own[r], new)
    BY <1>4, <1>5 DEF Split
  <1> QED BY <1>3, <1>6 DEF new

LEMMA AccountsStart == Init => AccountsInv
  <1> SUFFICES ASSUME Init PROVE Accounts
    BY InitInv DEF Init, AccountsInv
  <1> DEFINE own == [r \in Runs |-> {}]
  <1>1. Split({}, {}, own)
    BY DEF Split
  <1>2. gone.entries = {} /\ gone.sessions = {} /\ gone = [entries |-> gone.entries, sessions |-> gone.sessions]
    BY DEF Init
  <1>3. Cardinality({}) = 0
    BY FS_EmptySet
  <1>4. \A r \in Runs : result[r] = Nothing /\ run[r].pc = "idle" /\ own[r] = {}
    BY DEF Init, IdleRun
  <1>5. IsResult(Nothing) /\ Nothing.entries = 0 /\ Nothing.sessions = 0 /\ Nothing.highest = 0
    BY DEF IsResult, Nothing
  <1>6. recorded = Nothing /\ DOMAIN result = Runs
    BY DEF Init
  <1> HIDE DEF own
  <1>7. EntriesTally({}, own) /\ SessionsTally({}, own)
    BY <1>1, <1>2, <1>3, <1>4, <1>5, <1>6 DEF EntriesTally, SessionsTally, IsTop
  <1> QED BY <1>2, <1>4, <1>5, <1>6, <1>7 DEF Accounts, InTransaction

(* What a run has counted of a batch of entries, or of sessions.            *)
LEMMA BatchIsCounted ==
    ASSUME AccountsInv, fileLock, crashes = 0, NEW r \in Runs, DeleteBatch(r)
    PROVE  Accounts'
  <1>0. PICK batch : batch = run[r].batch
    OBVIOUS
  <1>1. batch \subseteq DOMAIN log /\ batch \subseteq 1..counter /\ counter \in Nat
    BY <1>0 DEF AccountsInv, Accounts, IInv, Shapes, DeleteBatch
  <1>2. IsFiniteSet(batch) /\ Cardinality(batch) \in Nat
    <2>1. IsFiniteSet(1..counter)
      BY <1>1, FS_Interval
    <2> QED BY <1>1, <2>1, FS_Subset, FS_CardinalityType
  <1>3. IsFiniteSet(gone.entries) /\ batch \cap gone.entries = {}
    BY <1>1, FS_Interval, FS_Subset DEF AccountsInv, Accounts
  <1>4. /\ gone'.entries = gone.entries \cup batch /\ gone'.sessions = gone.sessions
        /\ gone' = [entries |-> gone'.entries, sessions |-> gone'.sessions]
    BY <1>0, <1>1 DEF DeleteBatch, AccountsInv, Accounts
  <1>5. IsResult(result[r]) /\ DOMAIN result = Runs
    BY DEF AccountsInv, Accounts
  <1> DEFINE top == Max(batch \cup {result[r].highest})
  <1>6. top \in batch \cup {result[r].highest} /\ \A i \in batch \cup {result[r].highest} : i <= top
    <2> DEFINE S == batch \cup {result[r].highest}
    <2>1. S \in SUBSET Nat /\ S # {}
      BY <1>1, <1>5 DEF IsResult
    <2>2. counter + result[r].highest \in Nat /\ \A n \in S : n <= counter + result[r].highest
      BY <1>1, <1>5 DEF IsResult
    <2> HIDE DEF S
    <2>3. Max(S) \in S /\ \A n \in S : n <= Max(S)
      BY <2>1, <2>2, GreatestNumber
    <2>4. QED BY <2>3 DEF S
  <1>7. /\ result'[r] = Counted(result[r], batch)
        /\ DOMAIN result' = Runs /\ \A q \in Runs \ {r} : result'[q] = result[q]
    BY <1>0, <1>5 DEF DeleteBatch
  <1> HIDE DEF top
  <1>8. /\ result'[r].entries = result[r].entries + Cardinality(batch)
        /\ result'[r].sessions = result[r].sessions
        /\ result'[r].highest = top
        /\ IsResult(result'[r])
    <2>1. top \in Nat
      BY <1>1, <1>5, <1>6 DEF IsResult
    <2>2. Counted(result[r], batch) =
              [entries |-> result[r].entries + Cardinality(batch),
               refs |-> result[r].refs + Cardinality(refs \cap batch),
               names |-> result[r].names + Cardinality(NamesOf(batch)),
               sessions |-> result[r].sessions, highest |-> top]
      <3>1. PICK x : x = result[r]
        OBVIOUS
      <3>2. x = [entries |-> x.entries, refs |-> x.refs, names |-> x.names,
                 sessions |-> x.sessions, highest |-> x.highest]
        BY <1>5, <3>1 DEF IsResult
      <3>3. top = Max(batch \cup {x.highest})
        BY <3>1 DEF top
      <3>4. PICK a, b : a = Cardinality(refs \cap batch) /\ b = Cardinality(NamesOf(batch))
        OBVIOUS
      <3>5. PICK n : n = Cardinality(batch)
        OBVIOUS
      <3>6. Counted(x, batch) = [x EXCEPT !.entries = @ + n, !.refs = @ + a, !.names = @ + b, !.highest = top]
        BY <3>2, <3>3, <3>4, <3>5 DEF Counted
      <3>7. [x EXCEPT !.entries = @ + n, !.refs = @ + a, !.names = @ + b, !.highest = top]
                = [entries |-> x.entries + n, refs |-> x.refs + a, names |-> x.names + b,
                   sessions |-> x.sessions, highest |-> top]
        <4>1. PICK e, f, g, s, h :
                  x = [entries |-> e, refs |-> f, names |-> g, sessions |-> s, highest |-> h]
          BY <3>2
        <4> DEFINE y == [x EXCEPT !.entries = @ + n, !.refs = @ + a, !.names = @ + b, !.highest = top]
        <4>2. /\ y.entries = e + n /\ y.refs = f + a /\ y.names = g + b
              /\ y.sessions = s /\ y.highest = top
          BY <4>1
        <4>3. DOMAIN y = {"entries", "refs", "names", "sessions", "highest"} /\ y = [k \in DOMAIN y |-> y[k]]
          BY <4>1
        <4> HIDE DEF y
        <4>4. y = [entries |-> y.entries, refs |-> y.refs, names |-> y.names,
                   sessions |-> y.sessions, highest |-> y.highest]
          BY <4>3
        <4> QED BY <4>1, <4>2, <4>4 DEF y
      <3> QED BY <3>1, <3>4, <3>5, <3>6, <3>7
    <2>3. QED BY <1>2, <1>5, <1>7, <2>1, <2>2 DEF IsResult
  <1>9. /\ run'[r].pc = "read" /\ \A q \in Runs \ {r} : run'[q] = run[q]
        /\ DOMAIN log' = DOMAIN log \ batch
        /\ UNCHANGED <<counter, sessions, recorded>>
    BY <1>0 DEF DeleteBatch, AccountsInv, IInv, Shapes, RunType
  <1>10. PICK settled, own : EntriesTally(settled, own)
    BY DEF AccountsInv, Accounts
  <1> DEFINE new == [own EXCEPT ![r] = @ \cup batch]
  <1>11. EntriesTally(settled, new)'
    <2>0. Split(gone.entries, settled, own)
      BY <1>10 DEF EntriesTally
    <2>1. /\ Split(gone.entries \cup batch, settled, new)
          /\ Cardinality(own[r] \cup batch) = Cardinality(own[r]) + Cardinality(batch)
      BY <1>2, <1>3, <2>0, SplitGrows
    <2>2. new[r] = own[r] \cup batch /\ \A q \in Runs \ {r} : new[q] = own[q]
      BY <1>10 DEF EntriesTally, Split
    <2>3. result[r].highest \in own[r] \cup {0} /\ \A i \in own[r] : i <= result[r].highest
      BY <1>10 DEF EntriesTally, IsTop
    <2>4. own[r] \subseteq Nat /\ result[r].highest \in Nat /\ top \in Nat /\ batch \subseteq Nat
      BY <1>1, <1>5, <1>6, <1>10 DEF EntriesTally, Split, AccountsInv, Accounts, IsResult
    <2>5. IsTop(result'[r].highest, own[r] \cup batch)
      <3>1. top \in own[r] \cup batch \cup {0}
        BY <1>6, <2>3
      <3>2. \A i \in own[r] : i <= top
        BY <1>6, <2>3, <2>4
      <3> QED BY <1>6, <1>8, <3>1, <3>2 DEF IsTop
    <2>6. result'[r].entries = Cardinality(own[r] \cup batch)
      BY <1>8, <1>10, <2>1 DEF EntriesTally
    <2> HIDE DEF new
    <2>7. \A q \in Runs : result'[q].entries = Cardinality(new[q]) /\ IsTop(result'[q].highest, new[q])
      BY <1>7, <1>10, <2>2, <2>5, <2>6 DEF EntriesTally
    <2> QED BY <1>4, <1>9, <1>10, <2>1, <2>7 DEF EntriesTally
  <1>12. \E s, o : SessionsTally(s, o)'
    <2>1. PICK s, o : SessionsTally(s, o)
      BY DEF AccountsInv, Accounts
    <2>2. SessionsTally(s, o)'
      BY <1>4, <1>7, <1>8, <1>9, <2>1 DEF SessionsTally
    <2> QED BY <2>2
  <1>13. \A q \in Runs \ {r} : ~ InTransaction(q)
    BY DEF AccountsInv, Accounts, DeleteBatch, InTransaction
  <1>14. \E s, o : EntriesTally(s, o)'
    BY <1>11
  <1>15. /\ gone'.entries \subseteq (1..counter) \ DOMAIN log'
         /\ gone'.sessions \subseteq Sessions \ DOMAIN sessions
    BY <1>1, <1>4, <1>9 DEF AccountsInv, Accounts
  <1>16. \A q \in Runs : IsResult(result'[q]) /\ (run'[q].pc = "idle" => result'[q] = Nothing)
    BY <1>7, <1>8, <1>9 DEF AccountsInv, Accounts
  <1>17. \A q \in Runs : ~ InTransaction(q)'
    BY <1>9, <1>13 DEF InTransaction
  <1>18. IsResult(recorded)
    BY DEF AccountsInv, Accounts
  <1> QED BY <1>4, <1>7, <1>9, <1>12, <1>14, <1>15, <1>16, <1>17, <1>18 DEF Accounts, InTransaction

LEMMA SessionsAreCounted ==
    ASSUME AccountsInv, fileLock, crashes = 0, NEW r \in Runs, DeleteLive(r)
    PROVE  Accounts'
  <1>0. PICK batch : batch = run[r].batch \cap DOMAIN sessions
    OBVIOUS
  <1>1. batch \subseteq DOMAIN sessions /\ batch \subseteq Sessions
    BY <1>0 DEF AccountsInv, IInv, Shapes
  <1>2. IsFiniteSet(batch) /\ Cardinality(batch) \in Nat
    BY <1>1, RetentionAssumption, FS_Subset, FS_CardinalityType
  <1>3. IsFiniteSet(gone.sessions) /\ batch \cap gone.sessions = {}
    BY <1>1, RetentionAssumption, FS_Subset DEF AccountsInv, Accounts
  <1>4. /\ gone'.sessions = gone.sessions \cup batch /\ gone'.entries = gone.entries
        /\ gone' = [entries |-> gone'.entries, sessions |-> gone'.sessions]
    BY <1>0 DEF DeleteLive, AccountsInv, Accounts
  <1>5. IsResult(result[r]) /\ DOMAIN result = Runs
    BY DEF AccountsInv, Accounts
  <1>6. /\ result'[r] = [result[r] EXCEPT !.sessions = @ + Cardinality(batch)]
        /\ DOMAIN result' = Runs /\ \A q \in Runs \ {r} : result'[q] = result[q]
    BY <1>0, <1>5 DEF DeleteLive
  <1>7. /\ result'[r].sessions = result[r].sessions + Cardinality(batch)
        /\ result'[r].entries = result[r].entries /\ result'[r].highest = result[r].highest
        /\ IsResult(result'[r])
    BY <1>2, <1>5, <1>6 DEF IsResult
  <1>8. /\ run'[r].pc = "readLive" /\ \A q \in Runs \ {r} : run'[q] = run[q]
        /\ DOMAIN sessions' = DOMAIN sessions \ batch
        /\ UNCHANGED <<counter, log, recorded>>
    BY <1>0 DEF DeleteLive, AccountsInv, IInv, Shapes, RunType
  <1>9. \E s, o : SessionsTally(s, o)'
    <2>1. PICK settled, own : SessionsTally(settled, own)
      BY DEF AccountsInv, Accounts
    <2> DEFINE new == [own EXCEPT ![r] = @ \cup batch]
    <2>2. Split(gone.sessions, settled, own)
      BY <2>1 DEF SessionsTally
    <2>3. /\ Split(gone.sessions \cup batch, settled, new)
          /\ Cardinality(own[r] \cup batch) = Cardinality(own[r]) + Cardinality(batch)
      <3>1. PICK all : all = gone.sessions
        OBVIOUS
      <3>2. Split(all, settled, own) /\ IsFiniteSet(all) /\ batch \cap all = {}
        BY <1>3, <2>2, <3>1
      <3>3. /\ Split(all \cup batch, settled, new)
            /\ Cardinality(own[r] \cup batch) = Cardinality(own[r]) + Cardinality(batch)
        BY <1>2, <3>2, SplitGrows
      <3> QED BY <3>1, <3>3
    <2>4. new[r] = own[r] \cup batch /\ \A q \in Runs \ {r} : new[q] = own[q]
      BY <2>2 DEF Split
    <2>5. result'[r].sessions = Cardinality(own[r] \cup batch)
      BY <1>7, <2>1, <2>3 DEF SessionsTally
    <2> HIDE DEF new
    <2>6. \A q \in Runs : result'[q].sessions = Cardinality(new[q])
      BY <1>6, <2>1, <2>4, <2>5 DEF SessionsTally
    <2>7. PICK o : o = new
      OBVIOUS
    <2>8. SessionsTally(settled, o)'
      BY <1>4, <1>8, <2>1, <2>3, <2>6, <2>7 DEF SessionsTally
    <2> QED BY <2>8
  <1>10. \E s, o : EntriesTally(s, o)'
    <2>1. PICK s, o : EntriesTally(s, o)
      BY DEF AccountsInv, Accounts
    <2>2. \A q \in Runs : result'[q].entries = result[q].entries /\ result'[q].highest = result[q].highest
      BY <1>6, <1>7
    <2>3. EntriesTally(s, o)'
      BY <1>4, <1>8, <2>1, <2>2 DEF EntriesTally
    <2> QED BY <2>3
  <1>11. \A q \in Runs : ~ InTransaction(q)'
    BY <1>8 DEF AccountsInv, Accounts, DeleteLive, InTransaction
  <1>12. /\ gone'.entries \subseteq (1..counter) \ DOMAIN log
         /\ gone'.sessions \subseteq Sessions \ DOMAIN sessions'
    BY <1>1, <1>4, <1>8 DEF AccountsInv, Accounts
  <1>13. \A q \in Runs : IsResult(result'[q]) /\ (run'[q].pc = "idle" => result'[q] = Nothing)
    BY <1>6, <1>7, <1>8 DEF AccountsInv, Accounts
  <1>14. IsResult(recorded)
    BY DEF AccountsInv, Accounts
  <1> QED BY <1>4, <1>6, <1>8, <1>9, <1>10, <1>11, <1>12, <1>13, <1>14 DEF Accounts, InTransaction

(* What a run has deleted counts as recorded, and nothing is its own.       *)
LEMMA RecordSettles ==
    ASSUME AccountsInv, fileLock, crashes = 0, NEW r \in Runs, Record(r)
    PROVE  Accounts'
  <1>1. /\ run'[r].pc = "idle" /\ \A q \in Runs \ {r} : run'[q] = run[q]
        /\ UNCHANGED <<counter, log, sessions, gone>>
    BY DEF Record, IdleRun, AccountsInv, IInv, Shapes
  <1>2. /\ DOMAIN result' = Runs /\ result'[r] = Nothing
        /\ \A q \in Runs \ {r} : result'[q] = result[q]
    BY DEF Record, AccountsInv, Accounts
  <1>3. IsResult(result[r]) /\ IsResult(recorded) /\ IsResult(Nothing)
    BY DEF AccountsInv, Accounts, IsResult, Nothing
  <1>4. /\ IsFiniteSet(gone.entries) /\ gone.entries \subseteq Nat /\ IsFiniteSet(gone.sessions)
    <2>1. counter \in Nat
      BY DEF AccountsInv, IInv, Shapes
    <2>2. IsFiniteSet(1..counter)
      BY <2>1, FS_Interval
    <2> QED BY <2>1, <2>2, FS_Subset, RetentionAssumption DEF AccountsInv, Accounts
  <1>5. Nothing.entries = 0 /\ Nothing.sessions = 0 /\ Nothing.highest = 0
    BY DEF Nothing
  <1>6. /\ recorded'.entries = recorded.entries + result[r].entries
        /\ recorded'.sessions = recorded.sessions + result[r].sessions
        /\ recorded'.highest \in {recorded.highest, result[r].highest}
        /\ recorded'.highest >= recorded.highest /\ recorded'.highest >= result[r].highest
        /\ IsResult(recorded')
    <2>1. CASE result[r] = Nothing
      BY <1>3, <1>5, <2>1 DEF Record, IsResult
    <2>2. CASE result[r] # Nothing
      <3>1. recorded' = Sum(recorded, result[r])
        BY <2>2 DEF Record
      <3>2. PICK x, y : x = recorded.highest /\ y = result[r].highest
        OBVIOUS
      <3>3. x \in Nat /\ y \in Nat
        BY <1>3, <3>2 DEF IsResult
      <3>4. Max({x, y}) \in {x, y} /\ Max({x, y}) >= x /\ Max({x, y}) >= y
        <4>1. {x, y} \in SUBSET Nat /\ {x, y} # {} /\ x + y \in Nat /\ \A n \in {x, y} : n <= x + y
          BY <3>3
        <4>2. Max({x, y}) \in {x, y} /\ \A n \in {x, y} : n <= Max({x, y})
          BY <4>1, GreatestNumber
        <4> QED BY <3>3, <4>2
      <3> QED BY <1>3, <3>1, <3>2, <3>3, <3>4 DEF Sum, IsResult
    <2> QED BY <2>1, <2>2
  <1>7. \E s, o : EntriesTally(s, o)'
    <2>1. PICK settled, own : EntriesTally(settled, own)
      BY DEF AccountsInv, Accounts
    <2> DEFINE new == [own EXCEPT ![r] = {}]
    <2>2. Split(gone.entries, settled, own)
      BY <2>1 DEF EntriesTally
    <2>3. /\ Split(gone.entries, settled \cup own[r], new)
          /\ Cardinality(settled \cup own[r]) = Cardinality(settled) + Cardinality(own[r])
      <3>1. PICK all : all = gone.entries
        OBVIOUS
      <3>2. Split(all, settled, own) /\ IsFiniteSet(all)
        BY <1>4, <2>2, <3>1
      <3>3. /\ Split(all, settled \cup own[r], new)
            /\ Cardinality(settled \cup own[r]) = Cardinality(settled) + Cardinality(own[r])
        BY <3>2, SplitSettles
      <3> QED BY <3>1, <3>3
    <2>4. new[r] = {} /\ \A q \in Runs \ {r} : new[q] = own[q]
      BY <2>2 DEF Split
    <2>5. PICK s, o : s = settled \cup own[r] /\ o = new
      OBVIOUS
    <2> HIDE DEF new
    <2>6. recorded'.entries = Cardinality(s)
      BY <1>6, <2>1, <2>3, <2>5 DEF EntriesTally
    <2>7. IsTop(recorded'.highest, s)
      <3>1. settled \subseteq Nat /\ own[r] \subseteq Nat
        BY <1>4, <2>2 DEF Split
      <3>2. IsTop(recorded.highest, settled) /\ IsTop(result[r].highest, own[r])
        BY <2>1 DEF EntriesTally
      <3>3. \A i \in settled : i <= recorded'.highest
        BY <1>3, <1>6, <3>1, <3>2 DEF IsTop, IsResult
      <3>4. \A i \in own[r] : i <= recorded'.highest
        BY <1>3, <1>6, <3>1, <3>2 DEF IsTop, IsResult
      <3> QED BY <1>6, <2>5, <3>2, <3>3, <3>4 DEF IsTop
    <2>8. \A q \in Runs : result'[q].entries = Cardinality(o[q]) /\ IsTop(result'[q].highest, o[q])
      BY <1>2, <1>5, <2>1, <2>4, <2>5, FS_EmptySet DEF EntriesTally, IsTop
    <2>9. EntriesTally(s, o)'
      BY <1>1, <2>3, <2>5, <2>6, <2>7, <2>8 DEF EntriesTally
    <2> QED BY <2>9
  <1>8. \E s, o : SessionsTally(s, o)'
    <2>1. PICK settled, own : SessionsTally(settled, own)
      BY DEF AccountsInv, Accounts
    <2> DEFINE new == [own EXCEPT ![r] = {}]
    <2>2. Split(gone.sessions, settled, own)
      BY <2>1 DEF SessionsTally
    <2>3. /\ Split(gone.sessions, settled \cup own[r], new)
          /\ Cardinality(settled \cup own[r]) = Cardinality(settled) + Cardinality(own[r])
      <3>1. PICK all : all = gone.sessions
        OBVIOUS
      <3>2. Split(all, settled, own) /\ IsFiniteSet(all)
        BY <1>4, <2>2, <3>1
      <3>3. /\ Split(all, settled \cup own[r], new)
            /\ Cardinality(settled \cup own[r]) = Cardinality(settled) + Cardinality(own[r])
        BY <3>2, SplitSettles
      <3> QED BY <3>1, <3>3
    <2>4. new[r] = {} /\ \A q \in Runs \ {r} : new[q] = own[q]
      BY <2>2 DEF Split
    <2>5. PICK s, o : s = settled \cup own[r] /\ o = new
      OBVIOUS
    <2> HIDE DEF new
    <2>6. recorded'.sessions = Cardinality(s)
      BY <1>6, <2>1, <2>3, <2>5 DEF SessionsTally
    <2>7. \A q \in Runs : result'[q].sessions = Cardinality(o[q])
      BY <1>2, <1>5, <2>1, <2>4, <2>5, FS_EmptySet DEF SessionsTally
    <2>8. SessionsTally(s, o)'
      BY <1>1, <2>3, <2>5, <2>6, <2>7 DEF SessionsTally
    <2> QED BY <2>8
  <1>9. \A q \in Runs : IsResult(result'[q]) /\ (run'[q].pc = "idle" => result'[q] = Nothing)
    BY <1>1, <1>2, <1>3 DEF AccountsInv, Accounts
  <1> QED BY <1>1, <1>2, <1>6, <1>7, <1>8, <1>9 DEF AccountsInv, Accounts, InTransaction

(* A step that deletes nothing and records nothing leaves the accounts.     *)
LEMMA AccountsStay ==
    ASSUME AccountsInv, fileLock, crashes = 0, UNCHANGED <<gone, recorded>>,
           DOMAIN result' = Runs, \A r \in Runs : result'[r] = result[r],
           counter' \in Nat, counter <= counter', DOMAIN sessions' = DOMAIN sessions,
           DOMAIN log \subseteq DOMAIN log', DOMAIN log' \subseteq DOMAIN log \cup ((counter + 1)..counter'),
           \A r \in Runs : run'[r].pc = "idle" => result[r] = Nothing,
           \A r \in Runs : run'[r].pc = "delete" => run'[r].batch \subseteq DOMAIN log',
           \A r1, r2 \in Runs : InTransaction(r1)' /\ InTransaction(r2)' => r1 = r2
    PROVE  Accounts'
  <1>1. counter \in Nat
    BY DEF AccountsInv, IInv, Shapes
  <1>2. gone.entries \subseteq (1..counter') \ DOMAIN log'
    BY <1>1 DEF AccountsInv, Accounts
  <1>3. (\E s, o : EntriesTally(s, o)') /\ (\E s, o : SessionsTally(s, o)')
    BY DEF AccountsInv, Accounts, EntriesTally, SessionsTally
  <1> QED BY <1>2, <1>3 DEF AccountsInv, Accounts

LEMMA RunsStayCounted ==
    ASSUME AccountsInv, fileLock, crashes = 0, NEW r \in Runs, Start(r) \/ ReadBatch(r) \/ ReadLive(r)
    PROVE  Accounts'
  <1>1. /\ UNCHANGED <<counter, log, sessions, gone, recorded>> /\ counter \in Nat
        /\ DOMAIN result = Runs
    BY DEF Start, ReadBatch, ReadLive, AccountsInv, Accounts, IInv, Shapes
  <1>2. /\ \A q \in Runs \ {r} : run'[q] = run[q]
        /\ run'[r].pc # "idle"
        /\ run'[r].pc = "delete" => run'[r].batch \subseteq DOMAIN log
        /\ run'[r].pc \in {"delete", "deleteLive"} => MayWrite
    <2>1. CASE Start(r)
      <3>1. PICK started : started = [IdleRun EXCEPT !.pc = "read", !.at = now]
        OBVIOUS
      <3>2. started.pc = "read"
        BY <3>1 DEF IdleRun
      <3>3. run' = [run EXCEPT ![r] = started]
        BY <2>1, <3>1 DEF Start
      <3> QED BY <3>2, <3>3 DEF AccountsInv, IInv, Shapes
    <2>2. CASE ReadBatch(r)
      <3>1. PICK batch : batch = Batch(run[r].at)
        OBVIOUS
      <3>2. batch \subseteq DOMAIN log
        BY <3>1, BatchMayGo
      <3>3. /\ run' = [run EXCEPT ![r].batch = batch, ![r].pc = IF batch = {} THEN "readLive" ELSE "delete"]
            /\ MayWrite
        BY <2>2, <3>1 DEF ReadBatch
      <3> QED BY <3>2, <3>3 DEF AccountsInv, IInv, Shapes, RunType
    <2>3. CASE ReadLive(r)
      <3>1. PICK batch : run' = [run EXCEPT ![r].batch = batch, ![r].pc = IF batch = {} THEN "record" ELSE "deleteLive"]
        BY <2>3 DEF ReadLive
      <3>2. MayWrite
        BY <2>3 DEF ReadLive
      <3> QED BY <3>1, <3>2 DEF AccountsInv, IInv, Shapes, RunType
    <2> QED BY <2>1, <2>2, <2>3
  <1>3. DOMAIN result' = Runs /\ \A q \in Runs : result'[q] = result[q]
    BY <1>1 DEF Start, ReadBatch, ReadLive, AccountsInv, Accounts
  <1>4. \A q \in Runs : run'[q].pc = "idle" => result[q] = Nothing
    BY <1>2 DEF AccountsInv, Accounts
  <1>5. \A q \in Runs : run'[q].pc = "delete" => run'[q].batch \subseteq DOMAIN log
    BY <1>2 DEF AccountsInv, Accounts
  <1>6. \A r1, r2 \in Runs : InTransaction(r1)' /\ InTransaction(r2)' => r1 = r2
    BY <1>2 DEF AccountsInv, Accounts, InTransaction, MayWrite
  <1> QED BY <1>1, <1>3, <1>4, <1>5, <1>6, AccountsStay

LEMMA CrashesCount ==
    ASSUME [Next]_vars
    PROVE  fileLock' = fileLock /\ (crashes' = crashes \/ crashes' = crashes + 1)
  <1>1. ASSUME NEW r \in Runs, RunStep(r) PROVE UNCHANGED <<fileLock, crashes>>
    BY <1>1 DEF RunStep, Start, ReadBatch, DeleteBatch, ReadLive, DeleteLive, Record
  <1>2. ASSUME NEW r \in Runs, Fail(r) PROVE fileLock' = fileLock /\ crashes' = crashes + 1
    BY <1>2 DEF Fail
  <1>3. ASSUME UNCHANGED vars PROVE UNCHANGED <<fileLock, crashes>>
    BY <1>3 DEF vars
  <1> QED BY <1>1, <1>2, <1>3 DEF Next, Write, EndSession, Tick

LEMMA AccountsKept == AccountsInv /\ [Next]_vars => AccountsInv'
  <1> SUFFICES ASSUME AccountsInv, [Next]_vars, fileLock', crashes' = 0
               PROVE  Accounts'
    <2>1. AccountsInv /\ [Next]_vars => crashes' \in Nat
      BY CrashesCount DEF AccountsInv
    <2> QED BY <2>1, NextInv DEF AccountsInv
  <1>1. fileLock /\ crashes = 0 /\ \A r \in Runs : ~ Fail(r)
    <2>1. fileLock' = fileLock /\ (crashes' = crashes \/ crashes' = crashes + 1) /\ crashes \in Nat
      BY CrashesCount DEF AccountsInv
    <2>2. ASSUME NEW r \in Runs, Fail(r) PROVE crashes' = crashes + 1
      BY <2>2 DEF Fail
    <2>3. crashes' = 0
      OBVIOUS
    <2>4. fileLock /\ crashes = 0
      BY <2>1, <2>3
    <2> QED BY <2>2, <2>3, <2>4
  <1>2. /\ \A r \in Runs : run[r].pc = "idle" => result[r] = Nothing
        /\ \A r \in Runs : run[r].pc = "delete" => run[r].batch \subseteq DOMAIN log
        /\ \A r1, r2 \in Runs : InTransaction(r1) /\ InTransaction(r2) => r1 = r2
        /\ counter \in Nat /\ DOMAIN result = Runs
    BY <1>1 DEF AccountsInv, Accounts, IInv, Shapes
  <1>3. CASE \E class \in Classes, name \in Names \cup {None}, d \in 0..Skew :
                 d <= now /\ Write(class, name, now - d)
    <2>1. /\ counter' = counter + 1 /\ DOMAIN log' = DOMAIN log \cup {counter + 1}
          /\ UNCHANGED <<sessions, run, result, recorded, gone>>
      BY <1>3 DEF Write, Number
    <2>2. \A r1, r2 \in Runs : InTransaction(r1)' /\ InTransaction(r2)' => r1 = r2
      BY <1>2, <2>1 DEF InTransaction
    <2> QED BY <1>1, <1>2, <2>1, <2>2, AccountsStay
  <1>4. CASE (\E s \in Sessions, d \in 0..Skew : d <= now /\ EndSession(s, now - d)) \/ Tick \/ UNCHANGED vars
    <2>1. UNCHANGED <<counter, log, run, result, recorded, gone>> /\ DOMAIN sessions' = DOMAIN sessions
      BY <1>4 DEF EndSession, Tick, vars
    <2>2. \A r1, r2 \in Runs : InTransaction(r1)' /\ InTransaction(r2)' => r1 = r2
      BY <1>2, <2>1 DEF InTransaction
    <2> QED BY <1>1, <1>2, <2>1, <2>2, AccountsStay
  <1>5. ASSUME NEW r \in Runs, RunStep(r) PROVE Accounts'
    BY <1>1, <1>5, BatchIsCounted, SessionsAreCounted, RecordSettles, RunsStayCounted DEF RunStep
  <1> QED BY <1>1, <1>3, <1>4, <1>5 DEF Next

(* On a database that locks the file, and as long as no run has failed, what *)
(* the records tell adds up to what was deleted, once no run is under way:   *)
(* nothing is counted twice, by however many runs, and nothing is forgotten. *)
THEOREM PurgesAreRecorded == Spec => []DeletionsAreRecorded
  <1>1. ASSUME AccountsInv, fileLock, crashes = 0, \A r \in Runs : run[r].pc = "idle"
        PROVE  /\ recorded.entries = Cardinality(gone.entries)
               /\ recorded.sessions = Cardinality(gone.sessions)
               /\ recorded.highest = Max(gone.entries \cup {0})
    <2>1. \A r \in Runs : result[r].entries = 0 /\ result[r].sessions = 0
      BY <1>1 DEF AccountsInv, Accounts, Nothing
    <2>2. /\ IsFiniteSet(gone.entries) /\ gone.entries \subseteq 1..counter
          /\ IsFiniteSet(gone.sessions) /\ counter \in Nat
      <3>1. counter \in Nat
        BY <1>1 DEF AccountsInv, IInv, Shapes
      <3>2. IsFiniteSet(1..counter)
        BY <3>1, FS_Interval
      <3> QED BY <1>1, <3>1, <3>2, FS_Subset, RetentionAssumption DEF AccountsInv, Accounts
    <2>3. ASSUME NEW all, IsFiniteSet(all), NEW settled, NEW own, Split(all, settled, own),
                 \A r \in Runs : Cardinality(own[r]) = 0
          PROVE  settled = all
      <3>1. \A r \in Runs : own[r] \subseteq all
        BY <2>3 DEF Split
      <3>2. \A r \in Runs : own[r] = {}
        BY <2>3, <3>1, FS_Subset, FS_EmptySet
      <3> QED BY <2>3, <3>2 DEF Split
    <2>4. recorded.entries = Cardinality(gone.entries) /\ IsTop(recorded.highest, gone.entries)
      <3>1. PICK settled, own : EntriesTally(settled, own)
        BY <1>1 DEF AccountsInv, Accounts
      <3>2. Split(gone.entries, settled, own) /\ \A r \in Runs : Cardinality(own[r]) = 0
        BY <2>1, <3>1 DEF EntriesTally
      <3>3. settled = gone.entries
        BY <2>2, <2>3, <3>2
      <3> QED BY <3>1, <3>3 DEF EntriesTally
    <2>5. recorded.sessions = Cardinality(gone.sessions)
      <3>1. PICK settled, own : SessionsTally(settled, own)
        BY <1>1 DEF AccountsInv, Accounts
      <3>2. Split(gone.sessions, settled, own) /\ \A r \in Runs : Cardinality(own[r]) = 0
        BY <2>1, <3>1 DEF SessionsTally
      <3>3. settled = gone.sessions
        BY <2>2, <2>3, <3>2
      <3> QED BY <3>1, <3>3 DEF SessionsTally
    <2>6. recorded.highest = Max(gone.entries \cup {0})
      <3> DEFINE S == gone.entries \cup {0}
      <3>1. S \in SUBSET Nat /\ S # {} /\ \A n \in S : n <= counter
        BY <2>2
      <3>2. recorded.highest \in S /\ \A n \in S : n <= recorded.highest
        <4>1. recorded.highest \in Nat
          BY <1>1 DEF AccountsInv, Accounts, IsResult
        <4> QED BY <2>4, <4>1 DEF IsTop
      <3> HIDE DEF S
      <3>3. Max(S) \in S /\ \A n \in S : n <= Max(S)
        BY <2>2, <3>1, GreatestNumber
      <3>4. Max(S) <= recorded.highest /\ recorded.highest <= Max(S)
        BY <3>2, <3>3
      <3> QED BY <3>1, <3>2, <3>3, <3>4 DEF S
    <2> QED BY <2>4, <2>5, <2>6
  <1>2. AccountsInv => DeletionsAreRecorded
    BY <1>1 DEF DeletionsAreRecorded
  <1> QED BY <1>2, AccountsStart, AccountsKept, PTL DEF Spec

-----------------------------------------------------------------------------
(* Rows, locks and the audit log, on every database.                       *)
RoleRows == {"role"} \X RoleIds
BoundaryRows == {"boundary"} \X Boundaries
Stages == {"idle", "update", "roles", "boundaries", "bastions", "tagged", "delete", "commit"}

StagedOwners(r) == DOMAIN staged[r] \cap Owners

(* The updates of a table are of different rows, none of them written yet. *)
Separate(r, rows) ==
    /\ \A w \in todo[r] : \E row \in rows :
          w.rows = {row} /\ DOMAIN w.values = {row} /\ row \notin DOMAIN staged[r]
    /\ \A w, v \in todo[r] : w # v => w.rows \cap v.rows = {}

InOrder(r) ==
    /\ pc[r] \in Stages
    /\ pc[r] = "idle" => DOMAIN staged[r] = {} /\ locks[r] = {} /\ entries[r] = {}
    /\ pc[r] # "idle" => op[r] \in Ops
    /\ pc[r] # "idle" /\ todo[r] # Unread => \A w \in todo[r] : w.rows \cup DOMAIN w.values \subseteq Rows
    /\ pc[r] = "update" => StagedOwners(r) = {} /\ todo[r] # Unread /\ \E w : todo[r] = {w}
    /\ pc[r] \in {"roles", "boundaries", "bastions", "tagged", "delete"} => op[r].kind = "delete"
    /\ pc[r] \in {"roles", "boundaries", "bastions", "tagged"} => op[r].of \notin Owners
    /\ pc[r] = "roles" => IF todo[r] = Unread THEN StagedOwners(r) = {}
                          ELSE StagedOwners(r) \subseteq RoleRows /\ Separate(r, RoleRows)
    /\ pc[r] = "boundaries" => IF todo[r] = Unread THEN StagedOwners(r) \subseteq RoleRows
                               ELSE Separate(r, BoundaryRows)
    /\ pc[r] \in {"bastions", "tagged"} => op[r].of[1] = "tag" /\ (todo[r] # Unread => \A w \in todo[r] : w.rows \cap Owners = {})
    /\ pc[r] = "delete" => todo[r] = Unread /\ (op[r].of \in Owners => StagedOwners(r) = {})
    /\ pc[r] = "commit" => todo[r] = Unread

Domains ==
    /\ DOMAIN db = Rows
    /\ DOMAIN staged = Requests /\ DOMAIN locks = Requests /\ DOMAIN entries = Requests
    /\ DOMAIN op = Requests /\ DOMAIN caller = Requests /\ DOMAIN pc = Requests /\ DOMAIN todo = Requests
    /\ \A r \in Requests : DOMAIN staged[r] \subseteq Rows

LocksHold ==
    /\ \A r \in Requests : DOMAIN staged[r] \subseteq locks[r]
    /\ \A r1, r2 \in Requests : r1 # r2 => locks[r1] \cap locks[r2] = {}
    /\ \A r \in Requests : \A e \in entries[r] :
          e.row \in locks[r] \cap Owners /\ e.old = db[e.row]

KeysInv == Domains /\ LocksHold /\ \A r \in Requests : InOrder(r)

-----------------------------------------------------------------------------
LEMMA RowShapes ==
    /\ \A row \in Rows : row[1] \in {"tag", "identity", "bastion", "role", "boundary", "tagged", "member"}
    /\ Objects \subseteq Rows /\ Owners \subseteq Rows /\ Owners \subseteq Objects
    /\ RoleRows \subseteq Owners /\ BoundaryRows \subseteq Owners /\ RoleRows \cap BoundaryRows = {}
    /\ Owners = RoleRows \cup BoundaryRows
    /\ \A row \in Objects : row[1] \in {"role", "boundary"} <=> row \in Owners
    /\ \A i \in Identities, t \in Tags : <<"tagged", i, t>> \in Rows
    /\ \A i \in Identities, ro \in RoleIds : <<"member", ro, i>> \in Rows
    /\ \A i \in Identities : <<"identity", i>> \in Rows /\ <<"identity", i>> \notin Owners
    /\ \A b \in Bastions : <<"bastion", b>> \in Rows /\ <<"bastion", b>> \notin Owners
    /\ \A row \in Rows : row[1] \in {"tagged", "member"} => row \notin Owners
  BY DEF Rows, Objects, Owners, RoleRows, BoundaryRows

LEMMA OverDomain ==
    ASSUME NEW f, NEW g
    PROVE  /\ DOMAIN Over(f, g) = DOMAIN f \cup DOMAIN g
           /\ \A x \in DOMAIN f : Over(f, g)[x] = f[x]
           /\ \A x \in DOMAIN g \ DOMAIN f : Over(f, g)[x] = g[x]
  BY DEF Over

LEMMA PutParts ==
    ASSUME NEW row, NEW v
    PROVE  Put(row, v).rows = {row} /\ DOMAIN Put(row, v).values = {row} /\ Put(row, v).values[row] = v
  BY DEF Put, One

LEMMA AskedFor ==
    ASSUME NEW o \in Ops
    PROVE  /\ o.kind \in {"delete", "create", "identity", "grants", "members", "columns", "tags", "visible"}
           /\ o.of \in Objects
           /\ IsAskable(o)
  BY AdminAssumption DEF IsAskable, Objects

LEMMA PlannedRows ==
    ASSUME NEW o \in Ops, o.kind # "delete", NEW c
    PROVE  /\ Planned(o, c).rows = {o.of} /\ o.of \in Rows
           /\ DOMAIN Planned(o, c).values \subseteq Rows
  <1>1. CASE o.kind \in {"create", "grants", "columns", "visible"}
    BY <1>1, AskedFor, PutParts, RowShapes DEF Planned
  <1>2. CASE o.kind = "identity"
    <2>1. o.of \in {"identity"} \X Identities /\ o.tags \subseteq Tags /\ o.of[2] \in Identities
      BY <1>2, AdminAssumption DEF IsAskable
    <2>2. DOMAIN Planned(o, c).values = {o.of} \cup {<<"tagged", o.of[2], t>> : t \in o.tags}
      BY <1>2, OverDomain DEF Planned, One, Over
    <2>3. QED BY <1>2, <2>1, <2>2, RowShapes, AskedFor DEF Planned
  <1>3. CASE o.kind = "members"
    <2>1. o.of \in {"role"} \X RoleIds /\ o.members \subseteq Identities /\ o.of[2] \in RoleIds
      BY <1>3, AdminAssumption DEF IsAskable
    <2>2. DOMAIN Planned(o, c).values = {<<"member", o.of[2], i>> : i \in Changes(Members(o.of[2]), o.members)}
      BY <1>3 DEF Planned
    <2>3. Changes(Members(o.of[2]), o.members) \subseteq Identities
      BY <2>1 DEF Changes, Members
    <2>4. Planned(o, c).rows = {o.of}
      BY <1>3 DEF Planned
    <2>5. QED BY <2>1, <2>2, <2>3, <2>4, RowShapes, AskedFor
  <1>4. CASE o.kind = "tags"
    <2>1. o.of \in {"identity"} \X Identities /\ o.tags \subseteq Tags /\ o.of[2] \in Identities
      BY <1>4, AdminAssumption DEF IsAskable
    <2>2. DOMAIN Planned(o, c).values = {<<"tagged", o.of[2], t>> : t \in Changes(TagsOf(db, o.of[2]), o.tags)}
      BY <1>4 DEF Planned
    <2>3. Changes(TagsOf(db, o.of[2]), o.tags) \subseteq Tags
      BY <2>1 DEF Changes, TagsOf
    <2>4. Planned(o, c).rows = {o.of}
      BY <1>4 DEF Planned
    <2>5. QED BY <2>1, <2>2, <2>3, <2>4, RowShapes, AskedFor
  <1>5. QED BY <1>1, <1>2, <1>3, <1>4, AskedFor

LEMMA NotUnread ==
    ASSUME NEW todos, NEW w \in todos, w.rows # {}
    PROVE  todos # Unread
  BY DEF Unread

LEMMA WrittenRows ==
    ASSUME NEW r, NEW values
    PROVE  DOMAIN Written(r, values) \subseteq DOMAIN values
  BY DEF Written

-----------------------------------------------------------------------------
LEMMA KeysInit == ObjectsInit => KeysInv
  <1>1. DOMAIN NoRows = {}
    BY DEF NoRows
  <1>2. DOMAIN StartDb = Rows
    BY AdminAssumption DEF StartDb, Over
  <1>3. QED
    BY <1>1, <1>2 DEF ObjectsInit, KeysInv, Domains, LocksHold, InOrder, Stages

(* What an update writes and notes. *)
LEMMA UpdateKeeps ==
    ASSUME KeysInv, NEW r \in Requests, NEW w, Update(r, w), UNCHANGED db,
           w.rows \cup DOMAIN w.values \subseteq Rows,
           w.rows \cap Owners \cap DOMAIN staged[r] = {}
    PROVE  /\ DOMAIN staged' = Requests /\ DOMAIN locks' = Requests /\ DOMAIN entries' = Requests
           /\ \A other \in Requests \ {r} :
                staged'[other] = staged[other] /\ locks'[other] = locks[other] /\ entries'[other] = entries[other]
           /\ DOMAIN staged'[r] \subseteq DOMAIN staged[r] \cup DOMAIN w.values
           /\ LocksHold'
           /\ \A x \in Requests : DOMAIN staged'[x] \subseteq Rows
  <1>1. /\ DOMAIN staged' = Requests /\ DOMAIN locks' = Requests /\ DOMAIN entries' = Requests
        /\ \A other \in Requests \ {r} :
             staged'[other] = staged[other] /\ locks'[other] = locks[other] /\ entries'[other] = entries[other]
        /\ staged'[r] = Over(Written(r, w.values), staged[r])
        /\ locks'[r] = locks[r] \cup w.rows \cup DOMAIN w.values
        /\ entries'[r] = entries[r] \cup Audited(r, w.rows)
    BY DEF KeysInv, Domains, Update
  <1>2. DOMAIN staged'[r] \subseteq DOMAIN staged[r] \cup DOMAIN w.values
    BY <1>1, WrittenRows DEF Over
  <1>3. DOMAIN staged'[r] \subseteq locks'[r]
    BY <1>1, <1>2 DEF KeysInv, LocksHold
  <1>4. ASSUME NEW r1 \in Requests, NEW r2 \in Requests, r1 # r2
        PROVE  locks'[r1] \cap locks'[r2] = {}
    BY <1>1, <1>4 DEF KeysInv, LocksHold, Update, IsFree
  <1>5. ASSUME NEW x \in Requests, NEW e \in entries'[x]
        PROVE  e.row \in locks'[x] \cap Owners /\ e.old = db'[e.row]
    <2>1. CASE x # r \/ e \in entries[r]
      BY <1>1, <1>5, <2>1 DEF KeysInv, LocksHold
    <2>2. CASE x = r /\ e \in Audited(r, w.rows)
      <3>1. PICK row \in w.rows \cap Owners : e = [row |-> row, old |-> Read(r, row)]
        BY <2>2 DEF Audited
      <3>2. row \notin DOMAIN staged[r]
        BY <3>1
      <3>3. QED BY <1>1, <2>2, <3>1, <3>2 DEF Read
    <2>3. QED BY <1>1, <1>5, <2>1, <2>2
  <1>6. QED
    BY <1>1, <1>2, <1>3, <1>4, <1>5 DEF KeysInv, LocksHold, Domains

LEMMA OthersInOrder ==
    ASSUME NEW r, InOrder(r), staged'[r] = staged[r], locks'[r] = locks[r], entries'[r] = entries[r],
           pc'[r] = pc[r], op'[r] = op[r], todo'[r] = todo[r]
    PROVE  InOrder(r)'
  BY DEF InOrder, StagedOwners, Separate

LEMMA FinishKeeps ==
    ASSUME KeysInv, NEW r \in Requests, Finish(r),
           UNCHANGED db \/ db' = Over(staged[r], db)
    PROVE  KeysInv'
  <1>1. /\ DOMAIN staged' = Requests /\ DOMAIN locks' = Requests /\ DOMAIN entries' = Requests
        /\ DOMAIN op' = Requests /\ DOMAIN caller' = Requests /\ DOMAIN pc' = Requests /\ DOMAIN todo' = Requests
        /\ \A other \in Requests \ {r} :
             /\ staged'[other] = staged[other] /\ locks'[other] = locks[other] /\ entries'[other] = entries[other]
             /\ pc'[other] = pc[other] /\ op'[other] = op[other] /\ todo'[other] = todo[other]
        /\ pc'[r] = "idle" /\ staged'[r] = NoRows /\ locks'[r] = {} /\ entries'[r] = {}
    BY DEF KeysInv, Domains, Finish
  <1>2. DOMAIN NoRows = {}
    BY DEF NoRows
  <1>3. DOMAIN db' = Rows /\ \A row \in Rows \ DOMAIN staged[r] : db'[row] = db[row]
    BY DEF KeysInv, Domains, Over
  <1>4. Domains'
    BY <1>1, <1>2, <1>3 DEF KeysInv, Domains
  <1>5. LocksHold'
    <2>1. ASSUME NEW x \in Requests, NEW e \in entries'[x]
          PROVE  e.row \in locks'[x] \cap Owners /\ e.old = db'[e.row]
      <3>1. x # r /\ e \in entries[x]
        BY <1>1, <2>1
      <3>2. e.row \in locks[x] \cap Owners /\ e.old = db[e.row] /\ e.row \notin DOMAIN staged[r]
        BY <3>1 DEF KeysInv, LocksHold
      <3>3. QED BY <1>1, <1>3, <3>1, <3>2, RowShapes
    <2>2. QED BY <1>1, <1>2, <2>1 DEF KeysInv, LocksHold
  <1>6. ASSUME NEW x \in Requests PROVE InOrder(x)'
    <2>1. CASE x = r
      BY <1>1, <1>2, <2>1 DEF InOrder, Stages
    <2>2. CASE x # r
      BY <1>1, <2>2, OthersInOrder DEF KeysInv
    <2>3. QED BY <2>1, <2>2
  <1>7. QED BY <1>4, <1>5, <1>6 DEF KeysInv

LEMMA BeginKeeps ==
    ASSUME KeysInv, NEW r \in Requests, NEW o \in Ops, NEW c, NEW active, Begin(r, o, c, active)
    PROVE  KeysInv'
  <1>1. /\ DOMAIN op' = Requests /\ DOMAIN caller' = Requests /\ DOMAIN pc' = Requests /\ DOMAIN todo' = Requests
        /\ \A other \in Requests \ {r} :
             pc'[other] = pc[other] /\ op'[other] = op[other] /\ todo'[other] = todo[other]
        /\ pc'[r] = FirstStage(o) /\ op'[r] = o
        /\ todo'[r] = IF o.kind = "delete" THEN Unread ELSE {Planned(o, c)}
        /\ UNCHANGED <<db, staged, locks, entries>>
        /\ DOMAIN staged[r] = {}
    BY DEF KeysInv, Domains, Begin, InOrder
  <1>2. Domains' /\ LocksHold'
    BY <1>1 DEF KeysInv, Domains, LocksHold
  <1>3. InOrder(r)'
    <2>1. CASE o.kind = "delete"
      <3>1. todo'[r] = Unread /\ pc'[r] = IF o.of[1] \in {"role", "boundary"} THEN "delete" ELSE "roles"
        BY <1>1, <2>1 DEF FirstStage
      <3>2. o.of[1] \in {"role", "boundary"} <=> o.of \in Owners
        BY AskedFor, RowShapes
      <3>3. QED BY <1>1, <2>1, <3>1, <3>2 DEF InOrder, Stages, StagedOwners
    <2>2. CASE o.kind # "delete"
      <3>1. todo'[r] = {Planned(o, c)} /\ pc'[r] = "update"
        BY <1>1, <2>2 DEF FirstStage
      <3>2. todo'[r] # Unread
        BY <2>2, <3>1, PlannedRows, NotUnread
      <3>3. \A w \in todo'[r] : w.rows \cup DOMAIN w.values \subseteq Rows
        BY <2>2, <3>1, PlannedRows
      <3>4. QED BY <1>1, <3>1, <3>2, <3>3 DEF InOrder, Stages, StagedOwners
    <2>3. QED BY <2>1, <2>2
  <1>4. ASSUME NEW x \in Requests, x # r PROVE InOrder(x)'
    BY <1>1, <1>4, OthersInOrder DEF KeysInv
  <1>5. QED BY <1>2, <1>3, <1>4 DEF KeysInv

(* A table that has been read: what a step changes of a request. *)
LEMMA ReadChanges ==
    ASSUME KeysInv, NEW r \in Requests, NEW stage, NEW updates, ReadTable(r, stage, updates)
    PROVE  /\ Domains' /\ LocksHold'
           /\ \A x \in Requests \ {r} : InOrder(x)'
           /\ pc[r] = stage /\ todo[r] = Unread
           /\ staged'[r] = staged[r] /\ locks'[r] = locks[r] /\ entries'[r] = entries[r] /\ op'[r] = op[r]
           /\ updates = {} => todo'[r] = Unread /\ pc'[r] = NextStage(op[r], stage)
           /\ updates # {} => todo'[r] = updates /\ pc'[r] = stage
  <1>1. /\ DOMAIN pc' = Requests /\ DOMAIN todo' = Requests
        /\ \A other \in Requests \ {r} : pc'[other] = pc[other] /\ todo'[other] = todo[other]
        /\ UNCHANGED <<db, staged, locks, entries, op, caller>>
        /\ pc[r] = stage /\ todo[r] = Unread
        /\ todo'[r] = IF updates = {} THEN Unread ELSE updates
        /\ pc'[r] = IF updates = {} THEN NextStage(op[r], pc[r]) ELSE pc[r]
    BY DEF KeysInv, Domains, ReadTable, Proceed
  <1>2. Domains' /\ LocksHold'
    BY <1>1 DEF KeysInv, Domains, LocksHold
  <1>3. ASSUME NEW x \in Requests, x # r PROVE InOrder(x)'
    BY <1>1, <1>3, OthersInOrder DEF KeysInv
  <1>4. QED BY <1>1, <1>2, <1>3

LEMMA OwnerUpdatesSeparate ==
    ASSUME NEW r, NEW owners, owners \subseteq Rows
    PROVE  /\ \A w \in OwnerUpdates(r, owners) : \E row \in owners : w.rows = {row} /\ DOMAIN w.values = {row}
           /\ \A w, v \in OwnerUpdates(r, owners) : w # v => w.rows \cap v.rows = {}
  <1> DEFINE columns(row) == [column \in StaleColumns(op[r], db[row]) |-> Rewritten(op[r], db[row])[column]]
  <1>1. ASSUME NEW w \in OwnerUpdates(r, owners)
        PROVE  \E row \in owners : w = Put(row, columns(row))
    BY DEF OwnerUpdates
  <1> HIDE DEF columns
  <1>2. QED BY <1>1, PutParts

LEMMA ReadKeeps ==
    ASSUME KeysInv, NEW r \in Requests,
           ReadRoles(r) \/ ReadBoundaries(r) \/ ReadBastions(r) \/ ReadTagged(r)
    PROVE  KeysInv'
  <1>1. CASE ReadRoles(r)
    <2>1. ReadTable(r, "roles", RoleUpdates(r))
      BY <1>1 DEF ReadRoles
    <2>2. InOrder(r) /\ pc[r] = "roles" /\ todo[r] = Unread
      BY <2>1, ReadChanges DEF KeysInv
    <2>3. RoleRows \subseteq Rows /\ RoleUpdates(r) = OwnerUpdates(r, RoleRows)
      BY RowShapes DEF RoleUpdates, RoleRows
    <2>4. InOrder(r)'
      <3>1. CASE RoleUpdates(r) = {}
        <4>1. pc'[r] = "boundaries" /\ todo'[r] = Unread
          BY <2>1, <3>1, ReadChanges DEF NextStage
        <4>2. QED BY <2>1, <2>2, <4>1, ReadChanges DEF InOrder, Stages, StagedOwners
      <3>2. CASE RoleUpdates(r) # {}
        <4>1. pc'[r] = "roles" /\ todo'[r] = RoleUpdates(r)
          BY <2>1, <3>2, ReadChanges
        <4>2. \A w \in todo'[r] : \E row \in RoleRows : w.rows = {row} /\ DOMAIN w.values = {row}
          BY <2>3, <4>1, OwnerUpdatesSeparate
        <4>3. \A w, v \in todo'[r] : w # v => w.rows \cap v.rows = {}
          BY <2>3, <4>1, OwnerUpdatesSeparate
        <4>4. todo'[r] # Unread
          BY <3>2, <4>1, <4>2, NotUnread
        <4>5. DOMAIN staged'[r] \cap Owners = {}
          BY <2>1, <2>2, ReadChanges DEF InOrder, StagedOwners
        <4>6. Separate(r, RoleRows)'
          BY <4>2, <4>3, <4>5, RowShapes DEF Separate
        <4>7. QED BY <2>1, <2>2, <2>3, <4>1, <4>2, <4>4, <4>5, <4>6, ReadChanges DEF InOrder, Stages, StagedOwners
      <3>3. QED BY <3>1, <3>2
    <2>5. QED BY <2>1, <2>4, ReadChanges DEF KeysInv
  <1>2. CASE ReadBoundaries(r)
    <2>1. ReadTable(r, "boundaries", BoundaryUpdates(r))
      BY <1>2 DEF ReadBoundaries
    <2>2. InOrder(r) /\ pc[r] = "boundaries" /\ todo[r] = Unread
      BY <2>1, ReadChanges DEF KeysInv
    <2>3. BoundaryRows \subseteq Rows /\ BoundaryUpdates(r) = OwnerUpdates(r, BoundaryRows)
      BY RowShapes DEF BoundaryUpdates, BoundaryRows
    <2>4. InOrder(r)'
      <3>1. CASE BoundaryUpdates(r) = {}
        <4>1. pc'[r] \in {"bastions", "delete"} /\ todo'[r] = Unread /\ (pc'[r] = "bastions" => op[r].of[1] = "tag")
          BY <2>1, <3>1, ReadChanges DEF NextStage
        <4>2. QED BY <2>1, <2>2, <4>1, ReadChanges DEF InOrder, Stages, StagedOwners
      <3>2. CASE BoundaryUpdates(r) # {}
        <4>1. pc'[r] = "boundaries" /\ todo'[r] = BoundaryUpdates(r)
          BY <2>1, <3>2, ReadChanges
        <4>2. \A w \in todo'[r] : \E row \in BoundaryRows : w.rows = {row} /\ DOMAIN w.values = {row}
          BY <2>3, <4>1, OwnerUpdatesSeparate
        <4>3. \A w, v \in todo'[r] : w # v => w.rows \cap v.rows = {}
          BY <2>3, <4>1, OwnerUpdatesSeparate
        <4>4. todo'[r] # Unread
          BY <3>2, <4>1, <4>2, NotUnread
        <4>5. DOMAIN staged'[r] \cap Owners \subseteq RoleRows
          BY <2>1, <2>2, ReadChanges DEF InOrder, StagedOwners
        <4>6. Separate(r, BoundaryRows)'
          BY <4>2, <4>3, <4>5, RowShapes DEF Separate
        <4>7. QED BY <2>1, <2>2, <2>3, <4>1, <4>2, <4>4, <4>6, ReadChanges DEF InOrder, Stages, StagedOwners
      <3>3. QED BY <3>1, <3>2
    <2>5. QED BY <2>1, <2>4, ReadChanges DEF KeysInv
  <1>3. CASE ReadBastions(r)
    <2>1. ReadTable(r, "bastions", BastionUpdates(r))
      BY <1>3 DEF ReadBastions
    <2>2. InOrder(r) /\ pc[r] = "bastions" /\ todo[r] = Unread
      BY <2>1, ReadChanges DEF KeysInv
    <2>3. \A w \in BastionUpdates(r) : \E row \in {"bastion"} \X Bastions : w.rows = {row} /\ DOMAIN w.values = {row}
      <3>1. ASSUME NEW w \in BastionUpdates(r)
            PROVE  \E row \in {"bastion"} \X Bastions : \E v : w = Put(row, v)
        BY DEF BastionUpdates
      <3>2. QED BY <3>1, PutParts
    <2>4. \A w \in BastionUpdates(r) : w.rows \cup DOMAIN w.values \subseteq Rows /\ w.rows \cap Owners = {}
      BY <2>3 DEF Rows, Objects, Owners
    <2>5. pc'[r] \in {"bastions", "tagged"} /\ (todo'[r] = Unread \/ todo'[r] = BastionUpdates(r))
      BY <2>1, ReadChanges DEF NextStage
    <2>6. staged'[r] = staged[r] /\ op'[r] = op[r] /\ locks'[r] = locks[r] /\ entries'[r] = entries[r]
      BY <2>1, ReadChanges
    <2>7. InOrder(r)'
      BY <2>2, <2>4, <2>5, <2>6 DEF InOrder, Stages, StagedOwners
    <2>8. QED BY <2>1, <2>7, ReadChanges DEF KeysInv
  <1>4. CASE ReadTagged(r)
    <2>1. ReadTable(r, "tagged", UntagUpdates(r))
      BY <1>4 DEF ReadTagged
    <2>2. InOrder(r) /\ pc[r] = "tagged" /\ todo[r] = Unread
      BY <2>1, ReadChanges DEF KeysInv
    <2>3. op[r].of \in Objects /\ op[r].of[1] = "tag" /\ op[r].of[2] \in Tags
      <3>1. op[r] \in Ops /\ op[r].of[1] = "tag"
        BY <2>2 DEF InOrder
      <3>2. op[r].of \in Objects
        BY <3>1, AskedFor
      <3>3. QED BY <3>1, <3>2 DEF Objects
    <2>4. \A w \in UntagUpdates(r) : \E i \in Identities :
             w.rows = {<<"identity", i>>} /\ DOMAIN w.values = {<<"tagged", i, op[r].of[2]>>}
      <3>1. ASSUME NEW w \in UntagUpdates(r)
            PROVE  \E i \in Identities :
                      w = [rows |-> {<<"identity", i>>}, values |-> One(<<"tagged", i, op[r].of[2]>>, Null)]
        BY DEF UntagUpdates
      <3>2. ASSUME NEW w \in UntagUpdates(r)
            PROVE  \E i \in Identities :
                      w.rows = {<<"identity", i>>} /\ DOMAIN w.values = {<<"tagged", i, op[r].of[2]>>}
        <4>1. PICK i \in Identities :
                 w = [rows |-> {<<"identity", i>>}, values |-> One(<<"tagged", i, op[r].of[2]>>, Null)]
          BY <3>1
        <4>2. w.rows = {<<"identity", i>>} /\ w.values = One(<<"tagged", i, op[r].of[2]>>, Null)
          BY <4>1
        <4>3. DOMAIN w.values = {<<"tagged", i, op[r].of[2]>>}
          BY <4>2 DEF One
        <4>4. QED BY <4>2, <4>3
      <3>3. QED BY <3>2
    <2>5. \A w \in UntagUpdates(r) : w.rows \cup DOMAIN w.values \subseteq Rows /\ w.rows \cap Owners = {}
      BY <2>3, <2>4, RowShapes
    <2>6. \/ pc'[r] = "tagged" /\ todo'[r] = UntagUpdates(r)
          \/ pc'[r] = "delete" /\ todo'[r] = Unread
      BY <2>1, ReadChanges DEF NextStage
    <2>7. op[r].of \notin Owners
      BY <2>2 DEF InOrder
    <2>8. InOrder(r)'
      BY <2>1, <2>2, <2>5, <2>6, <2>7, ReadChanges DEF InOrder, Stages, StagedOwners
    <2>9. QED BY <2>1, <2>8, ReadChanges DEF KeysInv
  <1>5. QED BY <1>1, <1>2, <1>3, <1>4

LEMMA UpdateOneKeeps ==
    ASSUME KeysInv, NEW r \in Requests, UpdateOne(r)
    PROVE  KeysInv'
  <1>1. PICK w \in todo[r] : Update(r, w) /\ Proceed(r, todo[r] \ {w})
    BY DEF UpdateOne
  <1>2. pc[r] # "idle" /\ todo[r] # Unread /\ InOrder(r) /\ UNCHANGED <<db, op, caller>>
    BY <1>1 DEF UpdateOne, IsOpen, KeysInv, Proceed
  <1>3. pc[r] \in {"update", "roles", "boundaries", "bastions", "tagged"} /\ op[r] \in Ops
    BY <1>2 DEF InOrder, Stages
  <1>4. w.rows \cup DOMAIN w.values \subseteq Rows
    BY <1>2 DEF InOrder
  <1>5. w.rows \cap Owners \cap DOMAIN staged[r] = {}
    BY <1>2, <1>3 DEF InOrder, StagedOwners, Separate
  <1> DEFINE rest == todo[r] \ {w}
  <1>6. /\ DOMAIN pc' = Requests /\ DOMAIN todo' = Requests
        /\ \A other \in Requests \ {r} : pc'[other] = pc[other] /\ todo'[other] = todo[other]
        /\ todo'[r] = IF rest = {} THEN Unread ELSE rest
        /\ pc'[r] = IF rest = {} THEN NextStage(op[r], pc[r]) ELSE pc[r]
    BY <1>1 DEF KeysInv, Domains, Proceed
  <1>7. Domains' /\ LocksHold'
    BY <1>1, <1>2, <1>4, <1>5, <1>6, UpdateKeeps DEF KeysInv, Domains
  <1>8. ASSUME NEW x \in Requests, x # r PROVE InOrder(x)'
    BY <1>1, <1>2, <1>4, <1>5, <1>6, <1>8, UpdateKeeps, OthersInOrder DEF KeysInv
  <1>9. DOMAIN staged'[r] \subseteq DOMAIN staged[r] \cup DOMAIN w.values /\ op'[r] = op[r]
    BY <1>1, <1>2, <1>4, <1>5, UpdateKeeps
  <1>10. InOrder(r)'
    <2>1. CASE pc[r] = "update"
      <3>1. rest = {}
        BY <1>2, <2>1 DEF InOrder
      <3>2. pc'[r] = "commit" /\ todo'[r] = Unread
        BY <1>6, <2>1, <3>1 DEF NextStage
      <3>3. QED BY <1>2, <1>9, <3>2 DEF InOrder, Stages
    <2>2. CASE pc[r] = "roles"
      <3>1. PICK row \in RoleRows : w.rows = {row} /\ DOMAIN w.values = {row}
        BY <1>2, <2>2 DEF InOrder, Separate
      <3>2. DOMAIN staged'[r] \cap Owners \subseteq RoleRows
        BY <1>2, <1>9, <2>2, <3>1 DEF InOrder, StagedOwners
      <3>3. CASE rest = {}
        <4>1. pc'[r] = "boundaries" /\ todo'[r] = Unread
          BY <1>6, <2>2, <3>3 DEF NextStage
        <4>2. QED BY <1>2, <1>9, <2>2, <3>2, <4>1 DEF InOrder, Stages, StagedOwners
      <3>4. CASE rest # {}
        <4>1. pc'[r] = "roles" /\ todo'[r] = rest
          BY <1>6, <2>2, <3>4
        <4>2. \A v \in rest : \E x \in RoleRows : v.rows = {x} /\ DOMAIN v.values = {x} /\ x \notin DOMAIN staged'[r]
          BY <1>2, <1>9, <2>2, <3>1 DEF InOrder, Separate
        <4>3. \A u, v \in rest : u # v => u.rows \cap v.rows = {}
          BY <1>2, <2>2 DEF InOrder, Separate
        <4>4. todo'[r] # Unread
          BY <3>4, <4>1, <4>2, NotUnread
        <4>5. QED BY <1>2, <1>9, <2>2, <3>2, <4>1, <4>2, <4>3, <4>4 DEF InOrder, Stages, StagedOwners, Separate
      <3>5. QED BY <3>3, <3>4
    <2>3. CASE pc[r] = "boundaries"
      <3>1. PICK row \in BoundaryRows : w.rows = {row} /\ DOMAIN w.values = {row}
        BY <1>2, <2>3 DEF InOrder, Separate
      <3>2. CASE rest = {}
        <4>1. pc'[r] \in {"bastions", "delete"} /\ todo'[r] = Unread /\ (pc'[r] = "bastions" => op[r].of[1] = "tag")
          BY <1>6, <2>3, <3>2 DEF NextStage
        <4>2. QED BY <1>2, <1>9, <2>3, <4>1 DEF InOrder, Stages, StagedOwners
      <3>3. CASE rest # {}
        <4>1. pc'[r] = "boundaries" /\ todo'[r] = rest
          BY <1>6, <2>3, <3>3
        <4>2. \A v \in rest : \E x \in BoundaryRows : v.rows = {x} /\ DOMAIN v.values = {x} /\ x \notin DOMAIN staged'[r]
          BY <1>2, <1>9, <2>3, <3>1 DEF InOrder, Separate
        <4>3. \A u, v \in rest : u # v => u.rows \cap v.rows = {}
          BY <1>2, <2>3 DEF InOrder, Separate
        <4>4. todo'[r] # Unread
          BY <3>3, <4>1, <4>2, NotUnread
        <4>5. QED BY <1>2, <1>9, <2>3, <4>1, <4>2, <4>3, <4>4 DEF InOrder, Stages, StagedOwners, Separate
      <3>4. QED BY <3>2, <3>3
    <2>4. CASE pc[r] \in {"bastions", "tagged"}
      <3>1. \/ pc'[r] = pc[r] /\ todo'[r] = rest
            \/ pc[r] = "bastions" /\ pc'[r] = "tagged" /\ todo'[r] = Unread
            \/ pc[r] = "tagged" /\ pc'[r] = "delete" /\ todo'[r] = Unread
        BY <1>6, <2>4 DEF NextStage
      <3>2. \A v \in rest : v.rows \cup DOMAIN v.values \subseteq Rows /\ v.rows \cap Owners = {}
        BY <1>2, <2>4 DEF InOrder
      <3>3. QED BY <1>2, <1>9, <2>4, <3>1, <3>2 DEF InOrder, Stages, StagedOwners
    <2>5. QED BY <1>3, <2>1, <2>2, <2>3, <2>4
  <1>11. QED BY <1>7, <1>8, <1>10 DEF KeysInv

LEMMA DeleteKeeps ==
    ASSUME KeysInv, NEW r \in Requests, DeleteObject(r)
    PROVE  KeysInv'
  <1> DEFINE row == op[r].of
             all == {row} \cup Owned(row)
             w == [rows |-> all, values |-> [x \in all |-> Null]]
  <1>1. pc[r] = "delete" /\ InOrder(r) /\ op[r] \in Ops
    BY DEF DeleteObject, KeysInv, InOrder
  <1>2. CASE Finish(r) /\ UNCHANGED db
    BY <1>2, FinishKeeps
  <1>3. CASE Update(r, w) /\ Proceed(r, {})
    <2>1. w.rows = all /\ DOMAIN w.values = all
      OBVIOUS
    <2>2. all \subseteq Rows /\ all \cap Owners \subseteq {row}
      BY <1>1, AskedFor, RowShapes DEF Owned
    <2>3. w.rows \cup DOMAIN w.values \subseteq Rows /\ w.rows \cap Owners \cap DOMAIN staged[r] = {}
      BY <1>1, <2>1, <2>2 DEF InOrder, StagedOwners
    <2>4. /\ DOMAIN pc' = Requests /\ DOMAIN todo' = Requests
          /\ \A other \in Requests \ {r} : pc'[other] = pc[other] /\ todo'[other] = todo[other]
          /\ todo'[r] = Unread /\ pc'[r] = "commit" /\ UNCHANGED <<db, op, caller>>
      BY <1>1, <1>3 DEF KeysInv, Domains, Proceed, NextStage
    <2>5. Domains' /\ LocksHold'
      BY <1>3, <2>3, <2>4, UpdateKeeps DEF KeysInv, Domains
    <2>6. ASSUME NEW x \in Requests, x # r PROVE InOrder(x)'
      BY <1>3, <2>3, <2>4, <2>6, UpdateKeeps, OthersInOrder DEF KeysInv
    <2>7. InOrder(r)'
      BY <1>1, <2>4 DEF InOrder, Stages
    <2>8. QED BY <2>5, <2>6, <2>7 DEF KeysInv
  <1>4. QED BY <1>2, <1>3 DEF DeleteObject

LEMMA StepKeepsKeys ==
    ASSUME KeysInv, [ObjectsNext]_objectVars
    PROVE  KeysInv'
  <1>1. ASSUME NEW r \in Requests, NEW o \in Ops, NEW c, NEW active, Begin(r, o, c, active)
        PROVE  KeysInv'
    BY <1>1, BeginKeeps
  <1>2. ASSUME NEW r \in Requests, ReadRoles(r) \/ ReadBoundaries(r) \/ ReadBastions(r) \/ ReadTagged(r)
        PROVE  KeysInv'
    BY <1>2, ReadKeeps
  <1>3. ASSUME NEW r \in Requests, UpdateOne(r) PROVE KeysInv'
    BY <1>3, UpdateOneKeeps
  <1>4. ASSUME NEW r \in Requests, DeleteObject(r) PROVE KeysInv'
    BY <1>4, DeleteKeeps
  <1>5. ASSUME NEW r \in Requests, Commit(r) \/ Abort(r) PROVE KeysInv'
    BY <1>5, FinishKeeps DEF Commit, Abort
  <1>6. CASE UNCHANGED objectVars
    <2>1. UNCHANGED <<db, staged, locks, entries, op, caller, pc, todo>>
      BY <1>6 DEF objectVars
    <2>2. Domains' /\ LocksHold'
      BY <2>1 DEF KeysInv, Domains, LocksHold
    <2>3. ASSUME NEW r \in Requests PROVE InOrder(r)'
      BY <2>1, OthersInOrder DEF KeysInv
    <2>4. QED BY <2>2, <2>3 DEF KeysInv
  <1>7. QED BY <1>1, <1>2, <1>3, <1>4, <1>5, <1>6 DEF ObjectsNext, Step

LEMMA KeysHold == ObjectsSpec => []KeysInv
  BY KeysInit, StepKeepsKeys, PTL DEF ObjectsSpec

(* On every database, an entry of the audit log about a role or a boundary   *)
(* gives what the transaction replaced: the row was locked when it was read. *)
THEOREM AuditsTell == ObjectsSpec => AuditTellsWhatWas
  <1>1. KeysInv => \A r \in Requests : Commit(r) => \A e \in entries[r] : e.old = db[e.row]
    BY DEF KeysInv, LocksHold
  <1>2. QED BY <1>1, KeysHold, PTL DEF AuditTellsWhatWas

-----------------------------------------------------------------------------
(* Grants, and what is left of them when an object goes.                   *)
ValuesFit == \A row \in Rows : db[row] \in ValuesOf(row) \cup {Null}

IsReferred(o) == o.kind = "delete" /\ o.of \in Objects /\ o.of[1] \in {"tag", "identity", "bastion"}

LEMMA RoleValues ==
    ASSUME NEW row \in RoleRows
    PROVE  ValuesOf(row) = [grants : SUBSET Grants] /\ row \in Owners /\ row[1] = "role"
  BY DEF RoleRows, ValuesOf, Owners

LEMMA BoundaryValues ==
    ASSUME NEW row \in BoundaryRows
    PROVE  ValuesOf(row) = [denied : SUBSET Grants, ceiling : SUBSET SUBSET Grants] /\ row \in Owners /\ row[1] = "boundary"
  BY DEF BoundaryRows, ValuesOf, Owners

LEMMA OwnerColumns ==
    ASSUME NEW row \in Owners, NEW v \in ValuesOf(row)
    PROVE  /\ row \in RoleRows => DOMAIN v = {"grants"} /\ v["grants"] \in SUBSET Grants
           /\ row \in BoundaryRows => /\ DOMAIN v = {"denied", "ceiling"}
                                      /\ v["denied"] \in SUBSET Grants /\ v["ceiling"] \in SUBSET SUBSET Grants
  <1>1. ASSUME row \in RoleRows PROVE DOMAIN v = {"grants"} /\ v["grants"] \in SUBSET Grants
    <2>1. v \in [grants : SUBSET Grants]
      BY <1>1, RoleValues
    <2>2. QED BY <2>1
  <1>2. ASSUME row \in BoundaryRows
        PROVE  DOMAIN v = {"denied", "ceiling"} /\ v["denied"] \in SUBSET Grants /\ v["ceiling"] \in SUBSET SUBSET Grants
    <2>1. v \in [denied : SUBSET Grants, ceiling : SUBSET SUBSET Grants]
      BY <1>2, BoundaryValues
    <2>2. QED BY <2>1
  <1>3. QED BY <1>1, <1>2

(* The lists of an owner are lists of grants. *)
LEMMA OwnerLists ==
    ASSUME NEW row \in Owners, NEW v \in ValuesOf(row)
    PROVE  /\ ListsOf(v) \subseteq SUBSET Grants
           /\ \A column \in DOMAIN v : ListsIn(v, column) \subseteq SUBSET Grants
  <1>1. \A column \in DOMAIN v : ListsIn(v, column) \subseteq SUBSET Grants
    <2>1. CASE row \in RoleRows
      BY <2>1, OwnerColumns DEF ListsIn
    <2>2. CASE row \in BoundaryRows
      BY <2>2, OwnerColumns DEF ListsIn
    <2>3. QED BY <2>1, <2>2, RowShapes
  <1>2. QED BY <1>1 DEF ListsOf

LEMMA RewriteFits ==
    ASSUME NEW o, IsReferred(o), NEW list \in SUBSET Grants
    PROVE  Rewrite(o, list) \in SUBSET Grants
  <1>1. CASE o.of[1] = "tag"
    <2>1. ASSUME NEW g \in Grants, NEW t
          PROVE  [g EXCEPT !.allow = IF @ = Null THEN Null ELSE @ \ {t}] \in Grants
      BY DEF Grants, SetsOfTags
    <2>2. QED BY <1>1, <2>1 DEF Rewrite, RewriteTag
  <1>2. CASE o.of[1] # "tag"
    BY <1>2 DEF Rewrite, WithoutObject
  <1>3. QED BY <1>1, <1>2

LEMMA RewrittenFits ==
    ASSUME NEW o, IsReferred(o), NEW row \in Owners, NEW v \in ValuesOf(row)
    PROVE  /\ Rewritten(o, v) \in ValuesOf(row)
           /\ DOMAIN Rewritten(o, v) = DOMAIN v
           /\ \A column \in DOMAIN v : ListsIn(Rewritten(o, v), column) = {Rewrite(o, list) : list \in ListsIn(v, column)}
           /\ ListsOf(Rewritten(o, v)) = {Rewrite(o, list) : list \in ListsOf(v)}
  <1>1. /\ DOMAIN Rewritten(o, v) = DOMAIN v
        /\ Rewritten(o, v) = [column \in DOMAIN Rewritten(o, v) |-> Rewritten(o, v)[column]]
        /\ \A column \in DOMAIN v \ {"ceiling"} : Rewritten(o, v)[column] = Rewrite(o, v[column])
        /\ "ceiling" \in DOMAIN v => Rewritten(o, v)["ceiling"] = {Rewrite(o, list) : list \in v["ceiling"]}
    BY DEF Rewritten
  <1>2. \A column \in DOMAIN v : ListsIn(Rewritten(o, v), column) = {Rewrite(o, list) : list \in ListsIn(v, column)}
    <2>1. ASSUME NEW column \in DOMAIN v
          PROVE  ListsIn(Rewritten(o, v), column) = {Rewrite(o, list) : list \in ListsIn(v, column)}
      <3>1. CASE column = "ceiling"
        BY <1>1, <3>1 DEF ListsIn
      <3>2. CASE column # "ceiling"
        BY <1>1, <3>2 DEF ListsIn
      <3>3. QED BY <3>1, <3>2
    <2>2. QED BY <2>1
  <1>3. ListsOf(Rewritten(o, v)) = {Rewrite(o, list) : list \in ListsOf(v)}
    <2> HIDE DEF Rewritten
    <2>1. ASSUME NEW list \in ListsOf(Rewritten(o, v))
          PROVE  list \in {Rewrite(o, l) : l \in ListsOf(v)}
      <3>1. PICK column \in DOMAIN v : list \in ListsIn(Rewritten(o, v), column)
        BY <1>1 DEF ListsOf
      <3>2. PICK l \in ListsIn(v, column) : list = Rewrite(o, l)
        BY <1>2, <3>1
      <3>3. QED BY <3>1, <3>2 DEF ListsOf
    <2>2. ASSUME NEW l \in ListsOf(v)
          PROVE  Rewrite(o, l) \in ListsOf(Rewritten(o, v))
      <3>1. PICK column \in DOMAIN v : l \in ListsIn(v, column)
        BY DEF ListsOf
      <3>2. Rewrite(o, l) \in ListsIn(Rewritten(o, v), column)
        BY <1>2, <3>1
      <3>3. QED BY <1>1, <3>2 DEF ListsOf
    <2>3. QED BY <2>1, <2>2
  <1>4. Rewritten(o, v) \in ValuesOf(row)
    <2>1. CASE row \in RoleRows
      <3>1. Rewritten(o, v)["grants"] \in SUBSET Grants
        BY <1>1, <2>1, OwnerColumns, RewriteFits
      <3>2. DOMAIN Rewritten(o, v) = {"grants"}
        BY <1>1, <2>1, OwnerColumns
      <3> DEFINE f == Rewritten(o, v)
      <3>3. f = [column \in DOMAIN f |-> f[column]] /\ DOMAIN f = {"grants"} /\ f["grants"] \in SUBSET Grants
        BY <1>1, <3>1, <3>2
      <3> HIDE DEF f
      <3>4. f \in [grants : SUBSET Grants]
        BY <3>3
      <3>5. QED BY <2>1, <3>4, RoleValues DEF f
    <2>2. CASE row \in BoundaryRows
      <3>1. Rewritten(o, v)["denied"] \in SUBSET Grants
        BY <1>1, <2>2, OwnerColumns, RewriteFits
      <3>2. Rewritten(o, v)["ceiling"] \in SUBSET SUBSET Grants
        BY <1>1, <2>2, OwnerColumns, RewriteFits
      <3>3. DOMAIN Rewritten(o, v) = {"denied", "ceiling"}
        BY <1>1, <2>2, OwnerColumns
      <3> DEFINE f == Rewritten(o, v)
      <3>4. /\ f = [column \in DOMAIN f |-> f[column]] /\ DOMAIN f = {"denied", "ceiling"}
            /\ f["denied"] \in SUBSET Grants /\ f["ceiling"] \in SUBSET SUBSET Grants
        BY <1>1, <3>1, <3>2, <3>3
      <3> HIDE DEF f
      <3>5. f \in [denied : SUBSET Grants, ceiling : SUBSET SUBSET Grants]
        BY <3>4
      <3>6. QED BY <2>2, <3>5, BoundaryValues DEF f
    <2>3. QED BY <2>1, <2>2, RowShapes
  <1>5. QED BY <1>1, <1>2, <1>3, <1>4

LEMMA NamedObjects ==
    ASSUME NEW list \in SUBSET Grants, NEW x \in Named(list)
    PROVE  x \in Objects /\ x[1] \in {"tag", "identity", "bastion"}
  <1>1. CASE x \in {"tag"} \X Tags
    BY <1>1 DEF Objects
  <1>2. CASE \E g \in list : g.id # Null /\ x = <<g.on, g.id>>
    BY <1>2 DEF Grants, Objects
  <1>3. QED BY <1>1, <1>2 DEF Named

(* What is rewritten does not name what is deleted, and names nothing new. *)
LEMMA RewriteNames ==
    ASSUME NEW o, IsReferred(o), NEW list \in SUBSET Grants, NEW x \in Named(Rewrite(o, list))
    PROVE  x \in Named(list) /\ x # o.of
  <1>1. CASE o.of[1] = "tag"
    <2> DEFINE t == o.of[2]
               cut(g) == [g EXCEPT !.allow = IF @ = Null THEN Null ELSE @ \ {t}]
    <2>0. o.of = <<"tag", t>>
      BY <1>1 DEF IsReferred, Objects
    <2>1. \A g \in Grants : /\ cut(g).on = g.on /\ cut(g).id = g.id /\ cut(g).tags = g.tags
                            /\ \A s : PermissionNames(cut(g), s) => PermissionNames(g, s) /\ s # t
      <3>1. ASSUME NEW g \in Grants
            PROVE  cut(g).on = g.on /\ cut(g).id = g.id /\ cut(g).tags = g.tags
                   /\ cut(g).allow = IF g.allow = Null THEN Null ELSE g.allow \ {t}
        BY DEF Grants
      <3> HIDE DEF cut
      <3>2. QED BY <3>1 DEF PermissionNames
    <2>2. Rewrite(o, list) = {cut(g) : g \in {y \in list : ~FilterNames(y, t) /\ ~TagObjectNames(y, t)}}
      BY <1>1 DEF Rewrite, RewriteTag
    <2> HIDE DEF cut, t
    <2>3. ASSUME NEW g \in list, ~FilterNames(g, t), ~TagObjectNames(g, t), NEW s,
                 References(cut(g), s) \/ TagObjectNames(cut(g), s)
          PROVE  (References(g, s) \/ TagObjectNames(g, s)) /\ s # t
      BY <2>1, <2>3 DEF References, FilterNames, TagObjectNames
    <2>4. CASE x \in {"tag"} \X {s \in Tags : \E g \in Rewrite(o, list) : References(g, s) \/ TagObjectNames(g, s)}
      <3>1. PICK s \in Tags : x = <<"tag", s>> /\ \E g \in Rewrite(o, list) : References(g, s) \/ TagObjectNames(g, s)
        BY <2>4
      <3>2. PICK g \in list : ~FilterNames(g, t) /\ ~TagObjectNames(g, t) /\ (References(cut(g), s) \/ TagObjectNames(cut(g), s))
        BY <2>2, <3>1
      <3>3. (References(g, s) \/ TagObjectNames(g, s)) /\ s # t
        BY <2>3, <3>2
      <3>4. QED BY <2>0, <3>1, <3>3 DEF Named
    <2>5. CASE \E g \in Rewrite(o, list) : g.id # Null /\ x = <<g.on, g.id>>
      <3>1. PICK g \in list : ~TagObjectNames(g, t) /\ cut(g).id # Null /\ x = <<cut(g).on, cut(g).id>>
        BY <2>2, <2>5
      <3>2. g.id # Null /\ x = <<g.on, g.id>>
        BY <2>1, <3>1
      <3>3. x # <<"tag", t>>
        BY <3>1, <3>2 DEF TagObjectNames
      <3>4. QED BY <2>0, <3>2, <3>3 DEF Named
    <2>6. QED BY <2>4, <2>5 DEF Named
  <1>2. CASE o.of[1] # "tag"
    <2>1. Rewrite(o, list) = {g \in list : ~(g.on = o.of[1] /\ g.id = o.of[2])}
      BY <1>2 DEF Rewrite, WithoutObject
    <2>2. x \in Named(list)
      BY <2>1 DEF Named
    <2>3. x # o.of
      <3>1. CASE x \in {"tag"} \X Tags
        BY <1>2, <3>1
      <3>2. CASE \E g \in Rewrite(o, list) : g.id # Null /\ x = <<g.on, g.id>>
        BY <2>1, <3>2
      <3>3. QED BY <3>1, <3>2 DEF Named
    <2>4. QED BY <2>2, <2>3
  <1>3. QED BY <1>1, <1>2

-----------------------------------------------------------------------------
(* What a deletion leaves names what is there.                             *)
(* What a deletion leaves of a row. *)
Gone(o, row) ==
    \/ row = o.of
    \/ row \in Owned(o.of)
    \/ o.of[1] = "tag" /\ row[1] = "tagged" /\ row[3] = o.of[2]

HasTag(value, t) == value.tags # Null /\ t \in value.tags
WithoutTag(value, t) == Over([tags |-> IF value.tags \ {t} = {} THEN Null ELSE value.tags \ {t}], value)

LeftOf(o, row) ==
    IF ~Has(row) \/ Gone(o, row) THEN Null
    ELSE IF row \in Owners /\ o.of \notin Owners THEN Rewritten(o, db[row])
    ELSE IF o.of[1] = "tag" /\ row[1] = "bastion" /\ HasTag(db[row], o.of[2]) THEN WithoutTag(db[row], o.of[2])
    ELSE db[row]

(* What the endpoint has found. *)
Permitted(o, c) ==
    /\ c \in Identities /\ Has(<<"identity", c>>)
    /\ o.kind = "delete" => MayDelete(o.of, c)
    /\ o.kind = "create" => ~Has(o.of)
    /\ o.kind = "identity" => ~Has(o.of) /\ MayCreateIdentity(o.extra, o.tags, c)
    /\ o.kind = "grants" => Has(o.of) /\ Resolves(o.grants)
    /\ o.kind = "members" => Has(o.of) /\ \A i \in o.members : Has(<<"identity", i>>)
    /\ o.kind = "columns" => MaySetBoundary(o.of[2], o.columns, c)
    /\ o.kind = "tags" => Has(o.of) /\ \A t \in o.tags : Has(<<"tag", t>>)
    /\ o.kind = "visible" => Has(o.of)

IsSound == ValuesFit /\ NamesExist(db) /\ Has(<<"identity", Founding>>)

LEMMA SoundFits ==
    ASSUME ValuesFit, NEW row \in Rows, Has(row)
    PROVE  db[row] \in ValuesOf(row)
  BY DEF ValuesFit, Has

LEMMA DeletesObjects ==
    ASSUME NEW o \in Ops, o.kind = "delete"
    PROVE  /\ o.of \in Objects /\ o.of \in Rows
           /\ o.of[1] \in {"tag", "identity", "bastion", "role", "boundary"}
           /\ o.of \in Owners <=> o.of[1] \in {"role", "boundary"}
           /\ o.of \notin Owners => IsReferred(o)
  <1>1. o.of \in Objects
    BY AskedFor
  <1>2. o.of[1] \in {"tag", "identity", "bastion", "role", "boundary"}
    BY <1>1 DEF Objects
  <1>3. QED BY <1>1, <1>2, RowShapes DEF IsReferred

LEMMA DeleteChecks ==
    ASSUME NEW row, NEW c, MayDelete(row, c)
    PROVE  /\ Has(row)
           /\ row[1] = "tag" => ~(IsIdentityTagged(row[2]) /\ IsReferenced(row[2]))
           /\ row[1] = "identity" => row[2] # c /\ row[2] # Founding
           /\ row[1] = "role" => Members(row[2]) = {}
           /\ row[1] = "boundary" => \A i \in Identities : Has(<<"identity", i>>) => row[2] \notin BoundsOf(i)
  BY DEF MayDelete

LEMMA BastionWithoutTag ==
    ASSUME NEW v \in [tags : SetsOfTags], NEW t, HasTag(v, t)
    PROVE  WithoutTag(v, t) \in [tags : SetsOfTags]
  <1> DEFINE left == IF v.tags \ {t} = {} THEN Null ELSE v.tags \ {t}
             f == WithoutTag(v, t)
  <1>1. left \in SetsOfTags
    <2>1. v.tags \in (SUBSET Tags) \cup {Null} /\ v.tags # Null
      BY DEF SetsOfTags, HasTag
    <2>2. v.tags \ {t} \in SUBSET Tags
      BY <2>1
    <2>3. QED BY <2>2 DEF SetsOfTags
  <1>2. f = Over([tags |-> left], v)
    BY DEF WithoutTag
  <1> HIDE DEF left
  <1>3. f = [column \in DOMAIN f |-> f[column]] /\ DOMAIN f = {"tags"} /\ f["tags"] = left
    BY <1>2 DEF Over
  <1> HIDE DEF f
  <1>4. f \in [tags : SetsOfTags]
    BY <1>1, <1>3
  <1>5. QED BY <1>4 DEF f

LEMMA LeftFits ==
    ASSUME ValuesFit, NEW o \in Ops, o.kind = "delete", NEW row \in Rows
    PROVE  /\ LeftOf(o, row) \in ValuesOf(row) \cup {Null}
           /\ LeftOf(o, row) # Null <=> Has(row) /\ ~Gone(o, row)
  <1>0. Null \notin ValuesOf(row)
    BY AdminAssumption
  <1>1. CASE ~Has(row) \/ Gone(o, row)
    BY <1>1 DEF LeftOf
  <1>2. CASE Has(row) /\ ~Gone(o, row)
    <2>1. db[row] \in ValuesOf(row)
      BY <1>2, SoundFits
    <2>2. CASE row \in Owners /\ o.of \notin Owners
      <3>1. Rewritten(o, db[row]) \in ValuesOf(row)
        BY <2>1, <2>2, DeletesObjects, RewrittenFits
      <3>2. QED BY <1>0, <1>2, <2>2, <3>1 DEF LeftOf
    <2>3. CASE ~(row \in Owners /\ o.of \notin Owners) /\ o.of[1] = "tag" /\ row[1] = "bastion" /\ HasTag(db[row], o.of[2])
      <3>1. ValuesOf(row) = [tags : SetsOfTags]
        BY <2>3 DEF ValuesOf
      <3>2. WithoutTag(db[row], o.of[2]) \in ValuesOf(row)
        BY <2>1, <2>3, <3>1, BastionWithoutTag
      <3>3. QED BY <1>0, <1>2, <2>3, <3>2 DEF LeftOf
    <2>4. CASE ~(row \in Owners /\ o.of \notin Owners) /\ ~(o.of[1] = "tag" /\ row[1] = "bastion" /\ HasTag(db[row], o.of[2]))
      BY <1>0, <1>2, <2>1, <2>4 DEF LeftOf
    <2>5. QED BY <2>2, <2>3, <2>4
  <1>3. QED BY <1>1, <1>2

LEMMA GoneRows ==
    ASSUME NEW o \in Ops, o.kind = "delete"
    PROVE  \A row \in Rows : row[1] \in {"tag", "identity", "bastion", "role", "boundary"} =>
              (Gone(o, row) <=> row = o.of)
  BY DEF Gone, Owned

LEMMA DeletionKeepsNames ==
    ASSUME IsSound, NEW o \in Ops, o.kind = "delete", NEW c, Permitted(o, c),
           \A row \in Rows : db'[row] = LeftOf(o, row)
    PROVE  IsSound'
  <1>0. /\ ValuesFit /\ NamesExist(db) /\ Has(<<"identity", Founding>>) /\ MayDelete(o.of, c)
        /\ c \in Identities /\ Has(<<"identity", c>>) /\ Founding \in Identities
    BY AdminAssumption DEF IsSound, Permitted
  <1>1. ValuesFit'
    BY <1>0, LeftFits DEF ValuesFit
  <1>2. \A row \in Rows : db'[row] # Null <=> Has(row) /\ ~Gone(o, row)
    BY <1>0, LeftFits
  <1>3. o.of \in Objects /\ o.of \in Rows /\ (o.of \notin Owners => IsReferred(o))
        /\ o.of[1] \in {"tag", "identity", "bastion", "role", "boundary"}
        /\ (o.of \in Owners <=> o.of[1] \in {"role", "boundary"})
    BY DeletesObjects
  <1>4. ASSUME NEW i \in Identities
        PROVE  /\ db'[<<"identity", i>>] # Null <=> Has(<<"identity", i>>) /\ <<"identity", i>> # o.of
               /\ db'[<<"identity", i>>] # Null => db'[<<"identity", i>>] = db[<<"identity", i>>]
    <2>1. <<"identity", i>> \in Rows /\ <<"identity", i>>[1] = "identity" /\ <<"identity", i>> \notin Owners
      BY RowShapes
    <2>2. QED BY <1>2, <2>1, GoneRows DEF LeftOf
  <1>5. ASSUME NEW i \in Identities, NEW t \in Tags, db'[<<"tagged", i, t>>] # Null
        PROVE  db'[<<"identity", i>>] # Null /\ db'[<<"tag", t>>] # Null
    <2>1. <<"tagged", i, t>> \in Rows /\ <<"tag", t>> \in Rows /\ <<"identity", i>> \in Rows
      BY RowShapes DEF Rows, Objects
    <2>2. Has(<<"tagged", i, t>>) /\ ~Gone(o, <<"tagged", i, t>>)
      BY <1>2, <1>5, <2>1
    <2>3. Has(<<"identity", i>>) /\ Has(<<"tag", t>>)
      BY <1>0, <2>2 DEF NamesExist, Has
    <2>4. <<"identity", i>> # o.of
      BY <2>1, <2>2 DEF Gone, Owned
    <2>5. <<"tag", t>> # o.of
      BY <2>1, <2>2 DEF Gone
    <2>6. QED BY <1>2, <1>4, <2>1, <2>3, <2>4, <2>5, GoneRows
  <1>6. ASSUME NEW ro \in RoleIds, NEW i \in Identities, db'[<<"member", ro, i>>] # Null
        PROVE  db'[<<"role", ro>>] # Null /\ db'[<<"identity", i>>] # Null
    <2>1. <<"member", ro, i>> \in Rows /\ <<"role", ro>> \in Rows /\ <<"identity", i>> \in Rows
      BY RowShapes DEF Rows, Objects
    <2>2. Has(<<"member", ro, i>>) /\ ~Gone(o, <<"member", ro, i>>)
      BY <1>2, <1>6, <2>1
    <2>3. Has(<<"identity", i>>) /\ Has(<<"role", ro>>)
      BY <1>0, <2>2 DEF NamesExist, Has
    <2>4. <<"identity", i>> # o.of
      BY <2>1, <2>2 DEF Gone, Owned
    <2>5. <<"role", ro>> # o.of
      <3>1. i \in Members(ro)
        BY <2>2 DEF Members
      <3>2. QED BY <1>0, <3>1, DeleteChecks
    <2>6. QED BY <1>2, <1>4, <2>1, <2>3, <2>4, <2>5, GoneRows
  <1>7. ASSUME NEW row \in Owners, db'[row] # Null, NEW list \in ListsOf(db'[row]), NEW x \in Named(list), x[1] # "bastion"
        PROVE  db'[x] # Null
    <2>1. row \in Rows /\ Has(row) /\ ~Gone(o, row) /\ db[row] \in ValuesOf(row)
      BY <1>0, <1>2, <1>7, RowShapes, SoundFits
    <2>2. ListsOf(db[row]) \subseteq SUBSET Grants
      BY <2>1, OwnerLists
    <2>3. \E l \in ListsOf(db[row]) : x \in Named(l) /\ x # o.of
      <3>1. CASE o.of \notin Owners
        <4>1. db'[row] = Rewritten(o, db[row])
          BY <2>1, <3>1 DEF LeftOf
        <4>2. PICK l \in ListsOf(db[row]) : list = Rewrite(o, l)
          BY <1>3, <1>7, <2>1, <3>1, <4>1, RewrittenFits
        <4>3. QED BY <1>3, <1>7, <2>2, <3>1, <4>2, RewriteNames
      <3>2. CASE o.of \in Owners
        <4>1. db'[row] = db[row]
          BY <1>3, <2>1, <3>2 DEF LeftOf
        <4>2. list \in SUBSET Grants /\ x[1] \in {"tag", "identity", "bastion"}
          BY <1>7, <2>2, <4>1, NamedObjects
        <4>3. QED BY <1>3, <1>7, <3>2, <4>1, <4>2
      <3>3. QED BY <3>1, <3>2
    <2>4. PICK l \in ListsOf(db[row]) : x \in Named(l) /\ x # o.of
      BY <2>3
    <2>5. x \in Objects /\ x[1] \in {"tag", "identity", "bastion"} /\ Has(x)
      BY <1>0, <1>7, <2>1, <2>2, <2>4, NamedObjects DEF NamesExist, Has
    <2>6. x \in Rows /\ ~Gone(o, x)
      BY <2>4, <2>5, GoneRows, RowShapes
    <2>7. QED BY <1>2, <2>5, <2>6
  <1>8. Has(<<"identity", Founding>>)'
    <2>1. <<"identity", Founding>> # o.of
      BY <1>0, DeleteChecks
    <2>2. QED BY <1>0, <1>4, <2>1 DEF Has
  <1>9. ASSUME NEW b \in db'[<<"identity", Founding>>].boundaries
        PROVE  /\ db'[<<"boundary", b>>] # Null
               /\ \A i \in Identities : db'[<<"identity", i>>] # Null => b \in db'[<<"identity", i>>].boundaries
    <2>1. b \in db[<<"identity", Founding>>].boundaries
      BY <1>0, <1>4, <1>8, <1>9 DEF Has
    <2>2. Has(<<"boundary", b>>) /\ \A i \in Identities : Has(<<"identity", i>>) => b \in db[<<"identity", i>>].boundaries
      BY <1>0, <2>1 DEF NamesExist, Has
    <2>3. <<"boundary", b>> # o.of
      BY <1>0, <2>1, DeleteChecks DEF BoundsOf
    <2>4. <<"boundary", b>> \in Rows
      <3>1. db[<<"identity", Founding>>] \in [boundaries : SUBSET Boundaries]
        <4>1. ValuesOf(<<"identity", Founding>>) = [boundaries : SUBSET Boundaries]
          BY DEF ValuesOf
        <4>2. QED BY <1>0, <4>1, SoundFits, RowShapes
      <3>2. QED BY <2>1, <3>1 DEF Rows, Objects
    <2>5. QED BY <1>2, <1>4, <2>2, <2>3, <2>4, GoneRows
  <1>10. NamesExist(db')
    BY <1>5, <1>6, <1>7, <1>9 DEF NamesExist
  <1>11. QED BY <1>1, <1>8, <1>10 DEF IsSound

-----------------------------------------------------------------------------
(* What a deletion leaves reaches the same.                                *)
Stay == {x \in Rows : db[x] # Null /\ db'[x] # Null}

(* What one grant reaches. *)
ReachOf(g, d, world) == Reach({g}, d, world)

LEMMA ReachParts ==
    ASSUME NEW grants, NEW d, NEW world
    PROVE  Reach(grants, d, world) = UNION {ReachOf(g, d, world) : g \in grants}
  BY DEF Reach, ReachOf

(* A grant reaches the same if it asks for the same and the tags are the same. *)
LEMMA SameGrantReach ==
    ASSUME NEW g, NEW h, NEW d, NEW e, NEW world,
           g.on = h.on, g.id = h.id, g.tags = h.tags,
           g.allow = h.allow \/ /\ g.allow # Null /\ h.allow # Null
                                /\ g.allow \cap {t \in Tags : <<"tag", t>> \in world} = h.allow \cap {t \in Tags : <<"tag", t>> \in world},
           \A i \in Identities : <<"identity", i>> \in world => (Matches(g, d, i) <=> Matches(h, e, i))
    PROVE  ReachOf(g, d, world) = ReachOf(h, e, world)
  <1> DEFINE people == {i \in Identities : <<"identity", i>> \in world}
             labels == {t \in Tags : <<"tag", t>> \in world}
             objects(k) == {row \in world : row[1] = k.on /\ k.on # "identity" /\ k.id \in {Null, row[2]}}
             matched(k, b) == {i \in people : k.on = "identity" /\ Matches(k, b, i)}
             tags(k) == IF k.allow = Null THEN labels ELSE k.allow \cap labels
             all(k, b) == objects(k) \cup ({"identity"} \X matched(k, b)) \cup ({"identity"} \X matched(k, b) \X tags(k))
  <1>1. \A k, b : ReachOf(k, b, world) = all(k, b)
    BY DEF ReachOf, Reach
  <1>2. objects(g) = objects(h) /\ tags(g) = tags(h)
    OBVIOUS
  <1>3. \A i \in people : Matches(g, d, i) <=> Matches(h, e, i)
    OBVIOUS
  <1>4. matched(g, d) = matched(h, e)
    BY <1>3
  <1> HIDE DEF objects, matched, tags
  <1>5. QED BY <1>1, <1>2, <1>4

LEMMA SameReach ==
    ASSUME NEW list, NEW d, NEW e, NEW world,
           \A i \in Identities : <<"identity", i>> \in world => TagsOf(d, i) = TagsOf(e, i)
    PROVE  Reach(list, d, world) = Reach(list, e, world)
  <1>1. ASSUME NEW g PROVE ReachOf(g, d, world) = ReachOf(g, e, world)
    <2>1. \A i \in Identities : <<"identity", i>> \in world => (Matches(g, d, i) <=> Matches(g, e, i))
      BY DEF Matches
    <2>2. QED BY <2>1, SameGrantReach
  <1>2. {ReachOf(g, d, world) : g \in list} = {ReachOf(g, e, world) : g \in list}
    BY <1>1
  <1>3. QED BY <1>2, ReachParts

(* A grant about an object that has gone, or that matches nobody, reaches nothing. *)
LEMMA ReachesNothing ==
    ASSUME NEW g \in Grants, NEW d, NEW world \in SUBSET Rows,
           \/ g.id # Null /\ <<g.on, g.id>> \notin world
           \/ g.on = "identity" /\ \A i \in Identities : <<"identity", i>> \in world => ~Matches(g, d, i)
    PROVE  ReachOf(g, d, world) = {}
  <1> DEFINE people == {i \in Identities : <<"identity", i>> \in world}
             labels == {t \in Tags : <<"tag", t>> \in world}
             objects == {row \in world : row[1] = g.on /\ g.on # "identity" /\ g.id \in {Null, row[2]}}
             matched == {i \in people : g.on = "identity" /\ Matches(g, d, i)}
             tags == IF g.allow = Null THEN labels ELSE g.allow \cap labels
  <1>1. ReachOf(g, d, world) = objects \cup ({"identity"} \X matched) \cup ({"identity"} \X matched \X tags)
    BY DEF ReachOf, Reach
  <1>2. g.on \in {"identity", "tag", "bastion"}
    BY DEF Grants
  <1>3. objects = {}
    <2>1. ASSUME NEW row \in world, row[1] = g.on, g.on # "identity", g.id \in {Null, row[2]}
          PROVE  FALSE
      <3>1. row \in Rows /\ row[1] \in {"tag", "bastion"}
        BY <1>2, <2>1
      <3>2. row = <<row[1], row[2]>>
        BY <3>1 DEF Rows, Objects
      <3>3. QED BY <2>1, <3>2
    <2>2. QED BY <2>1
  <1>4. matched = {}
    BY DEF Matches
  <1> HIDE DEF matched, tags, objects
  <1>5. QED BY <1>1, <1>3, <1>4

LEMMA RewriteReaches ==
    ASSUME ValuesFit, NEW o \in Ops, o.kind = "delete", o.of \notin Owners, NEW c, MayDelete(o.of, c),
           \A row \in Rows : db'[row] = LeftOf(o, row),
           NEW row \in Owners, Has(row), NEW list \in ListsOf(db[row])
    PROVE  Reach(Rewrite(o, list), db', Stay) = Reach(list, db, Stay)
  <1>0. IsReferred(o) /\ o.of \in Rows
    BY DeletesObjects
  <1>1. list \in SUBSET Grants
    BY OwnerLists, SoundFits, RowShapes
  <1>2. o.of \notin Stay /\ Stay \in SUBSET Rows
    BY <1>0 DEF Stay, LeftOf, Gone
  <1>3. \A x \in Rows : db'[x] # Null <=> Has(x) /\ ~Gone(o, x)
    BY LeftFits
  <1>4. CASE o.of[1] # "tag"
    <2>1. Rewrite(o, list) = {g \in list : ~(g.on = o.of[1] /\ g.id = o.of[2])}
      BY <1>4 DEF Rewrite, WithoutObject
    <2>2. ASSUME NEW g \in list \ Rewrite(o, list)
          PROVE  ReachOf(g, db, Stay) = {}
      <3>1. g \in Grants /\ g.on = o.of[1] /\ g.id = o.of[2] /\ <<g.on, g.id>> = o.of
        BY <1>0, <1>1, <2>1, <2>2 DEF IsReferred, Objects
      <3>2. g.id # Null
        <4>1. o.of[2] \in Tags \cup Identities \cup Bastions
          BY <1>0 DEF IsReferred, Objects
        <4>2. QED BY <3>1, <4>1, AdminAssumption
      <3>3. QED BY <1>2, <3>1, <3>2, ReachesNothing
    <2>3. Reach(list, db, Stay) = Reach(Rewrite(o, list), db, Stay)
      <3>1. Rewrite(o, list) \subseteq list
        BY <2>1
      <3>2. UNION {ReachOf(g, db, Stay) : g \in Rewrite(o, list)} = UNION {ReachOf(g, db, Stay) : g \in list}
        BY <2>2, <3>1
      <3>3. QED BY <3>2, ReachParts
    <2>4. ASSUME NEW i \in Identities, <<"identity", i>> \in Stay
          PROVE  TagsOf(db', i) = TagsOf(db, i)
      <3>1. <<"identity", i>> # o.of
        BY <1>2, <2>4
      <3>2. \A t \in Tags : <<"tagged", i, t>> \in Rows /\ ~Gone(o, <<"tagged", i, t>>)
        BY <1>0, <1>4, <3>1, RowShapes DEF Gone, Owned, IsReferred, Objects
      <3>3. QED BY <1>3, <3>2 DEF TagsOf, Has
    <2>5. QED BY <2>3, <2>4, SameReach
  <1>5. CASE o.of[1] = "tag"
    <2> DEFINE t == o.of[2]
               cut(g) == [g EXCEPT !.allow = IF @ = Null THEN Null ELSE @ \ {t}]
               kept == {g \in list : ~FilterNames(g, t) /\ ~TagObjectNames(g, t)}
    <2>1. o.of = <<"tag", t>> /\ t \in Tags
      BY <1>0, <1>5 DEF IsReferred, Objects
    <2>2. Rewrite(o, list) = {cut(g) : g \in kept}
      BY <1>5 DEF Rewrite, RewriteTag
    <2>3. ASSUME NEW g \in Grants
          PROVE  /\ cut(g).on = g.on /\ cut(g).id = g.id /\ cut(g).tags = g.tags
                 /\ cut(g).allow = IF g.allow = Null THEN Null ELSE g.allow \ {t}
                 /\ g.allow \in (SUBSET Tags) \cup {Null}
      BY DEF Grants, SetsOfTags
    <2> HIDE DEF cut, t
    <2>4. ASSUME NEW i \in Identities, <<"identity", i>> \in Stay
          PROVE  TagsOf(db', i) = TagsOf(db, i) \ {t}
      <3>1. \A s \in Tags : <<"tagged", i, s>> \in Rows /\ (Gone(o, <<"tagged", i, s>>) <=> s = t)
        BY <1>5, <2>1, RowShapes DEF Gone, Owned
      <3>2. QED BY <1>3, <3>1 DEF TagsOf, Has
    <2>5. \/ \A i \in Identities : t \notin TagsOf(db, i)
          \/ \A g \in list : ~References(g, t)
      <3>1. ~(IsIdentityTagged(t) /\ IsReferenced(t))
        BY <1>5, DeleteChecks DEF t
      <3>2. CASE ~IsIdentityTagged(t)
        BY <3>2 DEF IsIdentityTagged, TagsOf, Has
      <3>3. CASE ~IsReferenced(t)
        BY <3>3 DEF IsReferenced
      <3>4. QED BY <3>1, <3>2, <3>3
    <2>6. ASSUME NEW g \in list \ kept
          PROVE  ReachOf(g, db, Stay) = {}
      <3>1. g \in Grants
        BY <1>1
      <3>2. CASE TagObjectNames(g, t)
        <4>1. g.id # Null /\ <<g.on, g.id>> = o.of
          BY <2>1, <3>2, AdminAssumption DEF TagObjectNames
        <4>2. QED BY <1>2, <3>1, <4>1, ReachesNothing
      <3>3. CASE FilterNames(g, t)
        <4>1. g.on = "identity"
          BY <3>1, <3>3 DEF FilterNames, Grants
        <4>2. \A i \in Identities : t \notin TagsOf(db, i)
          BY <2>5, <3>3 DEF References
        <4>3. \A i \in Identities : ~Matches(g, db, i)
          BY <3>3, <4>2 DEF Matches, FilterNames
        <4>4. QED BY <1>2, <3>1, <4>1, <4>3, ReachesNothing
      <3>4. QED BY <2>6, <3>2, <3>3
    <2>7. ASSUME NEW g \in kept
          PROVE  ReachOf(cut(g), db', Stay) = ReachOf(g, db, Stay)
      <3>1. g \in Grants /\ g \in list /\ ~FilterNames(g, t)
        BY <1>1
      <3>2. \A s \in Tags : <<"tag", s>> \in Stay => s # t
        BY <1>2, <2>1
      <3>3. cut(g).allow = g.allow
              \/ /\ cut(g).allow # Null /\ g.allow # Null
                 /\ cut(g).allow \cap {s \in Tags : <<"tag", s>> \in Stay} = g.allow \cap {s \in Tags : <<"tag", s>> \in Stay}
        <4>1. CASE g.allow = Null
          BY <2>3, <3>1, <4>1
        <4>2. CASE g.allow # Null
          <5>1. cut(g).allow = g.allow \ {t} /\ g.allow \in SUBSET Tags
            BY <2>3, <3>1, <4>2
          <5>2. g.allow \ {t} \in SUBSET Tags
            BY <5>1
          <5>3. cut(g).allow # Null
            BY <5>1, <5>2, AdminAssumption
          <5>4. QED BY <3>2, <4>2, <5>1, <5>3
        <4>3. QED BY <4>1, <4>2
      <3>4. \A i \in Identities : <<"identity", i>> \in Stay => (Matches(cut(g), db', i) <=> Matches(g, db, i))
        BY <2>3, <2>4, <3>1 DEF Matches, FilterNames
      <3>5. cut(g).on = g.on /\ cut(g).id = g.id /\ cut(g).tags = g.tags
        BY <2>3, <3>1
      <3> DEFINE h == cut(g)
      <3> HIDE DEF h
      <3>6. ReachOf(h, db', Stay) = ReachOf(g, db, Stay)
        BY <3>3, <3>4, <3>5, SameGrantReach DEF h
      <3>7. QED BY <3>6 DEF h
    <2> HIDE DEF kept
    <2>8. Reach(Rewrite(o, list), db', Stay) = UNION {ReachOf(g, db, Stay) : g \in kept}
      <3>1. {ReachOf(h, db', Stay) : h \in {cut(g) : g \in kept}} = {ReachOf(g, db, Stay) : g \in kept}
        BY <2>7
      <3> DEFINE cuts == {cut(g) : g \in kept}
      <3>2. Reach(cuts, db', Stay) = UNION {ReachOf(h, db', Stay) : h \in cuts}
        BY ReachParts
      <3>3. QED BY <2>2, <3>1, <3>2
    <2>9. kept \subseteq list
      BY DEF kept
    <2>10. UNION {ReachOf(g, db, Stay) : g \in kept} = UNION {ReachOf(g, db, Stay) : g \in list}
      BY <2>6, <2>9
    <2>11. QED BY <2>8, <2>10, ReachParts
  <1>6. QED BY <1>4, <1>5

-----------------------------------------------------------------------------
(* Nobody gains or loses by a deletion.                                    *)
(* The commit leaves the permissions of others alone, unless it edits them. *)
KeepsPermissions(o, c) ==
    /\ \A row \in Owners : Has(row) /\ db'[row] # Null =>
          \A column \in DOMAIN db[row] :
             \/ IsAsWide(row, column)
             \/ o.of = row /\ (row[1] = "boundary" => row[2] \notin BoundsOf(c))
             \/ o.kind = "tags"
    /\ \A b \in BoundsOf(c) : Has(<<"boundary", b>>) => db'[<<"boundary", b>>] # Null
    /\ \A i \in Identities : ~Has(<<"identity", i>>) /\ db'[<<"identity", i>>] # Null
          => BoundsOf(c) \subseteq db'[<<"identity", i>>].boundaries

(* What an endpoint other than delete leaves of a row. *)
Edited(o, c, row) ==
    IF row \notin DOMAIN Planned(o, c).values THEN db[row]
    ELSE IF row[1] \in {"role", "boundary", "bastion"} /\ o.kind # "create"
         THEN Over(Planned(o, c).values[row], db[row])
    ELSE Planned(o, c).values[row]

LEMMA IdentityBounds ==
    ASSUME ValuesFit, NEW i \in Identities, Has(<<"identity", i>>)
    PROVE  BoundsOf(i) \subseteq Boundaries
  <1>1. ValuesOf(<<"identity", i>>) = [boundaries : SUBSET Boundaries]
    BY DEF ValuesOf
  <1> DEFINE v == db[<<"identity", i>>]
  <1>2. v \in [boundaries : SUBSET Boundaries]
    BY <1>1, SoundFits, RowShapes
  <1>3. BoundsOf(i) = v.boundaries
    BY DEF BoundsOf
  <1> HIDE DEF v
  <1>4. QED BY <1>2, <1>3

(* Rows whose lists stay, among objects whose tags stay. *)
LEMMA SameLists ==
    ASSUME NEW row, NEW column, ListsIn(db'[row], column) = ListsIn(db[row], column),
           \A i \in Identities : <<"identity", i>> \in Stay => TagsOf(db', i) = TagsOf(db, i)
    PROVE  IsAsWide(row, column)
  <1>1. \A list : Reach(list, db', Stay) = Reach(list, db, Stay)
    BY SameReach
  <1>2. {Reach(list, db', Stay) : list \in ListsIn(db'[row], column)} = {Reach(list, db, Stay) : list \in ListsIn(db[row], column)}
    BY <1>1
  <1>3. QED BY <1>2 DEF IsAsWide, Stay

LEMMA DeletionKeepsPermissions ==
    ASSUME IsSound, NEW o \in Ops, o.kind = "delete", NEW c, Permitted(o, c),
           \A row \in Rows : db'[row] = LeftOf(o, row)
    PROVE  KeepsPermissions(o, c)
  <1>0. ValuesFit /\ MayDelete(o.of, c) /\ c \in Identities /\ Has(<<"identity", c>>)
    BY DEF IsSound, Permitted
  <1>1. \A row \in Rows : db'[row] # Null <=> Has(row) /\ ~Gone(o, row)
    BY <1>0, LeftFits
  <1>2. ASSUME NEW row \in Owners, Has(row), db'[row] # Null, NEW column \in DOMAIN db[row]
        PROVE  IsAsWide(row, column)
    <2>1. row \in Rows /\ db[row] \in ValuesOf(row) /\ ~Gone(o, row)
      BY <1>0, <1>1, <1>2, RowShapes, SoundFits
    <2>2. CASE o.of \notin Owners
      <3>1. db'[row] = Rewritten(o, db[row])
        BY <1>2, <2>1, <2>2 DEF LeftOf
      <3>2. ListsIn(db'[row], column) = {Rewrite(o, list) : list \in ListsIn(db[row], column)}
        BY <1>2, <2>1, <2>2, <3>1, DeletesObjects, RewrittenFits
      <3>3. ListsIn(db[row], column) \subseteq ListsOf(db[row])
        BY <1>2 DEF ListsOf
      <3>4. \A list \in ListsIn(db[row], column) : Reach(Rewrite(o, list), db', Stay) = Reach(list, db, Stay)
        BY <1>0, <1>2, <2>2, <3>3, RewriteReaches
      <3>5. {Reach(list, db', Stay) : list \in ListsIn(db'[row], column)} = {Reach(list, db, Stay) : list \in ListsIn(db[row], column)}
        BY <3>2, <3>4
      <3>6. QED BY <3>5 DEF IsAsWide, Stay
    <2>3. CASE o.of \in Owners
      <3>1. db'[row] = db[row]
        BY <1>2, <2>1, <2>3, DeletesObjects DEF LeftOf
      <3>2. ASSUME NEW i \in Identities, NEW t \in Tags
            PROVE  ~Gone(o, <<"tagged", i, t>>)
        <4>1. o.of[1] \in {"role", "boundary"}
          BY <2>3, DeletesObjects
        <4>2. <<"tagged", i, t>> # o.of
          BY <4>1
        <4>3. QED BY <4>1, <4>2 DEF Gone, Owned
      <3>3. ASSUME NEW i \in Identities
            PROVE  TagsOf(db', i) = TagsOf(db, i)
        <4>1. \A t \in Tags : db'[<<"tagged", i, t>>] # Null <=> db[<<"tagged", i, t>>] # Null
          BY <1>1, <3>2, RowShapes DEF Has
        <4>2. QED BY <4>1 DEF TagsOf
      <3>4. ListsIn(db'[row], column) = ListsIn(db[row], column)
        BY <3>1
      <3>5. QED BY <3>3, <3>4, SameLists
    <2>4. QED BY <2>2, <2>3
  <1>3. ASSUME NEW b \in BoundsOf(c), Has(<<"boundary", b>>)
        PROVE  db'[<<"boundary", b>>] # Null
    <2>1. b \in Boundaries
      BY <1>0, IdentityBounds
    <2>2. <<"boundary", b>> \in Rows
      BY <2>1 DEF Rows, Objects
    <2>3. <<"boundary", b>> # o.of
      BY <1>0, DeleteChecks
    <2>4. QED BY <1>1, <1>3, <2>2, <2>3, GoneRows
  <1>4. ASSUME NEW i \in Identities, ~Has(<<"identity", i>>)
        PROVE  db'[<<"identity", i>>] = Null
    BY <1>1, <1>4, RowShapes
  <1>5. QED BY <1>2, <1>3, <1>4 DEF KeepsPermissions

-----------------------------------------------------------------------------
(* Edits that take no object away.                                         *)
(* An edit that takes no object away, and names what is there. *)
LEMMA EditKeepsNames ==
    ASSUME IsSound, ValuesFit',
           \A x \in Objects : Has(x) => db'[x] # Null,
           \A i \in Identities, t \in Tags : db'[<<"tagged", i, t>>] # Null =>
              Has(<<"tagged", i, t>>) \/ (db'[<<"identity", i>>] # Null /\ db'[<<"tag", t>>] # Null),
           \A ro \in RoleIds, i \in Identities : db'[<<"member", ro, i>>] # Null =>
              Has(<<"member", ro, i>>) \/ (db'[<<"role", ro>>] # Null /\ db'[<<"identity", i>>] # Null),
           \A row \in Owners : db'[row] # Null =>
              \A list \in ListsOf(db'[row]) : Resolves(list) \/ (Has(row) /\ list \in ListsOf(db[row])),
           \A i \in Identities : db'[<<"identity", i>>] # Null =>
              \/ Has(<<"identity", i>>) /\ db'[<<"identity", i>>] = db[<<"identity", i>>]
              \/ \E c \in Identities : /\ Has(<<"identity", c>>) /\ ~Has(<<"identity", i>>)
                                       /\ BoundsOf(c) \subseteq db'[<<"identity", i>>].boundaries
    PROVE  IsSound'
  <1>0. /\ ValuesFit /\ NamesExist(db) /\ Has(<<"identity", Founding>>) /\ Founding \in Identities
        /\ Owners \subseteq Rows
    BY AdminAssumption, RowShapes DEF IsSound
  <1>1. /\ \A i \in Identities : <<"identity", i>> \in Objects
        /\ \A t \in Tags : <<"tag", t>> \in Objects
        /\ \A ro \in RoleIds : <<"role", ro>> \in Objects
    BY DEF Objects
  <1>2. ASSUME NEW i \in Identities, NEW t \in Tags, db'[<<"tagged", i, t>>] # Null
        PROVE  db'[<<"identity", i>>] # Null /\ db'[<<"tag", t>>] # Null
    <2>1. Has(<<"tagged", i, t>>) => Has(<<"identity", i>>) /\ Has(<<"tag", t>>)
      BY <1>0 DEF NamesExist, Has
    <2>2. QED BY <1>1, <1>2, <2>1
  <1>3. ASSUME NEW ro \in RoleIds, NEW i \in Identities, db'[<<"member", ro, i>>] # Null
        PROVE  db'[<<"role", ro>>] # Null /\ db'[<<"identity", i>>] # Null
    <2>1. Has(<<"member", ro, i>>) => Has(<<"role", ro>>) /\ Has(<<"identity", i>>)
      BY <1>0 DEF NamesExist, Has
    <2>2. QED BY <1>1, <1>3, <2>1
  <1>4. ASSUME NEW row \in Owners, db'[row] # Null, NEW list \in ListsOf(db'[row]), NEW x \in Named(list), x[1] # "bastion"
        PROVE  db'[x] # Null
    <2>1. db'[row] \in ValuesOf(row)
      BY <1>0, <1>4 DEF ValuesFit
    <2>2. list \in SUBSET Grants
      BY <1>4, <2>1, OwnerLists
    <2>3. Has(x)
      <3>1. CASE Resolves(list)
        BY <1>4, <3>1 DEF Resolves
      <3>2. CASE Has(row) /\ list \in ListsOf(db[row])
        BY <1>0, <1>4, <3>2 DEF NamesExist, Has
      <3>3. QED BY <1>4, <3>1, <3>2
    <2>4. QED BY <1>4, <2>2, <2>3, NamedObjects
  <1>5. db'[<<"identity", Founding>>] = db[<<"identity", Founding>>] /\ db'[<<"identity", Founding>>] # Null
    BY <1>0, <1>1 DEF Has
  <1>6. ASSUME NEW b \in db'[<<"identity", Founding>>].boundaries
        PROVE  /\ db'[<<"boundary", b>>] # Null
               /\ \A i \in Identities : db'[<<"identity", i>>] # Null => b \in db'[<<"identity", i>>].boundaries
    <2>1. b \in BoundsOf(Founding)
      BY <1>5, <1>6 DEF BoundsOf
    <2>2. Has(<<"boundary", b>>) /\ \A i \in Identities : Has(<<"identity", i>>) => b \in BoundsOf(i)
      BY <1>0, <2>1 DEF NamesExist, Has, BoundsOf
    <2>3. <<"boundary", b>> \in Objects
      BY <1>0, <2>1, IdentityBounds DEF Objects
    <2>4. ASSUME NEW i \in Identities, db'[<<"identity", i>>] # Null
          PROVE  b \in db'[<<"identity", i>>].boundaries
      BY <2>2, <2>4 DEF BoundsOf
    <2>5. QED BY <2>2, <2>3, <2>4
  <1>7. NamesExist(db')
    BY <1>2, <1>3, <1>4, <1>6 DEF NamesExist
  <1>8. QED BY <1>5, <1>7 DEF IsSound, Has

(* An edit that changes no list but those of `row`, and no tags of those who stay. *)
LEMMA EditKeepsPermissions ==
    ASSUME ValuesFit, NEW o, NEW c \in Identities, Has(<<"identity", c>>),
           \A x \in Objects : Has(x) => db'[x] # Null,
           \A row \in Owners \ {o.of} : Has(row) => db'[row] = db[row],
           o.of \in Owners => ~Has(o.of) \/ (o.of[1] = "boundary" => o.of[2] \notin BoundsOf(c)),
           o.kind = "tags" \/ \A i \in Identities : Has(<<"identity", i>>) => TagsOf(db', i) = TagsOf(db, i),
           \A i \in Identities : ~Has(<<"identity", i>>) /\ db'[<<"identity", i>>] # Null
              => BoundsOf(c) \subseteq db'[<<"identity", i>>].boundaries
    PROVE  KeepsPermissions(o, c)
  <1>1. ASSUME NEW row \in Owners, Has(row), db'[row] # Null, NEW column \in DOMAIN db[row], o.kind # "tags", row # o.of
        PROVE  IsAsWide(row, column)
    <2>1. ListsIn(db'[row], column) = ListsIn(db[row], column)
      BY <1>1
    <2>2. \A i \in Identities : <<"identity", i>> \in Stay => TagsOf(db', i) = TagsOf(db, i)
      BY <1>1 DEF Stay, Has
    <2>3. QED BY <2>1, <2>2, SameLists
  <1>2. ASSUME NEW b \in BoundsOf(c), Has(<<"boundary", b>>)
        PROVE  db'[<<"boundary", b>>] # Null
    <2>1. <<"boundary", b>> \in Objects
      BY IdentityBounds DEF Objects
    <2>2. QED BY <1>2, <2>1
  <1>3. QED BY <1>1, <1>2 DEF KeepsPermissions

-----------------------------------------------------------------------------
(* The edits of one row.                                                   *)
(* An edit of one row that is not an identity. *)
LEMMA OneRowKeeps ==
    ASSUME IsSound, NEW o \in Ops, NEW c, Permitted(o, c), o.of[1] # "identity",
           \A row \in Rows \ {o.of} : db'[row] = db[row],
           db'[o.of] \in ValuesOf(o.of),
           o.of \in Owners => \A list \in ListsOf(db'[o.of]) :
              Resolves(list) \/ (Has(o.of) /\ list \in ListsOf(db[o.of])),
           o.of \in Owners => ~Has(o.of) \/ (o.of[1] = "boundary" => o.of[2] \notin BoundsOf(c))
    PROVE  IsSound' /\ KeepsPermissions(o, c)
  <1>0. /\ ValuesFit /\ c \in Identities /\ Has(<<"identity", c>>)
        /\ o.of \in Objects /\ o.of \in Rows /\ Owners \subseteq Rows
    BY AskedFor, RowShapes DEF IsSound, Permitted
  <1>1. db'[o.of] # Null
    BY <1>0, AdminAssumption
  <1>2. ASSUME NEW i \in Identities
        PROVE  db'[<<"identity", i>>] = db[<<"identity", i>>]
    <2>1. <<"identity", i>> # o.of
      OBVIOUS
    <2>2. QED BY <2>1, RowShapes
  <1>3. ASSUME NEW row \in Rows, row[1] \in {"tagged", "member"}
        PROVE  db'[row] = db[row]
    <2>1. row # o.of
      BY <1>0, <1>3 DEF Objects
    <2>2. QED BY <2>1
  <1>4. ValuesFit'
    BY <1>0 DEF ValuesFit
  <1>5. \A x \in Objects : Has(x) => db'[x] # Null
    BY <1>1, RowShapes DEF Has
  <1>6. \A i \in Identities, t \in Tags : db'[<<"tagged", i, t>>] = db[<<"tagged", i, t>>]
    BY <1>3, RowShapes
  <1>7. \A ro \in RoleIds, i \in Identities : db'[<<"member", ro, i>>] = db[<<"member", ro, i>>]
    BY <1>3, RowShapes
  <1>8. IsSound'
    <2>1. \A row \in Owners : db'[row] # Null =>
             \A list \in ListsOf(db'[row]) : Resolves(list) \/ (Has(row) /\ list \in ListsOf(db[row]))
      <3>1. ASSUME NEW row \in Owners, row # o.of
            PROVE  db'[row] = db[row]
        BY <1>0, <3>1
      <3>2. QED BY <3>1 DEF Has
    <2>2. \A i \in Identities : db'[<<"identity", i>>] # Null =>
             Has(<<"identity", i>>) /\ db'[<<"identity", i>>] = db[<<"identity", i>>]
      BY <1>2 DEF Has
    <2>3. \A i \in Identities, t \in Tags : db'[<<"tagged", i, t>>] # Null => Has(<<"tagged", i, t>>)
      BY <1>6 DEF Has
    <2>4. \A ro \in RoleIds, i \in Identities : db'[<<"member", ro, i>>] # Null => Has(<<"member", ro, i>>)
      BY <1>7 DEF Has
    <2>5. QED BY <1>4, <1>5, <2>1, <2>2, <2>3, <2>4, EditKeepsNames
  <1>9. KeepsPermissions(o, c)
    <2>1. \A row \in Owners \ {o.of} : Has(row) => db'[row] = db[row]
      BY <1>0
    <2>2. \A i \in Identities : TagsOf(db', i) = TagsOf(db, i)
      BY <1>6 DEF TagsOf
    <2>3. \A i \in Identities : ~Has(<<"identity", i>>) => db'[<<"identity", i>>] = Null
      BY <1>2 DEF Has
    <2>4. QED BY <1>0, <1>5, <2>1, <2>2, <2>3, EditKeepsPermissions
  <1>10. QED BY <1>8, <1>9

LEMMA PlannedPut ==
    ASSUME NEW o, NEW c, NEW v, Planned(o, c) = Put(o.of, v),
           o.of \in Rows, \A row \in Rows : db'[row] = Edited(o, c, row)
    PROVE  /\ \A row \in Rows \ {o.of} : db'[row] = db[row]
           /\ o.kind = "create" => db'[o.of] = v
           /\ o.of[1] \in {"role", "boundary", "bastion"} /\ o.kind # "create" => db'[o.of] = Over(v, db[o.of])
  BY PutParts DEF Edited

LEMMA NothingResolves == Resolves({})
  BY DEF Resolves, Named

LEMMA CreateKeeps ==
    ASSUME IsSound, NEW o \in Ops, o.kind = "create", NEW c, Permitted(o, c),
           \A row \in Rows : db'[row] = Edited(o, c, row)
    PROVE  IsSound' /\ KeepsPermissions(o, c)
  <1>0. /\ o.of \in Objects /\ o.of \in Rows /\ o.of[1] # "identity" /\ o.value \in FreshValues(o.of) /\ ~Has(o.of)
    BY AskedFor, RowShapes DEF IsAskable, Permitted
  <1>1. Planned(o, c) = Put(o.of, o.value)
    BY DEF Planned
  <1> DEFINE v == o.value
  <1> HIDE DEF v
  <1>2. db'[o.of] = v /\ \A row \in Rows \ {o.of} : db'[row] = db[row]
    BY <1>0, <1>1, PlannedPut DEF v
  <1>3. o.of[1] \in {"tag", "bastion", "role", "boundary"}
    BY <1>0 DEF Objects
  <1>4. o.value \in ValuesOf(o.of) /\ (o.of \in Owners => \A list \in ListsOf(o.value) : Resolves(list))
    <2>1. CASE o.of[1] = "role"
      <3>1. o.value = [grants |-> {}]
        BY <1>0, <2>1 DEF FreshValues
      <3>2. ListsOf(o.value) = {{}}
        BY <3>1 DEF ListsOf, ListsIn
      <3>3. ValuesOf(o.of) = [grants : SUBSET Grants]
        BY <2>1 DEF ValuesOf
      <3>4. QED BY <3>1, <3>2, <3>3, NothingResolves
    <2>2. CASE o.of[1] = "boundary"
      <3>1. o.value = [denied |-> {}, ceiling |-> {}]
        BY <1>0, <2>2 DEF FreshValues
      <3>2. ListsOf(o.value) \subseteq {{}}
        BY <3>1 DEF ListsOf, ListsIn
      <3>3. ValuesOf(o.of) = [denied : SUBSET Grants, ceiling : SUBSET SUBSET Grants]
        BY <2>2 DEF ValuesOf
      <3>4. QED BY <3>1, <3>2, <3>3, NothingResolves
    <2>3. CASE o.of[1] \in {"tag", "bastion"}
      <3>1. o.value \in ValuesOf(o.of)
        BY <1>0, <2>3 DEF FreshValues
      <3>2. o.of \notin Owners
        BY <2>3 DEF Owners
      <3>3. QED BY <3>1, <3>2
    <2>4. QED BY <1>3, <2>1, <2>2, <2>3
  <1>5. QED BY <1>0, <1>2, <1>4, OneRowKeeps DEF v

LEMMA SetGrantsKeeps ==
    ASSUME IsSound, NEW o \in Ops, o.kind = "grants", NEW c, Permitted(o, c),
           \A row \in Rows : db'[row] = Edited(o, c, row)
    PROVE  IsSound' /\ KeepsPermissions(o, c)
  <1>0. /\ o.of \in RoleRows /\ o.of \in Rows /\ o.grants \in SUBSET Grants /\ Has(o.of) /\ Resolves(o.grants) /\ ValuesFit
    BY AskedFor, RowShapes DEF IsAskable, Permitted, RoleRows, IsSound
  <1>1. o.of[1] = "role" /\ ValuesOf(o.of) = [grants : SUBSET Grants]
    BY <1>0, RoleValues
  <1>2. Planned(o, c) = Put(o.of, [grants |-> o.grants])
    BY DEF Planned
  <1>3. /\ db'[o.of] = Over([grants |-> o.grants], db[o.of])
        /\ \A row \in Rows \ {o.of} : db'[row] = db[row]
    BY <1>0, <1>1, <1>2, PlannedPut
  <1>4. db[o.of] \in [grants : SUBSET Grants]
    BY <1>0, <1>1, SoundFits
  <1> DEFINE f == db'[o.of]
  <1>5. f = [column \in DOMAIN f |-> f[column]] /\ DOMAIN f = {"grants"} /\ f["grants"] = o.grants
    BY <1>3, <1>4 DEF Over
  <1> HIDE DEF f
  <1>6. f \in [grants : SUBSET Grants] /\ ListsOf(f) = {o.grants}
    BY <1>0, <1>5 DEF ListsOf, ListsIn
  <1>7. QED BY <1>0, <1>1, <1>3, <1>6, OneRowKeeps DEF f

LEMMA SetBastionKeeps ==
    ASSUME IsSound, NEW o \in Ops, o.kind = "visible", NEW c, Permitted(o, c),
           \A row \in Rows : db'[row] = Edited(o, c, row)
    PROVE  IsSound' /\ KeepsPermissions(o, c)
  <1>0. /\ o.of \in {"bastion"} \X Bastions /\ o.of \in Rows /\ o.tags \in SetsOfTags /\ Has(o.of) /\ ValuesFit
    BY AskedFor, RowShapes DEF IsAskable, Permitted, IsSound
  <1>1. o.of[1] = "bastion" /\ ValuesOf(o.of) = [tags : SetsOfTags] /\ o.of \notin Owners
    BY <1>0 DEF ValuesOf, Owners
  <1>2. Planned(o, c) = Put(o.of, [tags |-> o.tags])
    BY DEF Planned
  <1> DEFINE v == [tags |-> o.tags]
  <1> HIDE DEF v
  <1>3. /\ db'[o.of] = Over(v, db[o.of])
        /\ \A row \in Rows \ {o.of} : db'[row] = db[row]
    BY <1>0, <1>1, <1>2, PlannedPut DEF v
  <1>4. db[o.of] \in [tags : SetsOfTags]
    BY <1>0, <1>1, SoundFits
  <1> USE DEF v
  <1> DEFINE f == db'[o.of]
  <1>5. f = [column \in DOMAIN f |-> f[column]] /\ DOMAIN f = {"tags"} /\ f["tags"] = o.tags
    BY <1>3, <1>4 DEF Over
  <1> HIDE DEF f
  <1>6. f \in [tags : SetsOfTags]
    BY <1>0, <1>5
  <1>7. QED BY <1>0, <1>1, <1>3, <1>6, OneRowKeeps DEF f

LEMMA SetBoundaryKeeps ==
    ASSUME IsSound, NEW o \in Ops, o.kind = "columns", NEW c, Permitted(o, c),
           \A row \in Rows : db'[row] = Edited(o, c, row)
    PROVE  IsSound' /\ KeepsPermissions(o, c)
  <1> DEFINE cs == o.columns
  <1>0. /\ o.of \in BoundaryRows /\ o.of \in Rows /\ IsColumns(cs) /\ ValuesFit
        /\ MaySetBoundary(o.of[2], cs, c)
    BY AskedFor, RowShapes DEF IsAskable, Permitted, BoundaryRows, IsSound
  <1>1. /\ o.of[1] = "boundary" /\ ValuesOf(o.of) = [denied : SUBSET Grants, ceiling : SUBSET SUBSET Grants]
        /\ o.of = <<"boundary", o.of[2]>>
    <2>1. o.of[1] = "boundary" /\ o.of = <<"boundary", o.of[2]>>
      BY <1>0 DEF BoundaryRows
    <2>2. QED BY <1>0, <2>1, BoundaryValues
  <1>2. /\ Has(o.of) /\ o.of[2] \notin BoundsOf(c)
        /\ \A column \in DOMAIN cs : \A list \in ListsIn(cs, column) : Resolves(list)
    BY <1>0, <1>1 DEF MaySetBoundary
  <1>3. Planned(o, c) = Put(o.of, cs)
    BY DEF Planned
  <1>4. /\ db'[o.of] = Over(cs, db[o.of])
        /\ \A row \in Rows \ {o.of} : db'[row] = db[row]
    <2>1. PICK put : put = o.columns
      OBVIOUS
    <2>2. Planned(o, c) = Put(o.of, put) /\ o.of \in Rows
      BY <1>0, <1>3, <2>1
    <2>3. /\ \A row \in Rows \ {o.of} : db'[row] = db[row]
          /\ o.of[1] \in {"role", "boundary", "bastion"} /\ o.kind # "create" => db'[o.of] = Over(put, db[o.of])
      BY <2>2, PlannedPut
    <2> QED BY <1>1, <2>1, <2>3
  <1> DEFINE f == db'[o.of]
             v == db[o.of]
  <1>5. v \in [denied : SUBSET Grants, ceiling : SUBSET SUBSET Grants]
    BY <1>0, <1>1, <1>2, SoundFits
  <1>6. f = Over(cs, v)
    BY <1>4
  <1> HIDE DEF f, v, cs
  <1>7. /\ f = [column \in DOMAIN f |-> f[column]] /\ DOMAIN f = DOMAIN cs \cup DOMAIN v
        /\ \A column \in DOMAIN f : f[column] = IF column \in DOMAIN cs THEN cs[column] ELSE v[column]
    BY <1>6 DEF Over
  <1>8. DOMAIN v = {"denied", "ceiling"} /\ v["denied"] \in SUBSET Grants /\ v["ceiling"] \in SUBSET SUBSET Grants
    BY <1>5
  <1>9. /\ DOMAIN cs \subseteq {"denied", "ceiling"}
        /\ "denied" \in DOMAIN cs => cs["denied"] \in SUBSET Grants
        /\ "ceiling" \in DOMAIN cs => cs["ceiling"] \in SUBSET SUBSET Grants
    BY <1>0 DEF IsColumns
  <1>10. DOMAIN f = {"denied", "ceiling"} /\ f["denied"] \in SUBSET Grants /\ f["ceiling"] \in SUBSET SUBSET Grants
    BY <1>7, <1>8, <1>9
  <1>11. f \in [denied : SUBSET Grants, ceiling : SUBSET SUBSET Grants]
    BY <1>7, <1>10
  <1>12. ASSUME NEW list \in ListsOf(f)
         PROVE  Resolves(list) \/ list \in ListsOf(v)
    <2>1. PICK column \in DOMAIN f : list \in ListsIn(f, column)
      BY DEF ListsOf
    <2>2. CASE column \in DOMAIN cs
      <3>1. list \in ListsIn(cs, column)
        BY <1>7, <1>10, <2>1, <2>2 DEF ListsIn
      <3>2. QED BY <1>2, <2>2, <3>1
    <2>3. CASE column \notin DOMAIN cs
      <3>1. list \in ListsIn(v, column) /\ column \in DOMAIN v
        BY <1>7, <1>8, <1>10, <2>1, <2>3 DEF ListsIn
      <3>2. QED BY <3>1 DEF ListsOf
    <2>4. QED BY <2>2, <2>3
  <1>13. QED BY <1>0, <1>1, <1>2, <1>4, <1>11, <1>12, OneRowKeeps DEF f, v

-----------------------------------------------------------------------------
(* New identities, members and tags.                                       *)
LEMMA NewIdentityKeeps ==
    ASSUME IsSound, NEW o \in Ops, o.kind = "identity", NEW c, Permitted(o, c),
           \A row \in Rows : db'[row] = Edited(o, c, row)
    PROVE  IsSound' /\ KeepsPermissions(o, c)
  <1> DEFINE j == o.of[2]
             label(t) == <<"tagged", j, t>>
             bounds == BoundsOfNew(c, o.extra)
  <1>0. /\ o.of \in {"identity"} \X Identities /\ o.extra \subseteq Boundaries /\ o.tags \subseteq Tags
        /\ ValuesFit /\ c \in Identities /\ Has(<<"identity", c>>)
        /\ ~Has(o.of) /\ MayCreateIdentity(o.extra, o.tags, c)
    BY AskedFor DEF IsAskable, Permitted, IsSound
  <1>1. o.of = <<"identity", j>> /\ j \in Identities /\ \A t \in o.tags : Has(<<"tag", t>>)
    BY <1>0 DEF MayCreateIdentity
  <1>2. bounds \in SUBSET Boundaries /\ BoundsOf(c) \subseteq bounds
    BY <1>0, IdentityBounds DEF BoundsOfNew
  <1> HIDE DEF j, bounds
  <1>3. Planned(o, c).values = Over(One(o.of, [boundaries |-> bounds]), [row \in {label(t) : t \in o.tags} |-> There])
    BY DEF Planned, bounds, j
  <1>4. \A t \in o.tags : label(t) # o.of
    BY <1>1
  <1>5. /\ DOMAIN Planned(o, c).values = {o.of} \cup {label(t) : t \in o.tags}
        /\ Planned(o, c).values[o.of] = [boundaries |-> bounds]
        /\ \A t \in o.tags : Planned(o, c).values[label(t)] = There
    BY <1>3, <1>4 DEF Over, One
  <1>6. \A row \in Rows : row # o.of /\ (\A t \in o.tags : row # label(t)) => db'[row] = db[row]
    BY <1>5 DEF Edited
  <1>7. db'[o.of] = [boundaries |-> bounds]
    BY <1>1, <1>5, RowShapes DEF Edited
  <1>8. \A t \in o.tags : db'[label(t)] = There
    <2>1. ASSUME NEW t \in o.tags
          PROVE  db'[label(t)] = There
      <3>1. label(t) \in Rows /\ label(t)[1] = "tagged" /\ label(t) \in DOMAIN Planned(o, c).values
        BY <1>0, <1>1, <1>5, RowShapes
      <3>2. QED BY <1>5, <3>1 DEF Edited
    <2>2. QED BY <2>1
  <1>9. /\ ValuesOf(o.of) = [boundaries : SUBSET Boundaries]
        /\ \A t \in Tags : ValuesOf(label(t)) = {There}
    <2>1. o.of[1] = "identity" /\ \A t \in Tags : label(t)[1] = "tagged"
      BY <1>1
    <2>2. ValuesOf(o.of) = [boundaries : SUBSET Boundaries]
      BY <2>1 DEF ValuesOf
    <2>3. \A t \in Tags : ValuesOf(label(t)) = {There}
      BY <2>1 DEF ValuesOf
    <2>4. QED BY <2>2, <2>3
  <1>10. db'[o.of] \in ValuesOf(o.of) /\ db'[o.of] # Null /\ db'[o.of].boundaries = bounds
    <2>1. db'[o.of] \in ValuesOf(o.of) /\ db'[o.of].boundaries = bounds
      BY <1>2, <1>7, <1>9
    <2>2. QED BY <1>1, <2>1, AdminAssumption, RowShapes
  <1>11. ValuesFit'
    <2>1. ASSUME NEW row \in Rows
          PROVE  db'[row] \in ValuesOf(row) \cup {Null}
      <3>1. CASE row = o.of
        BY <1>10, <3>1
      <3>2. CASE \E t \in o.tags : row = label(t)
        BY <1>0, <1>8, <1>9, <3>2
      <3>3. CASE row # o.of /\ \A t \in o.tags : row # label(t)
        BY <1>0, <1>6, <3>3 DEF ValuesFit
      <3>4. QED BY <3>1, <3>2, <3>3
    <2>2. QED BY <2>1 DEF ValuesFit
  <1>12. ASSUME NEW x \in Objects, x # o.of
         PROVE  db'[x] = db[x]
    <2>1. \A t \in o.tags : x # label(t)
      BY DEF Objects
    <2>2. QED BY <1>6, <1>12, <2>1, RowShapes
  <1>13. \A x \in Objects : Has(x) => db'[x] # Null
    BY <1>10, <1>12 DEF Has
  <1>14. \A row \in Owners : db'[row] = db[row] /\ row # o.of
    <2>1. o.of \notin Owners
      BY <1>1, RowShapes
    <2>2. QED BY <1>12, <2>1, RowShapes
  <1>15. ASSUME NEW i \in Identities
         PROVE  i # j => db'[<<"identity", i>>] = db[<<"identity", i>>]
    BY <1>1, <1>12 DEF Objects
  <1>16. ASSUME NEW i \in Identities, NEW t \in Tags
         PROVE  ~(i = j /\ t \in o.tags) => db'[<<"tagged", i, t>>] = db[<<"tagged", i, t>>]
    <2>1. <<"tagged", i, t>> \in Rows /\ <<"tagged", i, t>> # o.of
      BY <1>1, RowShapes
    <2>2. ~(i = j /\ t \in o.tags) => \A s \in o.tags : <<"tagged", i, t>> # label(s)
      OBVIOUS
    <2>3. QED BY <1>6, <2>1, <2>2
  <1>17. ASSUME NEW i \in Identities, NEW ro \in RoleIds
         PROVE  db'[<<"member", ro, i>>] = db[<<"member", ro, i>>]
    <2>1. <<"member", ro, i>> \in Rows /\ <<"member", ro, i>> # o.of
      BY <1>1, RowShapes
    <2>2. QED BY <1>6, <2>1
  <1>18. ASSUME NEW i \in Identities, Has(<<"identity", i>>)
         PROVE  i # j
    BY <1>0, <1>1, <1>18
  <1>19. IsSound'
    <2>1. ASSUME NEW i \in Identities, NEW t \in Tags, db'[<<"tagged", i, t>>] # Null
          PROVE  Has(<<"tagged", i, t>>) \/ (db'[<<"identity", i>>] # Null /\ db'[<<"tag", t>>] # Null)
      <3>1. CASE i = j /\ t \in o.tags
        <4>1. <<"tag", t>> \in Objects
          BY DEF Objects
        <4>2. QED BY <1>1, <1>10, <1>13, <3>1, <4>1
      <3>2. CASE ~(i = j /\ t \in o.tags)
        BY <1>16, <2>1, <3>2 DEF Has
      <3>3. QED BY <3>1, <3>2
    <2>2. \A ro \in RoleIds, i \in Identities : db'[<<"member", ro, i>>] # Null => Has(<<"member", ro, i>>)
      BY <1>17 DEF Has
    <2>3. \A row \in Owners : db'[row] # Null => \A list \in ListsOf(db'[row]) : Has(row) /\ list \in ListsOf(db[row])
      BY <1>14 DEF Has
    <2>4. ASSUME NEW i \in Identities, db'[<<"identity", i>>] # Null
          PROVE  \/ Has(<<"identity", i>>) /\ db'[<<"identity", i>>] = db[<<"identity", i>>]
                 \/ \E d \in Identities : /\ Has(<<"identity", d>>) /\ ~Has(<<"identity", i>>)
                                          /\ BoundsOf(d) \subseteq db'[<<"identity", i>>].boundaries
      <3>1. CASE i = j
        BY <1>0, <1>1, <1>2, <1>10, <3>1
      <3>2. CASE i # j
        BY <1>15, <2>4, <3>2 DEF Has
      <3>3. QED BY <3>1, <3>2
    <2>5. QED BY <1>11, <1>13, <2>1, <2>2, <2>3, <2>4, EditKeepsNames
  <1>20. KeepsPermissions(o, c)
    <2>1. ASSUME NEW i \in Identities, Has(<<"identity", i>>)
          PROVE  TagsOf(db', i) = TagsOf(db, i)
      BY <1>16, <1>18, <2>1 DEF TagsOf
    <2>2. ASSUME NEW i \in Identities, ~Has(<<"identity", i>>), db'[<<"identity", i>>] # Null
          PROVE  BoundsOf(c) \subseteq db'[<<"identity", i>>].boundaries
      <3>1. i = j
        BY <1>15, <2>2 DEF Has
      <3>2. QED BY <1>1, <1>2, <1>10, <3>1
    <2>3. o.of \notin Owners /\ \A row \in Owners \ {o.of} : Has(row) => db'[row] = db[row]
      BY <1>14
    <2>4. QED BY <1>0, <1>13, <2>1, <2>2, <2>3, EditKeepsPermissions
  <1>21. QED BY <1>19, <1>20

(* An edit of the links of an object: its members, or its tags. *)
LEMMA LinksKeep ==
    ASSUME IsSound, NEW o \in Ops, NEW c, Permitted(o, c), o.kind \in {"members", "tags"},
           \A x \in Objects : db'[x] = db[x],
           \A row \in Rows : db'[row] = db[row] \/ db'[row] \in {There, Null},
           \A i \in Identities, t \in Tags : db'[<<"tagged", i, t>>] # Null =>
              Has(<<"tagged", i, t>>) \/ (Has(<<"identity", i>>) /\ Has(<<"tag", t>>)),
           \A ro \in RoleIds, i \in Identities : db'[<<"member", ro, i>>] # Null =>
              Has(<<"member", ro, i>>) \/ (Has(<<"role", ro>>) /\ Has(<<"identity", i>>)),
           o.kind = "members" => \A i \in Identities, t \in Tags : db'[<<"tagged", i, t>>] = db[<<"tagged", i, t>>],
           o.of \notin BoundaryRows
    PROVE  IsSound' /\ KeepsPermissions(o, c)
  <1>0. ValuesFit /\ c \in Identities /\ Has(<<"identity", c>>)
    BY DEF Permitted, IsSound
  <1>1. ASSUME NEW row \in Rows
        PROVE  db'[row] \in ValuesOf(row) \cup {Null}
    <2>1. CASE row \in Objects
      BY <1>0, <2>1 DEF ValuesFit
    <2>2. CASE row \notin Objects
      <3>1. row[1] \in {"tagged", "member"}
        BY <2>2 DEF Rows
      <3>2. ValuesOf(row) = {There}
        BY <3>1 DEF ValuesOf
      <3>3. QED BY <1>0, <3>2 DEF ValuesFit
    <2>3. QED BY <2>1, <2>2
  <1>2. ValuesFit'
    BY <1>1 DEF ValuesFit
  <1>3. \A x \in Objects : Has(x) => db'[x] # Null
    BY DEF Has
  <1>4. /\ \A i \in Identities : <<"identity", i>> \in Objects
        /\ \A t \in Tags : <<"tag", t>> \in Objects
        /\ \A ro \in RoleIds : <<"role", ro>> \in Objects
    BY DEF Objects
  <1>5. \A row \in Owners : db'[row] = db[row]
    BY RowShapes
  <1>6. \A i \in Identities : db'[<<"identity", i>>] = db[<<"identity", i>>]
    BY <1>4
  <1>7. IsSound'
    <2>1. ASSUME NEW i \in Identities, NEW t \in Tags, db'[<<"tagged", i, t>>] # Null
          PROVE  Has(<<"tagged", i, t>>) \/ (db'[<<"identity", i>>] # Null /\ db'[<<"tag", t>>] # Null)
      BY <1>3, <1>4, <2>1
    <2>2. ASSUME NEW ro \in RoleIds, NEW i \in Identities, db'[<<"member", ro, i>>] # Null
          PROVE  Has(<<"member", ro, i>>) \/ (db'[<<"role", ro>>] # Null /\ db'[<<"identity", i>>] # Null)
      BY <1>3, <1>4, <2>2
    <2>3. \A row \in Owners : db'[row] # Null => \A list \in ListsOf(db'[row]) : Has(row) /\ list \in ListsOf(db[row])
      BY <1>5 DEF Has
    <2>4. \A i \in Identities : db'[<<"identity", i>>] # Null =>
             Has(<<"identity", i>>) /\ db'[<<"identity", i>>] = db[<<"identity", i>>]
      BY <1>6 DEF Has
    <2>5. QED BY <1>2, <1>3, <2>1, <2>2, <2>3, <2>4, EditKeepsNames
  <1>8. KeepsPermissions(o, c)
    <2>1. o.kind = "tags" \/ \A i \in Identities : Has(<<"identity", i>>) => TagsOf(db', i) = TagsOf(db, i)
      BY DEF TagsOf
    <2>2. \A i \in Identities : ~Has(<<"identity", i>>) => db'[<<"identity", i>>] = Null
      BY <1>6 DEF Has
    <2>3. o.of[1] = "boundary" => o.of \notin Owners
      BY RowShapes DEF BoundaryRows, Owners
    <2>4. \A row \in Owners \ {o.of} : Has(row) => db'[row] = db[row]
      BY <1>5
    <2>5. QED BY <1>0, <1>3, <2>1, <2>2, <2>3, <2>4, EditKeepsPermissions
  <1>9. QED BY <1>7, <1>8

LEMMA SetMembersKeeps ==
    ASSUME IsSound, NEW o \in Ops, o.kind = "members", NEW c, Permitted(o, c),
           \A row \in Rows : db'[row] = Edited(o, c, row)
    PROVE  IsSound' /\ KeepsPermissions(o, c)
  <1> DEFINE j == o.of[2]
             changes == Changes(Members(j), o.members)
             values == Planned(o, c).values
  <1>0. /\ o.of \in {"role"} \X RoleIds /\ o.members \subseteq Identities
        /\ Has(o.of) /\ \A i \in o.members : Has(<<"identity", i>>)
    BY AskedFor DEF IsAskable, Permitted
  <1>1. o.of = <<"role", j>> /\ j \in RoleIds /\ o.of \notin BoundaryRows
    BY <1>0 DEF BoundaryRows
  <1>2. values = [row \in {<<"member", j, i>> : i \in changes} |-> IF row[3] \in o.members THEN There ELSE Null]
    BY DEF Planned
  <1> HIDE DEF j, changes, values
  <1>3. ASSUME NEW row \in Rows, db'[row] # db[row]
        PROVE  \E i \in changes : row = <<"member", j, i>> /\ db'[row] = IF i \in o.members THEN There ELSE Null
    <2>1. row \in DOMAIN values
      BY <1>3 DEF Edited, values
    <2>2. PICK i \in changes : row = <<"member", j, i>>
      BY <1>2, <2>1
    <2>3. row[1] = "member" /\ values[row] = IF i \in o.members THEN There ELSE Null
      BY <1>2, <2>1, <2>2
    <2>4. db'[row] = values[row]
      BY <2>1, <2>3 DEF Edited, values
    <2>5. QED BY <2>2, <2>3, <2>4
  <1>4. ASSUME NEW x \in Objects
        PROVE  db'[x] = db[x]
    <2>1. \A i \in changes : x # <<"member", j, i>>
      BY DEF Objects
    <2>2. QED BY <1>3, <2>1, RowShapes
  <1>5. \A row \in Rows : db'[row] = db[row] \/ db'[row] \in {There, Null}
    BY <1>3
  <1>6. \A i \in Identities, t \in Tags : db'[<<"tagged", i, t>>] = db[<<"tagged", i, t>>]
    <2>1. ASSUME NEW i \in Identities, NEW t \in Tags
          PROVE  db'[<<"tagged", i, t>>] = db[<<"tagged", i, t>>]
      <3>1. \A k : <<"tagged", i, t>> # <<"member", j, k>>
        OBVIOUS
      <3>2. QED BY <1>3, <3>1, RowShapes
    <2>2. QED BY <2>1
  <1>7. ASSUME NEW ro \in RoleIds, NEW i \in Identities, db'[<<"member", ro, i>>] # Null, ~Has(<<"member", ro, i>>)
        PROVE  Has(<<"role", ro>>) /\ Has(<<"identity", i>>)
    <2>1. PICK k \in changes : <<"member", ro, i>> = <<"member", j, k>>
                               /\ db'[<<"member", ro, i>>] = IF k \in o.members THEN There ELSE Null
      BY <1>3, <1>7, RowShapes DEF Has
    <2>2. ro = j /\ i = k /\ k \in o.members
      BY <1>7, <2>1
    <2>3. QED BY <1>0, <1>1, <2>2
  <1>8. \A i \in Identities, t \in Tags : db'[<<"tagged", i, t>>] # Null => Has(<<"tagged", i, t>>)
    BY <1>6 DEF Has
  <1>9. QED BY <1>1, <1>4, <1>5, <1>6, <1>7, <1>8, LinksKeep

LEMMA SetTagsKeeps ==
    ASSUME IsSound, NEW o \in Ops, o.kind = "tags", NEW c, Permitted(o, c),
           \A row \in Rows : db'[row] = Edited(o, c, row)
    PROVE  IsSound' /\ KeepsPermissions(o, c)
  <1> DEFINE j == o.of[2]
             changes == Changes(TagsOf(db, j), o.tags)
             values == Planned(o, c).values
  <1>0. /\ o.of \in {"identity"} \X Identities /\ o.tags \subseteq Tags
        /\ Has(o.of) /\ \A t \in o.tags : Has(<<"tag", t>>)
    BY AskedFor DEF IsAskable, Permitted
  <1>1. o.of = <<"identity", j>> /\ j \in Identities /\ o.of \notin BoundaryRows
    BY <1>0 DEF BoundaryRows
  <1>2. values = [row \in {<<"tagged", j, t>> : t \in changes} |-> IF row[3] \in o.tags THEN There ELSE Null]
    BY DEF Planned
  <1> HIDE DEF j, changes, values
  <1>3. ASSUME NEW row \in Rows, db'[row] # db[row]
        PROVE  \E t \in changes : row = <<"tagged", j, t>> /\ db'[row] = IF t \in o.tags THEN There ELSE Null
    <2>1. row \in DOMAIN values
      BY <1>3 DEF Edited, values
    <2>2. PICK t \in changes : row = <<"tagged", j, t>>
      BY <1>2, <2>1
    <2>3. row[1] = "tagged" /\ values[row] = IF t \in o.tags THEN There ELSE Null
      BY <1>2, <2>1, <2>2
    <2>4. db'[row] = values[row]
      BY <2>1, <2>3 DEF Edited, values
    <2>5. QED BY <2>2, <2>3, <2>4
  <1>4. ASSUME NEW x \in Objects
        PROVE  db'[x] = db[x]
    <2>1. \A t \in changes : x # <<"tagged", j, t>>
      BY DEF Objects
    <2>2. QED BY <1>3, <2>1, RowShapes
  <1>5. \A row \in Rows : db'[row] = db[row] \/ db'[row] \in {There, Null}
    BY <1>3
  <1>6. \A i \in Identities, ro \in RoleIds : db'[<<"member", ro, i>>] = db[<<"member", ro, i>>]
    <2>1. ASSUME NEW i \in Identities, NEW ro \in RoleIds
          PROVE  db'[<<"member", ro, i>>] = db[<<"member", ro, i>>]
      <3>1. \A t : <<"member", ro, i>> # <<"tagged", j, t>>
        OBVIOUS
      <3>2. QED BY <1>3, <3>1, RowShapes
    <2>2. QED BY <2>1
  <1>7. ASSUME NEW i \in Identities, NEW t \in Tags, db'[<<"tagged", i, t>>] # Null, ~Has(<<"tagged", i, t>>)
        PROVE  Has(<<"identity", i>>) /\ Has(<<"tag", t>>)
    <2>1. PICK k \in changes : <<"tagged", i, t>> = <<"tagged", j, k>>
                               /\ db'[<<"tagged", i, t>>] = IF k \in o.tags THEN There ELSE Null
      BY <1>3, <1>7, RowShapes DEF Has
    <2>2. i = j /\ t = k /\ k \in o.tags
      BY <1>7, <2>1
    <2>3. QED BY <1>0, <1>1, <2>2
  <1>8. \A i \in Identities, ro \in RoleIds : db'[<<"member", ro, i>>] # Null => Has(<<"member", ro, i>>)
    BY <1>6 DEF Has
  <1>9. QED BY <1>1, <1>4, <1>5, <1>7, <1>8, LinksKeep

(* What each request commits keeps what is named, and what others may do. *)
ResultOf(o, c, row) == IF o.kind = "delete" THEN LeftOf(o, row) ELSE Edited(o, c, row)

LEMMA ResultKeeps ==
    ASSUME IsSound, NEW o \in Ops, NEW c, Permitted(o, c), \A row \in Rows : db'[row] = ResultOf(o, c, row)
    PROVE  IsSound' /\ KeepsPermissions(o, c)
  <1>1. o.kind \in {"delete", "create", "identity", "grants", "members", "columns", "tags", "visible"}
    BY AskedFor
  <1>2. CASE o.kind = "delete"
    BY <1>2, DeletionKeepsNames, DeletionKeepsPermissions DEF ResultOf
  <1>3. CASE o.kind # "delete"
    <2>1. \A row \in Rows : db'[row] = Edited(o, c, row)
      BY <1>3 DEF ResultOf
    <2>2. QED BY <1>1, <1>3, <2>1, CreateKeeps, NewIdentityKeeps, SetGrantsKeeps, SetMembersKeeps,
                 SetBoundaryKeeps, SetTagsKeeps, SetBastionKeeps
  <1>4. QED BY <1>2, <1>3

-----------------------------------------------------------------------------
(* What holds while the database does not change.                          *)
(* Nothing of this changes while the database does not. *)
LEMMA SameDb ==
    ASSUME db' = db, NEW o, NEW c
    PROVE  /\ \A row : Has(row)' = Has(row)
           /\ Owned(o.of)' = Owned(o.of)
           /\ \A row : LeftOf(o, row)' = LeftOf(o, row)
           /\ Permitted(o, c) => Permitted(o, c)'
           /\ Planned(o, c)' = Planned(o, c)
           /\ \A row : Edited(o, c, row)' = Edited(o, c, row)
           /\ IsSound => IsSound'
  <1>1. \A row : Has(row)' = Has(row)
    BY DEF Has
  <1>2. Owned(o.of)' = Owned(o.of)
    BY DEF Owned, Has
  <1>3. \A row : LeftOf(o, row)' = LeftOf(o, row)
    BY <1>1, <1>2 DEF LeftOf, Gone
  <1>4. \A i : Members(i)' = Members(i) /\ BoundsOf(i)' = BoundsOf(i) /\ TagsOf(db, i)' = TagsOf(db, i)
    BY DEF Members, BoundsOf, Has, TagsOf
  <1>5. Permitted(o, c) => Permitted(o, c)'
    <2>1. MayDelete(o.of, c) => MayDelete(o.of, c)'
      BY DEF MayDelete, Has, IsIdentityTagged, IsReferenced, Members, BoundsOf
    <2>2. MayCreateIdentity(o.extra, o.tags, c) => MayCreateIdentity(o.extra, o.tags, c)'
      BY DEF MayCreateIdentity, Has, BoundsOf
    <2>3. \A list : Resolves(list) => Resolves(list)'
      BY DEF Resolves, Has
    <2>4. MaySetBoundary(o.of[2], o.columns, c) => MaySetBoundary(o.of[2], o.columns, c)'
      BY <1>1, <1>4, <2>3 DEF MaySetBoundary
    <2>5. QED BY <1>1, <2>1, <2>2, <2>3, <2>4 DEF Permitted
  <1>6. Planned(o, c)' = Planned(o, c)
    BY <1>4 DEF Planned, BoundsOfNew
  <1>7. \A row : Edited(o, c, row)' = Edited(o, c, row)
    BY <1>6 DEF Edited
  <1>8. IsSound => IsSound'
    BY DEF IsSound, ValuesFit, Has
  <1>9. QED BY <1>1, <1>2, <1>3, <1>5, <1>6, <1>7, <1>8

LEMMA MayPermits ==
    ASSUME NEW o \in Ops, NEW c \in Identities, NEW active, Has(<<"identity", c>>), May(o, c, active),
           \A row \in Objects : Has(row) => row \in used
    PROVE  Permitted(o, c)
  <1>1. o.kind \in {"delete", "create", "identity", "grants", "members", "columns", "tags", "visible"} /\ o.of \in Objects
    BY AskedFor
  <1>2. o.kind = "delete" => MayDelete(o.of, c)
    BY DEF May
  <1>3. o.kind = "create" => ~Has(o.of)
    BY <1>1 DEF May
  <1>4. o.kind = "identity" => ~Has(o.of) /\ MayCreateIdentity(o.extra, o.tags, c)
    BY <1>1 DEF May
  <1>5. ASSUME o.kind \in {"grants", "members"}
        PROVE  o.of = <<"role", o.of[2]>>
    BY <1>5, AskedFor DEF IsAskable
  <1>6. o.kind = "grants" => Has(o.of) /\ Resolves(o.grants)
    BY <1>5 DEF May, MaySetGrants
  <1>7. o.kind = "members" => Has(o.of) /\ \A i \in o.members : Has(<<"identity", i>>)
    BY <1>5 DEF May, MaySetMembers
  <1>8. o.kind = "columns" => MaySetBoundary(o.of[2], o.columns, c)
    BY DEF May
  <1>9. o.kind = "tags" => Has(o.of) /\ \A t \in o.tags : Has(<<"tag", t>>)
    BY DEF May
  <1>10. o.kind = "visible" => Has(o.of)
    BY DEF May
  <1>11. QED BY <1>2, <1>3, <1>4, <1>6, <1>7, <1>8, <1>9, <1>10 DEF Permitted

(* Of the objects, an edit writes at most the one that it is about. *)
LEMMA PlannedObjects ==
    ASSUME NEW o \in Ops, o.kind # "delete", NEW c, Permitted(o, c), NEW x \in DOMAIN Planned(o, c).values
    PROVE  /\ x \in Objects => x = o.of
           /\ x[1] \in {"role", "boundary", "bastion"} /\ o.kind # "create" => Has(x)
           /\ x = o.of /\ o.kind \notin {"create", "identity"} => Has(x)
  <1>1. CASE o.kind \in {"create", "grants", "columns", "visible"}
    <2>1. x = o.of
      BY <1>1, PutParts DEF Planned
    <2>2. o.kind = "columns" => Has(o.of)
      <3>1. o.kind = "columns" => o.of = <<"boundary", o.of[2]>>
        BY AskedFor DEF IsAskable
      <3>2. QED BY <3>1 DEF Permitted, MaySetBoundary
    <2>3. QED BY <1>1, <2>1, <2>2 DEF Permitted
  <1>2. CASE o.kind = "identity"
    <2>1. o.of[1] = "identity" /\ (x = o.of \/ \E t \in o.tags : x = <<"tagged", o.of[2], t>>)
      BY <1>2, AskedFor DEF Planned, One, Over, IsAskable
    <2>2. QED BY <1>2, <2>1 DEF Objects
  <1>3. CASE o.kind = "members"
    <2>1. \E i : x = <<"member", o.of[2], i>>
      BY <1>3 DEF Planned
    <2>2. x[1] = "member" /\ x # o.of /\ x \notin Objects
      BY <2>1, AskedFor DEF Objects
    <2>3. QED BY <2>2
  <1>4. CASE o.kind = "tags"
    <2>1. \E t : x = <<"tagged", o.of[2], t>>
      BY <1>4 DEF Planned
    <2>2. x[1] = "tagged" /\ x # o.of /\ x \notin Objects
      BY <2>1, AskedFor DEF Objects
    <2>3. QED BY <2>2
  <1>5. QED BY <1>1, <1>2, <1>3, <1>4, AskedFor

(* New objects are those that a request creates. *)
LEMMA ResultObjects ==
    ASSUME ValuesFit, NEW o \in Ops, NEW c, Permitted(o, c), NEW row \in Objects, ResultOf(o, c, row) # Null
    PROVE  Has(row) \/ (row = o.of /\ o.kind \in {"create", "identity"})
  <1>1. CASE o.kind = "delete"
    BY <1>1, LeftFits, RowShapes DEF ResultOf
  <1>2. CASE o.kind # "delete"
    <2>1. CASE row \in DOMAIN Planned(o, c).values
      BY <1>2, <2>1, PlannedObjects
    <2>2. CASE row \notin DOMAIN Planned(o, c).values
      BY <1>2, <2>2 DEF ResultOf, Edited, Has
    <2>3. QED BY <2>1, <2>2
  <1>3. QED BY <1>1, <1>2

-----------------------------------------------------------------------------
(* The update of a row that names what is deleted makes of it what is left. *)
Fitting(o, row, v) ==
    IF row[1] \in {"role", "boundary", "bastion"}
    THEN /\ Has(row) /\ LeftOf(o, row) # Null
         /\ \A base \in {db[row], LeftOf(o, row)} : Over(v, base) = LeftOf(o, row)
    ELSE v = LeftOf(o, row)

LEMMA StaleFits ==
    ASSUME ValuesFit, NEW o \in Ops, o.kind = "delete", o.of \notin Owners, NEW row \in Owners, Has(row)
    PROVE  /\ Fitting(o, row, [column \in StaleColumns(o, db[row]) |-> Rewritten(o, db[row])[column]])
           /\ StaleColumns(o, db[row]) = {} => LeftOf(o, row) = db[row]
  <1> DEFINE v == db[row]
             new == Rewritten(o, v)
             stale == StaleColumns(o, v)
             columns == [column \in stale |-> new[column]]
  <1>1. v \in ValuesOf(row) /\ row \in Rows /\ IsReferred(o)
    BY RowShapes, SoundFits, DeletesObjects
  <1>2. ~Gone(o, row)
    BY <1>1, GoneRows, RowShapes
  <1>3. LeftOf(o, row) = new /\ new # Null
    BY <1>1, <1>2, LeftFits DEF LeftOf
  <1>4. /\ DOMAIN new = DOMAIN v /\ new = [column \in DOMAIN v |-> new[column]]
        /\ stale = {column \in DOMAIN v : new[column] # v[column]}
    BY DEF Rewritten, StaleColumns
  <1>5. v = [column \in DOMAIN v |-> v[column]]
    <2>1. CASE row \in RoleRows
      <3>1. v \in [grants : SUBSET Grants]
        BY <1>1, <2>1, RoleValues
      <3>2. QED BY <3>1
    <2>2. CASE row \in BoundaryRows
      <3>1. v \in [denied : SUBSET Grants, ceiling : SUBSET SUBSET Grants]
        BY <1>1, <2>2, BoundaryValues
      <3>2. QED BY <3>1
    <2>3. QED BY <2>1, <2>2, RowShapes
  <1> HIDE DEF v, new, stale
  <1>6. Over(columns, v) = new
    <2>1. DOMAIN columns = stale /\ stale \subseteq DOMAIN v
      BY <1>4
    <2>2. Over(columns, v) = [column \in DOMAIN v |-> IF column \in stale THEN new[column] ELSE v[column]]
      BY <2>1 DEF Over
    <2>3. \A column \in DOMAIN v : (IF column \in stale THEN new[column] ELSE v[column]) = new[column]
      BY <1>4
    <2>4. QED BY <1>4, <2>2, <2>3
  <1>7. Over(columns, new) = new
    <2>1. DOMAIN columns = stale /\ stale \subseteq DOMAIN v
      BY <1>4
    <2>2. Over(columns, new) = [column \in DOMAIN v |-> IF column \in stale THEN new[column] ELSE new[column]]
      BY <1>4, <2>1 DEF Over
    <2>3. QED BY <1>4, <2>2
  <1>8. Fitting(o, row, columns)
    <2>1. row[1] \in {"role", "boundary"}
      BY RowShapes
    <2>2. QED BY <1>3, <1>6, <1>7, <2>1 DEF Fitting, v
  <1>9. stale = {} => new = v
    BY <1>4, <1>5
  <1>10. QED BY <1>3, <1>8, <1>9 DEF v, stale, new

LEMMA BastionFits ==
    ASSUME ValuesFit, NEW o \in Ops, o.kind = "delete", o.of[1] = "tag",
           NEW row \in {"bastion"} \X Bastions, Has(row)
    PROVE  /\ HasTag(db[row], o.of[2]) =>
                Fitting(o, row, [tags |-> IF db[row].tags \ {o.of[2]} = {} THEN Null ELSE db[row].tags \ {o.of[2]}])
           /\ ~HasTag(db[row], o.of[2]) => LeftOf(o, row) = db[row]
  <1> DEFINE t == o.of[2]
             v == db[row]
             left == IF v.tags \ {t} = {} THEN Null ELSE v.tags \ {t}
             columns == [tags |-> left]
             new == Over(columns, v)
  <1>1. row \in Rows /\ row[1] = "bastion" /\ row \notin Owners /\ ~Gone(o, row) /\ ValuesOf(row) = [tags : SetsOfTags]
    <2>1. row \in Rows /\ row[1] = "bastion" /\ row \notin Owners
      BY DEF Rows, Objects, Owners
    <2>2. ~Gone(o, row)
      BY <2>1, GoneRows
    <2>3. QED BY <2>1, <2>2 DEF ValuesOf
  <1>2. v \in [tags : SetsOfTags]
    BY <1>1, SoundFits
  <1>3. HasTag(v, t) => LeftOf(o, row) = new /\ new # Null
    BY <1>1, LeftFits DEF LeftOf, WithoutTag
  <1>4. ~HasTag(v, t) => LeftOf(o, row) = v
    BY <1>1 DEF LeftOf
  <1> HIDE DEF left, v
  <1>5. DOMAIN v = {"tags"} /\ DOMAIN columns = {"tags"} /\ columns["tags"] = left
    BY <1>2
  <1> HIDE DEF columns
  <1>6. Over(columns, new) = new
    <2>1. new = [column \in {"tags"} |-> left]
      BY <1>5 DEF Over
    <2>2. DOMAIN new = {"tags"}
      BY <2>1
    <2> HIDE DEF new
    <2>3. Over(columns, new) = [column \in {"tags"} |-> left]
      BY <1>5, <2>2 DEF Over
    <2>4. QED BY <2>1, <2>3
  <1> HIDE DEF new
  <1>7. HasTag(v, t) => Fitting(o, row, columns)
    <2>1. Over(columns, v) = new
      BY DEF new
    <2>2. QED BY <1>1, <1>3, <1>6, <2>1 DEF Fitting, v
  <1>8. QED BY <1>4, <1>7 DEF v, columns, left, t

(* Rows of other tables stay as they are, unless they are deleted. *)
LEMMA OthersLeft ==
    ASSUME NEW o \in Ops, o.kind = "delete", NEW row \in Rows, row # o.of, row \notin Owned(o.of),
           \/ row[1] \in {"tag", "identity", "member"}
           \/ row[1] \in {"bastion", "tagged"} /\ o.of[1] # "tag"
           \/ row \in Owners /\ o.of \in Owners
           \/ row[1] = "tagged" /\ row[3] # o.of[2]
           \/ row[1] = "tagged" /\ ~Has(row)
    PROVE  LeftOf(o, row) = db[row]
  <1>0. row \in Owners => row[1] \in {"role", "boundary"}
    BY RowShapes
  <1>1. ~Gone(o, row) \/ ~Has(row)
    BY <1>0 DEF Gone
  <1>2. row \in Owners => o.of \in Owners
    BY <1>0
  <1>3. row[1] = "bastion" => o.of[1] # "tag"
    BY <1>0
  <1>4. QED BY <1>1, <1>2, <1>3 DEF LeftOf, Has

-----------------------------------------------------------------------------
(* Transactions, on a database that serializes writers.                    *)
(* The kinds of rows that a deletion has still to read. *)
Unhandled(r) ==
    LET unread(kind) == IF todo[r] = Unread THEN {kind} ELSE {}
    IN  CASE pc[r] = "roles" -> unread("role") \cup {"boundary", "bastion", "tagged"}
          [] pc[r] = "boundaries" -> unread("boundary") \cup {"bastion", "tagged"}
          [] pc[r] = "bastions" -> unread("bastion") \cup {"tagged"}
          [] pc[r] = "tagged" -> unread("tagged")
          [] OTHER -> {}

IsPending(r, row) == todo[r] # Unread /\ \E w \in todo[r] : row \in DOMAIN w.values

IsAhead(r, o, row) == pc[r] # "commit" /\ (row = o.of \/ row \in Owned(o.of) \/ row[1] \in Unhandled(r))

(* What the transaction of a request has written, and what is left to write. *)
Deleting(r, o) ==
    /\ pc[r] # "update"
    /\ \A row \in DOMAIN staged[r] : staged[r][row] = LeftOf(o, row)
    /\ todo[r] # Unread => \A w \in todo[r] : \A row \in DOMAIN w.values : Fitting(o, row, w.values[row])
    /\ \A row \in Rows :
          row \in DOMAIN staged[r] \/ LeftOf(o, row) = db[row] \/ IsPending(r, row) \/ IsAhead(r, o, row)

Editing(r, o, c) ==
    /\ pc[r] \in {"update", "commit"}
    /\ pc[r] = "update" => DOMAIN staged[r] = {} /\ todo[r] = {Planned(o, c)}
    /\ pc[r] = "commit" => \A row \in Rows : Read(r, row) = Edited(o, c, row)

Transaction(r, o, c) ==
    /\ Permitted(o, c)
    /\ o.kind \in {"create", "identity"} => o.of \in used
    /\ IF o.kind = "delete" THEN Deleting(r, o) ELSE Editing(r, o, c)

(* On a database that serializes writers. *)
Serial ==
    /\ IsSound
    /\ \A row \in Objects : Has(row) => row \in used
    /\ \A r1, r2 \in Requests : IsOpen(r1) /\ IsOpen(r2) => r1 = r2
    /\ \A r \in Requests : IsOpen(r) =>
          \E o \in Ops, c \in Identities : op[r] = o /\ caller[r] = c /\ Transaction(r, o, c)

SerialInv == KeysInv /\ (oneWriter => Serial)

-----------------------------------------------------------------------------
Reading == {"roles", "boundaries", "bastions", "tagged"}
KindOf(stage) ==
    CASE stage = "roles" -> "role" [] stage = "boundaries" -> "boundary"
      [] stage = "bastions" -> "bastion" [] stage = "tagged" -> "tagged"

LEMMA Advance ==
    ASSUME NEW r, NEW o \in Ops, o.kind = "delete", pc[r] \in Reading,
           pc[r] \in {"bastions", "tagged"} => o.of[1] = "tag",
           pc'[r] = NextStage(o, pc[r]), todo'[r] = Unread,
           NEW row \in Rows, row # o.of, row \notin Owned(o.of),
           row[1] \in Unhandled(r), row[1] # KindOf(pc[r])
    PROVE  row[1] \in Unhandled(r)' \/ LeftOf(o, row) = db[row]
  <1>1. CASE pc[r] = "roles"
    BY <1>1 DEF NextStage, Unhandled, KindOf
  <1>2. CASE pc[r] = "boundaries"
    <2>1. row[1] \in {"bastion", "tagged"}
      BY <1>2 DEF Unhandled, KindOf
    <2>2. CASE o.of[1] = "tag"
      BY <1>2, <2>1, <2>2 DEF NextStage, Unhandled
    <2>3. CASE o.of[1] # "tag"
      BY <2>1, <2>3, OthersLeft
    <2>4. QED BY <2>2, <2>3
  <1>3. CASE pc[r] = "bastions"
    BY <1>3 DEF NextStage, Unhandled, KindOf
  <1>4. CASE pc[r] = "tagged"
    BY <1>4 DEF Unhandled, KindOf
  <1>5. QED BY <1>1, <1>2, <1>3, <1>4 DEF Reading

LEMMA AfterReading ==
    ASSUME NEW o, NEW stage \in Reading
    PROVE  NextStage(o, stage) \in {"boundaries", "bastions", "tagged", "delete"}
  BY DEF NextStage, Reading

(* A table that has been read. *)
LEMMA TableRead ==
    ASSUME KeysInv, NEW r \in Requests, NEW o \in Ops, NEW c, op[r] = o, Transaction(r, o, c),
           NEW stage \in Reading, NEW updates, ReadTable(r, stage, updates),
           \A w \in updates : w.rows # {} /\ \A row \in DOMAIN w.values : Fitting(o, row, w.values[row]),
           \A row \in Rows : row[1] = KindOf(stage) /\ row # o.of /\ row \notin Owned(o.of) =>
              LeftOf(o, row) = db[row] \/ \E w \in updates : row \in DOMAIN w.values
    PROVE  Transaction(r, o, c)'
  <1>1. /\ UNCHANGED <<db, used, op, caller, oneWriter>> /\ pc[r] = stage /\ todo[r] = Unread
        /\ staged'[r] = staged[r]
        /\ updates = {} => todo'[r] = Unread /\ pc'[r] = NextStage(o, stage)
        /\ updates # {} => todo'[r] = updates /\ pc'[r] = stage
    <2>1. UNCHANGED <<db, used, op, caller, oneWriter>> /\ staged'[r] = staged[r]
      BY DEF ReadTable, Proceed
    <2>2. QED BY <2>1, ReadChanges
  <1>2. o.kind = "delete" /\ (pc[r] \in {"bastions", "tagged"} => o.of[1] = "tag")
    BY <1>1 DEF KeysInv, InOrder, Reading
  <1>3. Deleting(r, o) /\ Permitted(o, c)'
    BY <1>1, <1>2, SameDb DEF Transaction
  <1>4. updates # {} => updates # Unread
    BY NotUnread
  <1>5. pc'[r] \notin {"update", "commit"}
    BY <1>1, AfterReading DEF Reading
  <1>6. /\ \A row : LeftOf(o, row)' = LeftOf(o, row)
        /\ Owned(o.of)' = Owned(o.of)
    BY <1>1, SameDb
  <1>7. \A row \in DOMAIN staged'[r] : staged'[r][row] = LeftOf(o, row)'
    BY <1>1, <1>3, <1>6 DEF Deleting
  <1>8. \A row, v : Fitting(o, row, v)' = Fitting(o, row, v)
    BY <1>1, <1>6 DEF Fitting, Has
  <1>9. todo'[r] # Unread => \A w \in todo'[r] : \A row \in DOMAIN w.values : Fitting(o, row, w.values[row])'
    BY <1>1, <1>4, <1>8
  <1>10. ASSUME NEW row \in Rows
         PROVE  row \in DOMAIN staged'[r] \/ LeftOf(o, row)' = db'[row] \/ IsPending(r, row)' \/ IsAhead(r, o, row)'
    <2>1. row \in DOMAIN staged[r] \/ LeftOf(o, row) = db[row] \/ IsAhead(r, o, row)
      BY <1>1, <1>3 DEF Deleting, IsPending
    <2>2. CASE row \in DOMAIN staged[r] \/ LeftOf(o, row) = db[row]
      BY <1>1, <1>6, <2>2
    <2>3. CASE row = o.of \/ row \in Owned(o.of)
      BY <1>5, <1>6, <2>3 DEF IsAhead
    <2>4. CASE row # o.of /\ row \notin Owned(o.of) /\ row[1] \in Unhandled(r)
      <3>1. CASE row[1] = KindOf(stage)
        <4>1. LeftOf(o, row) = db[row] \/ \E w \in updates : row \in DOMAIN w.values
          BY <2>4, <3>1
        <4>2. CASE \E w \in updates : row \in DOMAIN w.values
          BY <1>1, <1>4, <4>2 DEF IsPending
        <4>3. QED BY <1>1, <1>6, <4>1, <4>2
      <3>2. CASE row[1] # KindOf(stage) /\ updates = {}
        <4>1. row[1] \in Unhandled(r)' \/ LeftOf(o, row) = db[row]
          BY <1>1, <1>2, <2>4, <3>2, Advance
        <4>2. QED BY <1>1, <1>5, <1>6, <4>1 DEF IsAhead
      <3>3. CASE row[1] # KindOf(stage) /\ updates # {}
        <4>1. row[1] \in Unhandled(r)'
          BY <1>1, <1>4, <2>4, <3>3 DEF Unhandled, KindOf, Reading
        <4>2. QED BY <1>5, <4>1 DEF IsAhead
      <3>4. QED BY <3>1, <3>2, <3>3
    <2>5. QED BY <2>1, <2>2, <2>3, <2>4 DEF IsAhead
  <1>11. Deleting(r, o)'
    BY <1>5, <1>7, <1>9, <1>10 DEF Deleting
  <1>12. QED BY <1>1, <1>2, <1>3, <1>11 DEF Transaction

-----------------------------------------------------------------------------
(* Their reads and updates.                                                *)
LEMMA OwnersRead ==
    ASSUME ValuesFit, NEW r, NEW o \in Ops, op[r] = o, o.kind = "delete", o.of \notin Owners, NEW owners \in SUBSET Owners
    PROVE  /\ \A w \in OwnerUpdates(r, owners) :
                 w.rows # {} /\ \A row \in DOMAIN w.values : Fitting(o, row, w.values[row])
           /\ \A row \in owners : LeftOf(o, row) = db[row] \/ \E w \in OwnerUpdates(r, owners) : row \in DOMAIN w.values
  <1> DEFINE columns(row) == [column \in StaleColumns(o, db[row]) |-> Rewritten(o, db[row])[column]]
  <1>1. OwnerUpdates(r, owners) = {Put(row, columns(row)) : row \in {x \in owners : Has(x) /\ StaleColumns(o, db[x]) # {}}}
    BY DEF OwnerUpdates
  <1>2. \A row \in Owners : Has(row) => Fitting(o, row, columns(row)) /\ (StaleColumns(o, db[row]) = {} => LeftOf(o, row) = db[row])
    BY StaleFits
  <1>3. \A row \in owners : ~Has(row) => LeftOf(o, row) = db[row]
    BY DEF LeftOf, Has
  <1> HIDE DEF columns
  <1>4. ASSUME NEW w \in OwnerUpdates(r, owners)
        PROVE  w.rows # {} /\ \A row \in DOMAIN w.values : Fitting(o, row, w.values[row])
    <2>1. PICK row \in owners : Has(row) /\ w = Put(row, columns(row))
      BY <1>1
    <2>2. QED BY <1>2, <2>1, PutParts
  <1>5. ASSUME NEW row \in owners, Has(row), StaleColumns(o, db[row]) # {}
        PROVE  \E w \in OwnerUpdates(r, owners) : row \in DOMAIN w.values
    <2>1. Put(row, columns(row)) \in OwnerUpdates(r, owners)
      BY <1>1, <1>5
    <2>2. QED BY <2>1, PutParts
  <1>6. QED BY <1>2, <1>3, <1>4, <1>5

LEMMA BastionsRead ==
    ASSUME ValuesFit, NEW r, NEW o \in Ops, op[r] = o, o.kind = "delete", o.of[1] = "tag"
    PROVE  /\ \A w \in BastionUpdates(r) :
                 w.rows # {} /\ \A row \in DOMAIN w.values : Fitting(o, row, w.values[row])
           /\ \A row \in {"bastion"} \X Bastions :
                 LeftOf(o, row) = db[row] \/ \E w \in BastionUpdates(r) : row \in DOMAIN w.values
  <1> DEFINE t == o.of[2]
             columns(row) == [tags |-> IF db[row].tags \ {t} = {} THEN Null ELSE db[row].tags \ {t}]
  <1>1. BastionUpdates(r) = {Put(row, columns(row)) : row \in {x \in {"bastion"} \X Bastions : Has(x) /\ HasTag(db[x], t)}}
    BY DEF BastionUpdates, HasTag
  <1>2. \A row \in {"bastion"} \X Bastions : Has(row) =>
           (HasTag(db[row], t) => Fitting(o, row, columns(row))) /\ (~HasTag(db[row], t) => LeftOf(o, row) = db[row])
    BY BastionFits
  <1>3. \A row : ~Has(row) => LeftOf(o, row) = db[row]
    BY DEF LeftOf, Has
  <1> HIDE DEF columns, t
  <1>4. ASSUME NEW w \in BastionUpdates(r)
        PROVE  w.rows # {} /\ \A row \in DOMAIN w.values : Fitting(o, row, w.values[row])
    <2>1. PICK row \in {"bastion"} \X Bastions : Has(row) /\ HasTag(db[row], t) /\ w = Put(row, columns(row))
      BY <1>1
    <2>2. QED BY <1>2, <2>1, PutParts
  <1>5. ASSUME NEW row \in {"bastion"} \X Bastions, Has(row), HasTag(db[row], t)
        PROVE  \E w \in BastionUpdates(r) : row \in DOMAIN w.values
    <2>1. Put(row, columns(row)) \in BastionUpdates(r)
      BY <1>1, <1>5
    <2>2. QED BY <2>1, PutParts
  <1>6. QED BY <1>2, <1>3, <1>4, <1>5

LEMMA TaggedRead ==
    ASSUME NEW r, NEW o \in Ops, op[r] = o, o.kind = "delete", o.of[1] = "tag"
    PROVE  /\ \A w \in UntagUpdates(r) :
                 w.rows # {} /\ \A row \in DOMAIN w.values : Fitting(o, row, w.values[row])
           /\ \A row \in Rows : row[1] = "tagged" /\ row # o.of /\ row \notin Owned(o.of) =>
                 LeftOf(o, row) = db[row] \/ \E w \in UntagUpdates(r) : row \in DOMAIN w.values
  <1> DEFINE t == o.of[2]
             take(i) == [rows |-> {<<"identity", i>>}, values |-> One(<<"tagged", i, t>>, Null)]
  <1>1. UntagUpdates(r) = {take(i) : i \in {x \in Identities : Has(<<"tagged", x, t>>)}}
    BY DEF UntagUpdates
  <1>2. ASSUME NEW i
        PROVE  /\ take(i).rows = {<<"identity", i>>} /\ DOMAIN take(i).values = {<<"tagged", i, t>>}
               /\ take(i).values[<<"tagged", i, t>>] = Null
    BY DEF One
  <1>3. ASSUME NEW i
        PROVE  Fitting(o, <<"tagged", i, t>>, Null)
    <2>1. LeftOf(o, <<"tagged", i, t>>) = Null
      BY DEF LeftOf, Gone
    <2>2. QED BY <2>1 DEF Fitting
  <1> HIDE DEF take, t
  <1>4. ASSUME NEW w \in UntagUpdates(r)
        PROVE  w.rows # {} /\ \A row \in DOMAIN w.values : Fitting(o, row, w.values[row])
    <2>1. PICK i \in Identities : w = take(i)
      BY <1>1
    <2>2. /\ w.rows = {<<"identity", i>>} /\ DOMAIN w.values = {<<"tagged", i, t>>}
          /\ w.values[<<"tagged", i, t>>] = Null
      BY <1>2, <2>1
    <2>3. QED BY <1>3, <2>2
  <1>5. ASSUME NEW row \in Rows, row[1] = "tagged", row # o.of, row \notin Owned(o.of)
        PROVE  LeftOf(o, row) = db[row] \/ \E w \in UntagUpdates(r) : row \in DOMAIN w.values
    <2>1. CASE row[3] # t \/ ~Has(row)
      BY <1>5, <2>1, OthersLeft DEF t
    <2>2. CASE row[3] = t /\ Has(row)
      <3>1. PICK i \in Identities : row = <<"tagged", i, t>>
        BY <1>5, <2>2 DEF Rows, Objects
      <3>2. take(i) \in UntagUpdates(r)
        BY <1>1, <2>2, <3>1
      <3>3. QED BY <1>2, <3>1, <3>2
    <2>3. QED BY <2>1, <2>2
  <1>6. QED BY <1>4, <1>5

LEMMA ReadTransaction ==
    ASSUME KeysInv, ValuesFit, NEW r \in Requests, NEW o \in Ops, NEW c, op[r] = o, Transaction(r, o, c),
           ReadRoles(r) \/ ReadBoundaries(r) \/ ReadBastions(r) \/ ReadTagged(r)
    PROVE  Transaction(r, o, c)'
  <1>0. /\ RoleRows \in SUBSET Owners /\ BoundaryRows \in SUBSET Owners
        /\ \A row \in Rows : row[1] = "role" <=> row \in RoleRows
        /\ \A row \in Rows : row[1] = "boundary" <=> row \in BoundaryRows
        /\ \A row \in Rows : row[1] = "bastion" <=> row \in {"bastion"} \X Bastions
    BY RowShapes DEF Rows, Objects, RoleRows, BoundaryRows
  <1>1. CASE ReadRoles(r)
    <2>1. ReadTable(r, "roles", OwnerUpdates(r, RoleRows)) /\ pc[r] = "roles"
      BY <1>1 DEF ReadRoles, RoleUpdates, RoleRows, ReadTable
    <2>2. o.kind = "delete" /\ o.of \notin Owners
      BY <2>1 DEF KeysInv, InOrder
    <2>3. KindOf("roles") = "role" /\ "roles" \in Reading
      BY DEF KindOf, Reading
    <2>4. \A w \in OwnerUpdates(r, RoleRows) : w.rows # {} /\ \A row \in DOMAIN w.values : Fitting(o, row, w.values[row])
      BY <2>1, <2>2, <1>0, OwnersRead
    <2>5. \A row \in Rows : row[1] = "role" /\ row # o.of /\ row \notin Owned(o.of) =>
             LeftOf(o, row) = db[row] \/ \E w \in OwnerUpdates(r, RoleRows) : row \in DOMAIN w.values
      BY <2>1, <2>2, <1>0, OwnersRead
    <2>6. QED BY <2>1, <2>3, <2>4, <2>5, TableRead
  <1>2. CASE ReadBoundaries(r)
    <2>1. ReadTable(r, "boundaries", OwnerUpdates(r, BoundaryRows)) /\ pc[r] = "boundaries"
      BY <1>2 DEF ReadBoundaries, BoundaryUpdates, BoundaryRows, ReadTable
    <2>2. o.kind = "delete" /\ o.of \notin Owners
      BY <2>1 DEF KeysInv, InOrder
    <2>3. KindOf("boundaries") = "boundary" /\ "boundaries" \in Reading
      BY DEF KindOf, Reading
    <2>4. \A w \in OwnerUpdates(r, BoundaryRows) : w.rows # {} /\ \A row \in DOMAIN w.values : Fitting(o, row, w.values[row])
      BY <2>1, <2>2, <1>0, OwnersRead
    <2>5. \A row \in Rows : row[1] = "boundary" /\ row # o.of /\ row \notin Owned(o.of) =>
             LeftOf(o, row) = db[row] \/ \E w \in OwnerUpdates(r, BoundaryRows) : row \in DOMAIN w.values
      BY <2>1, <2>2, <1>0, OwnersRead
    <2>6. QED BY <2>1, <2>3, <2>4, <2>5, TableRead
  <1>3. CASE ReadBastions(r)
    <2>1. ReadTable(r, "bastions", BastionUpdates(r)) /\ pc[r] = "bastions"
      BY <1>3 DEF ReadBastions, ReadTable
    <2>2. o.kind = "delete" /\ o.of[1] = "tag"
      BY <2>1 DEF KeysInv, InOrder
    <2>3. KindOf("bastions") = "bastion" /\ "bastions" \in Reading
      BY DEF KindOf, Reading
    <2>4. \A w \in BastionUpdates(r) : w.rows # {} /\ \A row \in DOMAIN w.values : Fitting(o, row, w.values[row])
      BY <2>1, <2>2, <1>0, BastionsRead
    <2>5. \A row \in Rows : row[1] = "bastion" /\ row # o.of /\ row \notin Owned(o.of) =>
             LeftOf(o, row) = db[row] \/ \E w \in BastionUpdates(r) : row \in DOMAIN w.values
      BY <2>1, <2>2, <1>0, BastionsRead
    <2>6. QED BY <2>1, <2>3, <2>4, <2>5, TableRead
  <1>4. CASE ReadTagged(r)
    <2>1. ReadTable(r, "tagged", UntagUpdates(r)) /\ pc[r] = "tagged"
      BY <1>4 DEF ReadTagged, ReadTable
    <2>2. o.kind = "delete" /\ o.of[1] = "tag"
      BY <2>1 DEF KeysInv, InOrder
    <2>3. KindOf("tagged") = "tagged" /\ "tagged" \in Reading
      BY DEF KindOf, Reading
    <2>4. \A w \in UntagUpdates(r) : w.rows # {} /\ \A row \in DOMAIN w.values : Fitting(o, row, w.values[row])
      BY <2>1, <2>2, <1>0, TaggedRead
    <2>5. \A row \in Rows : row[1] = "tagged" /\ row # o.of /\ row \notin Owned(o.of) =>
             LeftOf(o, row) = db[row] \/ \E w \in UntagUpdates(r) : row \in DOMAIN w.values
      BY <2>1, <2>2, <1>0, TaggedRead
    <2>6. QED BY <2>1, <2>3, <2>4, <2>5, TableRead
  <1>5. QED BY <1>1, <1>2, <1>3, <1>4

-----------------------------------------------------------------------------
IsColumnUpdate(r, row) ==
    row[1] \in {"role", "boundary", "bastion"} /\ op[r].kind # "create" /\ pc[r] # "delete"

LEMMA WrittenValues ==
    ASSUME NEW r, NEW values
    PROVE  /\ DOMAIN Written(r, values) = {x \in DOMAIN values : IsColumnUpdate(r, x) => Read(r, x) # Null}
           /\ \A x \in DOMAIN Written(r, values) :
                 Written(r, values)[x] = IF IsColumnUpdate(r, x) THEN Over(values[x], Read(r, x)) ELSE values[x]
  BY DEF Written, IsColumnUpdate

LEMMA UpdateStages ==
    ASSUME KeysInv, NEW r \in Requests, NEW w, Update(r, w)
    PROVE  /\ DOMAIN staged'[r] = DOMAIN staged[r] \cup DOMAIN Written(r, w.values)
           /\ \A row \in DOMAIN staged'[r] :
                 staged'[r][row] = IF row \in DOMAIN Written(r, w.values) THEN Written(r, w.values)[row] ELSE staged[r][row]
  <1>1. staged'[r] = Over(Written(r, w.values), staged[r])
    BY DEF KeysInv, Domains, Update
  <1>2. QED BY <1>1 DEF Over

LEMMA UpdateOneTransaction ==
    ASSUME KeysInv, ValuesFit, NEW r \in Requests, NEW o \in Ops, NEW c, op[r] = o, Transaction(r, o, c), UpdateOne(r)
    PROVE  Transaction(r, o, c)'
  <1>1. PICK w \in todo[r] : Update(r, w) /\ Proceed(r, todo[r] \ {w})
    BY DEF UpdateOne
  <1> DEFINE rest == todo[r] \ {w}
  <1>2. /\ UNCHANGED <<db, used, op, caller, oneWriter>> /\ todo[r] # Unread /\ pc[r] # "idle"
        /\ todo'[r] = IF rest = {} THEN Unread ELSE rest
        /\ pc'[r] = IF rest = {} THEN NextStage(o, pc[r]) ELSE pc[r]
    BY <1>1 DEF UpdateOne, IsOpen, Proceed, KeysInv, Domains
  <1>3. /\ pc[r] \in Reading \cup {"update"} /\ (o.kind = "delete" => pc[r] \in Reading)
        /\ pc[r] \in Reading => o.kind = "delete"
        /\ pc[r] \in {"bastions", "tagged"} => o.of[1] = "tag"
    BY <1>2 DEF KeysInv, InOrder, Stages, Reading, Transaction, Deleting
  <1>4. Permitted(o, c)'
    BY <1>2, SameDb DEF Transaction
  <1>5. /\ \A row : LeftOf(o, row)' = LeftOf(o, row) /\ Edited(o, c, row)' = Edited(o, c, row)
        /\ Owned(o.of)' = Owned(o.of)
    BY <1>2, SameDb
  <1>6. CASE o.kind = "delete"
    <2>1. Deleting(r, o) /\ pc[r] \in Reading
      BY <1>3, <1>6 DEF Transaction
    <2>2. \A row \in DOMAIN w.values : Fitting(o, row, w.values[row])
      BY <1>2, <2>1 DEF Deleting
    <2>3. \A row : Read(r, row) \in {db[row], LeftOf(o, row)}
      BY <2>1 DEF Read, Deleting
    <2>4. /\ DOMAIN w.values = DOMAIN Written(r, w.values)
          /\ \A row \in DOMAIN w.values : Written(r, w.values)[row] = LeftOf(o, row)
      <3>1. \A row : IsColumnUpdate(r, row) <=> row[1] \in {"role", "boundary", "bastion"}
        BY <1>6, <2>1 DEF IsColumnUpdate, Reading
      <3>2. \A row \in DOMAIN w.values : IsColumnUpdate(r, row) =>
               /\ Read(r, row) # Null /\ Over(w.values[row], Read(r, row)) = LeftOf(o, row)
        BY <2>2, <2>3, <3>1 DEF Fitting, Has
      <3>3. \A row \in DOMAIN w.values : ~IsColumnUpdate(r, row) => w.values[row] = LeftOf(o, row)
        BY <2>2, <3>1 DEF Fitting
      <3>4. DOMAIN Written(r, w.values) = {x \in DOMAIN w.values : IsColumnUpdate(r, x) => Read(r, x) # Null}
        BY WrittenValues
      <3>5. \A x \in DOMAIN Written(r, w.values) :
               Written(r, w.values)[x] = IF IsColumnUpdate(r, x) THEN Over(w.values[x], Read(r, x)) ELSE w.values[x]
        BY DEF Written, IsColumnUpdate
      <3>6. DOMAIN Written(r, w.values) = DOMAIN w.values
        BY <3>2, <3>4
      <3>7. QED BY <3>2, <3>3, <3>5, <3>6
    <2>5. /\ DOMAIN staged'[r] = DOMAIN staged[r] \cup DOMAIN w.values
          /\ \A row \in DOMAIN staged'[r] : staged'[r][row] = LeftOf(o, row)'
      BY <1>1, <1>5, <2>1, <2>4, UpdateStages DEF Deleting
    <2>6. pc'[r] \notin {"update", "commit"}
      BY <1>2, <2>1, AfterReading DEF Reading
    <2>7. \A row, v : Fitting(o, row, v)' = Fitting(o, row, v)
      BY <1>2, <1>5 DEF Fitting, Has
    <2>8. todo'[r] # Unread => \A v \in todo'[r] : \A row \in DOMAIN v.values : Fitting(o, row, v.values[row])'
      BY <1>2, <2>1, <2>7 DEF Deleting
    <2>9. ASSUME NEW row \in Rows
          PROVE  row \in DOMAIN staged'[r] \/ LeftOf(o, row)' = db'[row] \/ IsPending(r, row)' \/ IsAhead(r, o, row)'
      <3>1. row \in DOMAIN staged[r] \/ LeftOf(o, row) = db[row] \/ IsPending(r, row) \/ IsAhead(r, o, row)
        BY <2>1 DEF Deleting
      <3>2. CASE row \in DOMAIN staged[r] \/ LeftOf(o, row) = db[row]
        BY <1>2, <1>5, <2>5, <3>2
      <3>3. CASE IsPending(r, row)
        <4>1. PICK v \in todo[r] : row \in DOMAIN v.values
          BY <3>3 DEF IsPending
        <4>2. CASE v = w
          BY <2>5, <4>1, <4>2
        <4>3. CASE v # w
          <5>1. todo'[r] = rest /\ v \in rest
            BY <1>2, <4>1, <4>3
          <5>2. rest # Unread
            <6>1. DOMAIN NoRows = {}
              BY DEF NoRows
            <6>2. \A x \in Unread : x.values = NoRows
              BY DEF Unread
            <6>3. QED BY <4>1, <5>1, <6>1, <6>2
          <5>3. QED BY <4>1, <5>1, <5>2 DEF IsPending
        <4>4. QED BY <4>2, <4>3
      <3>4. CASE row = o.of \/ row \in Owned(o.of)
        BY <1>5, <2>6, <3>4 DEF IsAhead
      <3>5. CASE row # o.of /\ row \notin Owned(o.of) /\ row[1] \in Unhandled(r)
        <4>1. CASE rest = {}
          <5>1. row[1] # KindOf(pc[r])
            BY <1>2, <2>1, <3>5 DEF Unhandled, KindOf, Reading
          <5>2. row[1] \in Unhandled(r)' \/ LeftOf(o, row) = db[row]
            BY <1>2, <1>3, <1>6, <3>5, <4>1, <5>1, Advance
          <5>3. QED BY <1>2, <1>5, <2>6, <5>2 DEF IsAhead
        <4>2. CASE rest # {}
          <5>1. row[1] \in Unhandled(r)'
            BY <1>2, <2>1, <3>5, <4>2 DEF Unhandled, Reading
          <5>2. QED BY <2>6, <5>1 DEF IsAhead
        <4>3. QED BY <4>1, <4>2
      <3>6. QED BY <3>1, <3>2, <3>3, <3>4, <3>5 DEF IsAhead
    <2>10. Deleting(r, o)'
      BY <2>5, <2>6, <2>8, <2>9 DEF Deleting
    <2>11. QED BY <1>2, <1>4, <1>6, <2>10 DEF Transaction
  <1>7. CASE o.kind # "delete"
    <2>1. Editing(r, o, c) /\ Permitted(o, c) /\ pc[r] = "update"
      BY <1>3, <1>7 DEF Transaction
    <2>2. DOMAIN staged[r] = {} /\ w = Planned(o, c) /\ rest = {}
      BY <2>1 DEF Editing
    <2>3. pc'[r] = "commit"
      BY <1>2, <2>1, <2>2 DEF NextStage
    <2>4. \A row : Read(r, row) = db[row]
      BY <2>2 DEF Read
    <2>5. \A row : IsColumnUpdate(r, row) <=> row[1] \in {"role", "boundary", "bastion"} /\ o.kind # "create"
      BY <2>1 DEF IsColumnUpdate
    <2>6. \A row \in DOMAIN w.values : IsColumnUpdate(r, row) => Has(row)
      BY <1>7, <2>1, <2>2, <2>5, PlannedObjects
    <2>7. DOMAIN Written(r, w.values) = DOMAIN w.values
      <3>1. DOMAIN Written(r, w.values) = {x \in DOMAIN w.values : IsColumnUpdate(r, x) => Read(r, x) # Null}
        BY WrittenValues
      <3>2. QED BY <2>4, <2>6, <3>1 DEF Has
    <2>8. \A row \in DOMAIN w.values : Written(r, w.values)[row] = Edited(o, c, row)
      <3>1. \A x \in DOMAIN Written(r, w.values) :
               Written(r, w.values)[x] = IF IsColumnUpdate(r, x) THEN Over(w.values[x], Read(r, x)) ELSE w.values[x]
        BY DEF Written, IsColumnUpdate
      <3>2. QED BY <2>2, <2>4, <2>5, <2>7, <3>1 DEF Edited
    <2>9. \A row : row \notin DOMAIN w.values => Edited(o, c, row) = db[row]
      BY <2>2 DEF Edited
    <2>10. DOMAIN staged'[r] = DOMAIN w.values /\ \A row \in DOMAIN w.values : staged'[r][row] = Edited(o, c, row)
      BY <1>1, <2>2, <2>7, <2>8, UpdateStages
    <2>11. \A row \in Rows : Read(r, row)' = Edited(o, c, row)'
      BY <1>2, <1>5, <2>9, <2>10 DEF Read
    <2>12. Editing(r, o, c)'
      BY <2>3, <2>11 DEF Editing
    <2>13. QED BY <1>2, <1>4, <1>7, <2>12 DEF Transaction
  <1>8. QED BY <1>6, <1>7

-----------------------------------------------------------------------------
(* The invariant, and what follows.                                        *)
LEMMA DeleteTransaction ==
    ASSUME KeysInv, ValuesFit, NEW r \in Requests, NEW o \in Ops, NEW c, op[r] = o, Transaction(r, o, c),
           DeleteObject(r), pc'[r] # "idle"
    PROVE  Transaction(r, o, c)'
  <1> DEFINE all == {o.of} \cup Owned(o.of)
             values == [x \in all |-> Null]
             w == [rows |-> all, values |-> values]
  <1>1. pc[r] = "delete" /\ todo[r] = Unread /\ o.kind = "delete"
    BY DEF DeleteObject, KeysInv, InOrder
  <1>2. Update(r, w) /\ Proceed(r, {})
    <2>1. ~Finish(r)
      BY DEF Finish, KeysInv, Domains
    <2>2. QED BY <2>1 DEF DeleteObject
  <1>3. /\ UNCHANGED <<db, used, op, caller, oneWriter>> /\ todo'[r] = Unread /\ pc'[r] = "commit"
    BY <1>1, <1>2 DEF Proceed, KeysInv, Domains, NextStage
  <1>4. Permitted(o, c)'
    BY <1>3, SameDb DEF Transaction
  <1>5. /\ \A row : LeftOf(o, row)' = LeftOf(o, row)
        /\ Owned(o.of)' = Owned(o.of)
    BY <1>3, SameDb
  <1>6. Deleting(r, o)
    BY <1>1 DEF Transaction
  <1>7. w.values = values /\ DOMAIN values = all /\ \A x \in all : values[x] = Null
    OBVIOUS
  <1> HIDE DEF values, w
  <1>8. DOMAIN Written(r, values) = all /\ \A x \in all : Written(r, values)[x] = Null
    <2>1. \A x : ~IsColumnUpdate(r, x)
      BY <1>1 DEF IsColumnUpdate
    <2>2. DOMAIN Written(r, values) = all
      <3>1. DOMAIN Written(r, values) = {x \in DOMAIN values : IsColumnUpdate(r, x) => Read(r, x) # Null}
        BY WrittenValues
      <3>2. QED BY <1>7, <2>1, <3>1
    <2>3. \A x \in DOMAIN Written(r, values) : Written(r, values)[x] = values[x]
      BY <2>1, WrittenValues
    <2>4. QED BY <1>7, <2>2, <2>3
  <1>9. \A row \in all : LeftOf(o, row) = Null
    BY DEF LeftOf, Gone
  <1>10. /\ DOMAIN staged'[r] = DOMAIN staged[r] \cup all
         /\ \A row \in DOMAIN staged'[r] : staged'[r][row] = LeftOf(o, row)'
    <2>1. /\ DOMAIN staged'[r] = DOMAIN staged[r] \cup all
          /\ \A row \in DOMAIN staged'[r] : staged'[r][row] = IF row \in all THEN Null ELSE staged[r][row]
      BY <1>2, <1>7, <1>8, UpdateStages
    <2>2. QED BY <1>5, <1>6, <1>9, <2>1 DEF Deleting
  <1>11. ASSUME NEW row \in Rows
         PROVE  row \in DOMAIN staged'[r] \/ LeftOf(o, row)' = db'[row]
    <2>1. row \in DOMAIN staged[r] \/ LeftOf(o, row) = db[row] \/ IsAhead(r, o, row)
      BY <1>1, <1>6 DEF Deleting, IsPending
    <2>2. IsAhead(r, o, row) => row \in all
      BY <1>1 DEF IsAhead, Unhandled
    <2>3. QED BY <1>3, <1>5, <1>10, <2>1, <2>2
  <1>12. Deleting(r, o)'
    BY <1>3, <1>10, <1>11 DEF Deleting
  <1>13. QED BY <1>1, <1>3, <1>4, <1>12 DEF Transaction

LEMMA BeginTransaction ==
    ASSUME KeysInv, NEW r \in Requests, NEW o \in Ops, NEW c \in Identities, NEW active, Begin(r, o, c, active),
           \A row \in Objects : Has(row) => row \in used
    PROVE  Transaction(r, o, c)'
  <1>1. /\ db' = db /\ Has(<<"identity", c>>) /\ May(o, c, active) /\ DOMAIN staged[r] = {} /\ staged' = staged
        /\ pc'[r] = FirstStage(o) /\ todo'[r] = IF o.kind = "delete" THEN Unread ELSE {Planned(o, c)}
        /\ used' = IF o.kind \in {"create", "identity"} THEN used \cup {o.of} ELSE used
    BY DEF Begin, KeysInv, Domains, InOrder
  <1>2. Permitted(o, c) /\ Permitted(o, c)'
    BY <1>1, MayPermits, SameDb
  <1>3. o.kind \in {"create", "identity"} => o.of \in used'
    BY <1>1
  <1>4. /\ \A row : LeftOf(o, row)' = LeftOf(o, row)
        /\ Owned(o.of)' = Owned(o.of) /\ Planned(o, c)' = Planned(o, c)
    BY <1>1, SameDb
  <1>5. CASE o.kind = "delete"
    <2>1. todo'[r] = Unread /\ pc'[r] = IF o.of \in Owners THEN "delete" ELSE "roles"
      BY <1>1, <1>5, DeletesObjects DEF FirstStage
    <2>2. ASSUME NEW row \in Rows
          PROVE  LeftOf(o, row)' = db'[row] \/ IsAhead(r, o, row)'
      <3>1. CASE o.of \in Owners
        <4>1. row = o.of \/ row \in Owned(o.of) \/ LeftOf(o, row) = db[row]
          <5>1. o.of[1] # "tag"
            BY <1>5, <3>1, DeletesObjects
          <5>2. row[1] \in {"tag", "identity", "member", "bastion", "tagged"} \/ row \in Owners
            BY DEF Rows, Objects, Owners
          <5>3. QED BY <1>5, <3>1, <5>1, <5>2, OthersLeft
        <4>2. QED BY <1>1, <1>4, <2>1, <3>1, <4>1 DEF IsAhead
      <3>2. CASE o.of \notin Owners
        <4>1. row[1] \in {"tag", "identity", "member"} \/ row[1] \in {"role", "boundary", "bastion", "tagged"}
          BY RowShapes
        <4>2. Unhandled(r)' = {"role", "boundary", "bastion", "tagged"}
          BY <2>1, <3>2 DEF Unhandled
        <4>3. row = o.of \/ row \in Owned(o.of) \/ row[1] \notin {"tag", "identity", "member"} \/ LeftOf(o, row) = db[row]
          BY <1>5, OthersLeft
        <4>4. QED BY <1>1, <1>4, <2>1, <3>2, <4>1, <4>2, <4>3 DEF IsAhead
      <3>3. QED BY <3>1, <3>2
    <2>3. Deleting(r, o)'
      BY <1>1, <2>1, <2>2 DEF Deleting
    <2>4. QED BY <1>2, <1>3, <1>5, <2>3 DEF Transaction
  <1>6. CASE o.kind # "delete"
    <2>1. Editing(r, o, c)'
      BY <1>1, <1>4, <1>6 DEF Editing, FirstStage
    <2>2. QED BY <1>2, <1>3, <1>6, <2>1 DEF Transaction
  <1>7. QED BY <1>5, <1>6

(* What a commit makes of the database. *)
LEMMA CommitMakes ==
    ASSUME KeysInv, Serial, NEW r \in Requests, Commit(r)
    PROVE  \E o \in Ops, c \in Identities :
              /\ op[r] = o /\ caller[r] = c /\ Permitted(o, c)
              /\ o.kind \in {"create", "identity"} => o.of \in used
              /\ \A row \in Rows : db'[row] = ResultOf(o, c, row)
  <1>1. pc[r] = "commit" /\ db' = Over(staged[r], db) /\ todo[r] = Unread
    BY DEF Commit, KeysInv, InOrder
  <1>2. PICK o \in Ops, c \in Identities : op[r] = o /\ caller[r] = c /\ Transaction(r, o, c)
    BY <1>1 DEF Serial, IsOpen
  <1>3. \A row \in Rows : db'[row] = Read(r, row)
    BY <1>1 DEF Over, Read, KeysInv, Domains
  <1>4. CASE o.kind = "delete"
    <2>1. Deleting(r, o)
      BY <1>2, <1>4 DEF Transaction
    <2>2. ASSUME NEW row \in Rows
          PROVE  Read(r, row) = LeftOf(o, row)
      BY <1>1, <2>1 DEF Deleting, Read, IsPending, IsAhead
    <2>3. QED BY <1>2, <1>3, <1>4, <2>2 DEF Transaction, ResultOf
  <1>5. CASE o.kind # "delete"
    <2>1. \A row \in Rows : Read(r, row) = Edited(o, c, row)
      BY <1>1, <1>2, <1>5 DEF Transaction, Editing
    <2>2. QED BY <1>2, <1>3, <1>5, <2>1 DEF Transaction, ResultOf
  <1>6. QED BY <1>4, <1>5

LEMMA CommitKeeps ==
    ASSUME KeysInv, Serial, NEW r \in Requests, Commit(r)
    PROVE  /\ IsSound' /\ KeepsPermissions(op[r], caller[r])
           /\ \A row \in Objects : db'[row] # Null => row \in used
  <1>1. PICK o \in Ops, c \in Identities :
              /\ op[r] = o /\ caller[r] = c /\ Permitted(o, c)
              /\ o.kind \in {"create", "identity"} => o.of \in used
              /\ \A row \in Rows : db'[row] = ResultOf(o, c, row)
    BY CommitMakes
  <1>2. IsSound /\ ValuesFit
    BY DEF Serial, IsSound
  <1>3. IsSound' /\ KeepsPermissions(o, c)
    BY <1>1, <1>2, ResultKeeps
  <1>4. ASSUME NEW row \in Objects, db'[row] # Null
        PROVE  row \in used
    <2>1. ResultOf(o, c, row) # Null
      BY <1>1, <1>4, RowShapes
    <2>2. Has(row) \/ (row = o.of /\ o.kind \in {"create", "identity"})
      BY <1>1, <1>2, <2>1, ResultObjects
    <2>3. QED BY <1>1, <2>2 DEF Serial
  <1>5. QED BY <1>1, <1>3, <1>4

LEMMA SerialStarts == ObjectsInit => SerialInv
  <1> SUFFICES ASSUME ObjectsInit PROVE SerialInv
    OBVIOUS
  <1>1. db = StartDb /\ used = DOMAIN StartRows /\ \A r \in Requests : pc[r] = "idle"
    BY DEF ObjectsInit
  <1>2. /\ DOMAIN StartRows \subseteq Rows
        /\ \A row \in DOMAIN StartRows : StartDb[row] = StartRows[row]
        /\ \A row \in Rows \ DOMAIN StartRows : StartDb[row] = Null
    BY AdminAssumption DEF StartDb, Over
  <1>3. ValuesFit
    BY <1>1, <1>2, AdminAssumption DEF ValuesFit
  <1>4. IsSound
    BY <1>1, <1>3, AdminAssumption DEF IsSound, Has
  <1>5. \A row \in Objects : Has(row) => row \in used
    BY <1>1, <1>2, RowShapes DEF Has
  <1>6. Serial
    BY <1>1, <1>4, <1>5 DEF Serial, IsOpen
  <1>7. QED BY <1>6, KeysInit DEF SerialInv

(* A step of the one open request, or one that opens it. *)
LEMMA OneIsOpen ==
    ASSUME KeysInv, Serial, NEW r \in Requests, IsSound',
           \A row \in Objects : Has(row)' => row \in used',
           \A other \in Requests \ {r} : ~IsOpen(other) /\ pc'[other] = pc[other],
           pc'[r] # "idle" => \E o \in Ops, c \in Identities : op'[r] = o /\ caller'[r] = c /\ Transaction(r, o, c)'
    PROVE  Serial'
  BY DEF Serial, IsOpen

LEMMA SerialSteps ==
    ASSUME SerialInv, [ObjectsNext]_objectVars
    PROVE  SerialInv'
  <1>1. KeysInv /\ KeysInv'
    BY StepKeepsKeys DEF SerialInv
  <1>2. SUFFICES ASSUME oneWriter' PROVE Serial'
    BY <1>1 DEF SerialInv
  <1>3. oneWriter' = oneWriter
    <2>1. ASSUME NEW r, Finish(r) PROVE oneWriter' = oneWriter
      BY <2>1 DEF Finish
    <2>2. ASSUME NEW r, NEW rest, Proceed(r, rest) PROVE oneWriter' = oneWriter
      BY <2>2 DEF Proceed
    <2>3. ASSUME NEW r, Step(r) PROVE oneWriter' = oneWriter
      BY <2>1, <2>2, <2>3 DEF Step, ReadRoles, ReadBoundaries, ReadBastions, ReadTagged, ReadTable,
                              UpdateOne, DeleteObject, Commit, Abort
    <2>4. ASSUME NEW r, NEW o, NEW c, NEW active, Begin(r, o, c, active) PROVE oneWriter' = oneWriter
      BY <2>4 DEF Begin
    <2>5. QED BY <2>3, <2>4 DEF ObjectsNext, objectVars
  <1>4. Serial /\ IsSound /\ ValuesFit /\ oneWriter
    BY <1>2, <1>3 DEF SerialInv, Serial, IsSound
  <1>5. ASSUME db' = db, used \subseteq used'
        PROVE  IsSound' /\ \A row \in Objects : Has(row)' => row \in used'
    <2>1. IsSound'
      BY <1>4, <1>5, SameDb
    <2>2. QED BY <1>4, <1>5, <2>1 DEF Serial, Has
  <1>6. ASSUME NEW r \in Requests, IsOpen(r), NEW other \in Requests \ {r}
        PROVE  ~IsOpen(other)
    BY <1>4, <1>6 DEF Serial
  <1>7. ASSUME NEW r \in Requests, NEW o \in Ops, NEW c \in Identities, NEW active, Begin(r, o, c, active)
        PROVE  Serial'
    <2>1. /\ op'[r] = o /\ caller'[r] = c /\ db' = db /\ used \subseteq used'
          /\ \A other \in Requests \ {r} : ~IsOpen(other) /\ pc'[other] = pc[other]
      BY <1>1, <1>4, <1>7 DEF Begin, KeysInv, Domains
    <2>2. Transaction(r, o, c)'
      BY <1>1, <1>4, <1>7, BeginTransaction DEF Serial
    <2>3. QED BY <1>1, <1>4, <1>5, <2>1, <2>2, OneIsOpen
  <1>8. ASSUME NEW r \in Requests, Finish(r), IsOpen(r), IsSound', \A row \in Objects : Has(row)' => row \in used'
        PROVE  Serial'
    <2>1. pc'[r] = "idle" /\ \A other \in Requests \ {r} : pc'[other] = pc[other]
      BY <1>1, <1>8 DEF Finish, KeysInv, Domains
    <2>2. QED BY <1>1, <1>4, <1>6, <1>8, <2>1, OneIsOpen
  <1>9. ASSUME NEW r \in Requests, IsOpen(r), UNCHANGED <<db, used, op, caller>>,
               \A other \in Requests \ {r} : pc'[other] = pc[other],
               \A o \in Ops, c \in Identities : op[r] = o /\ Transaction(r, o, c) => Transaction(r, o, c)'
        PROVE  Serial'
    <2>1. PICK o \in Ops, c \in Identities : op[r] = o /\ caller[r] = c /\ Transaction(r, o, c)
      BY <1>4, <1>9 DEF Serial
    <2>2. QED BY <1>1, <1>4, <1>5, <1>6, <1>9, <2>1, OneIsOpen
  <1>10. ASSUME NEW r \in Requests, ReadRoles(r) \/ ReadBoundaries(r) \/ ReadBastions(r) \/ ReadTagged(r)
         PROVE  Serial'
    <2>1. /\ IsOpen(r) /\ UNCHANGED <<db, used, op, caller>> /\ \A other \in Requests \ {r} : pc'[other] = pc[other]
      BY <1>1, <1>10 DEF ReadRoles, ReadBoundaries, ReadBastions, ReadTagged, ReadTable, Proceed, IsOpen, KeysInv, Domains
    <2>2. QED BY <1>1, <1>4, <1>9, <1>10, <2>1, ReadTransaction
  <1>11. ASSUME NEW r \in Requests, UpdateOne(r)
         PROVE  Serial'
    <2>1. /\ IsOpen(r) /\ UNCHANGED <<db, used, op, caller>> /\ \A other \in Requests \ {r} : pc'[other] = pc[other]
      BY <1>1, <1>11 DEF UpdateOne, Proceed, KeysInv, Domains
    <2>2. QED BY <1>1, <1>4, <1>9, <1>11, <2>1, UpdateOneTransaction
  <1>12. ASSUME NEW r \in Requests, DeleteObject(r)
         PROVE  Serial'
    <2>1. IsOpen(r)
      BY <1>12 DEF DeleteObject, IsOpen
    <2>2. CASE Finish(r) /\ UNCHANGED db
      <3>1. used' = used
        BY <2>2 DEF Finish
      <3>2. QED BY <1>5, <1>8, <2>1, <2>2, <3>1
    <2>3. CASE Proceed(r, {})
      <3>1. /\ UNCHANGED <<db, used, op, caller>> /\ \A other \in Requests \ {r} : pc'[other] = pc[other]
            /\ pc'[r] # "idle"
        BY <1>1, <1>12, <2>3 DEF Proceed, KeysInv, Domains, DeleteObject, NextStage
      <3>2. QED BY <1>1, <1>4, <1>9, <1>12, <2>1, <3>1, DeleteTransaction
    <2>4. QED BY <1>12, <2>2, <2>3 DEF DeleteObject
  <1>13. ASSUME NEW r \in Requests, Commit(r)
         PROVE  Serial'
    <2>1. IsOpen(r) /\ Finish(r) /\ used' = used
      BY <1>13 DEF Commit, IsOpen, Finish
    <2>2. IsSound' /\ \A row \in Objects : Has(row)' => row \in used'
      BY <1>1, <1>4, <1>13, <2>1, CommitKeeps DEF Has
    <2>3. QED BY <1>8, <2>1, <2>2
  <1>14. ASSUME NEW r \in Requests, Abort(r)
         PROVE  Serial'
    <2>1. IsOpen(r) /\ Finish(r) /\ used' = used /\ db' = db
      BY <1>14 DEF Abort, Finish
    <2>2. QED BY <1>5, <1>8, <2>1
  <1>15. CASE UNCHANGED objectVars
    <2>1. UNCHANGED <<db, used, staged, op, caller, pc, todo>>
      BY <1>15 DEF objectVars
    <2>2. \A r \in Requests, o \in Ops, c \in Identities : Transaction(r, o, c) => Transaction(r, o, c)'
      <3>1. SUFFICES ASSUME NEW r \in Requests, NEW o \in Ops, NEW c \in Identities, Transaction(r, o, c)
                     PROVE  Transaction(r, o, c)'
        OBVIOUS
      <3>2. /\ \A row : LeftOf(o, row)' = LeftOf(o, row) /\ Edited(o, c, row)' = Edited(o, c, row)
            /\ Owned(o.of)' = Owned(o.of) /\ Planned(o, c)' = Planned(o, c) /\ Permitted(o, c)'
        BY <2>1, <3>1, SameDb DEF Transaction
      <3>3. \A row, v : Fitting(o, row, v)' = Fitting(o, row, v)
        BY <2>1, <3>2 DEF Fitting, Has
      <3>4. Unhandled(r)' = Unhandled(r)
        BY <2>1 DEF Unhandled
      <3>5. Deleting(r, o) => Deleting(r, o)'
        BY <2>1, <3>2, <3>3, <3>4 DEF Deleting, IsPending, IsAhead
      <3>6. Editing(r, o, c) => Editing(r, o, c)'
        BY <2>1, <3>2 DEF Editing, Read
      <3>7. QED BY <2>1, <3>1, <3>2, <3>5, <3>6 DEF Transaction
    <2>3. QED BY <1>4, <1>5, <2>1, <2>2 DEF Serial, IsOpen
  <1>16. QED BY <1>7, <1>10, <1>11, <1>12, <1>13, <1>14, <1>15 DEF ObjectsNext, Step

(* Whatever is asked for, and whatever fails.                              *)
LEMMA SerialHolds == ObjectsSpec => []SerialInv
  BY SerialStarts, SerialSteps, PTL DEF ObjectsSpec

(* On a database that serializes writers, every deletion leaves a database   *)
(* where what is named is there, although nothing but the code of the delete *)
(* endpoints sees to it.                                                     *)
THEOREM NamesHold == ObjectsSpec => []NothingDangles
  <1>1. SerialInv => NothingDangles
    BY DEF SerialInv, Serial, IsSound, NothingDangles
  <1>2. QED BY <1>1, SerialHolds, PTL

(* On such a database, a deletion changes what nobody may do, and no request *)
(* gets its caller, or an identity that it creates, out of their bounds.     *)
THEOREM PermissionsHold == ObjectsSpec => PermissionsChangeByEditsOnly
  <1> DEFINE good(r) ==
          LET bounds == BoundsOf(caller[r])
              isSet(row) == op[r].of = row /\ (row[1] = "boundary" => row[2] \notin bounds)
          IN  /\ \A row \in Owners : Has(row) /\ db'[row] # Null =>
                    \A column \in DOMAIN db[row] :
                       IsAsWide(row, column) \/ isSet(row) \/ op[r].kind = "tags"
              /\ \A b \in bounds : Has(<<"boundary", b>>) => db'[<<"boundary", b>>] # Null
              /\ \A i \in Identities :
                    ~Has(<<"identity", i>>) /\ db'[<<"identity", i>>] # Null
                        => bounds \subseteq db'[<<"identity", i>>].boundaries
  <1>1. ASSUME SerialInv, NEW r \in Requests, Commit(r), oneWriter
        PROVE  good(r)
    <2>1. KeepsPermissions(op[r], caller[r])
      BY <1>1, CommitKeeps DEF SerialInv
    <2>2. QED BY <2>1 DEF KeepsPermissions
  <1>2. SerialInv => \A r \in Requests : Commit(r) /\ oneWriter => good(r)
    BY <1>1
  <1>3. QED BY <1>2, SerialHolds, PTL DEF PermissionsChangeByEditsOnly

(* Both together, as the runs check them.                                   *)
THEOREM EditsHold == ObjectsSpec => ChangesAreEditsAndAudited
  BY PermissionsHold, AuditsTell DEF ChangesAreEditsAndAudited
=============================================================================
