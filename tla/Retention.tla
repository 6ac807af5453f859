----------------------------- MODULE Retention -----------------------------
(***************************************************************************)
(* The purge of old records (api/purge.py, api/model/retention.py).  A run *)
(* deletes the entries of the audit log that are past the period of their  *)
(* class, in batches that are transactions of their own, then the live     *)
(* sessions that ended long ago, and writes at last one entry that says    *)
(* how much it deleted.                                                    *)
(*                                                                         *)
(* Meanwhile requests write entries, and a second run may be under way:    *)
(* one from the scheduler, one by hand.  A transaction reads its batch     *)
(* and then deletes it.  A database that locks the whole file lets no      *)
(* other writer in between; the others do (fileLock).                      *)
(*                                                                         *)
(* The names of one object stand for those of all objects.                 *)
(***************************************************************************)
EXTENDS Integers, FiniteSets, FiniteSetsExt

CONSTANTS
    Runs,           \* the runs that may be under way at once
    Names,          \* names that the object has had
    None,
    AuditDays, ActivityDays,    \* the two periods
    BatchSize,
    Sessions,       \* live sessions
    Skew,           \* an entry or an end is dated at most this long before it is written
    MaxNow, MaxEntries, MaxCrashes  \* bounds

ASSUME RetentionAssumption ==
    /\ AuditDays \in Nat /\ ActivityDays \in Nat /\ BatchSize \in Nat \ {0}
    /\ Skew \in Nat
    /\ MaxNow \in Nat /\ MaxEntries \in Nat /\ MaxCrashes \in Nat
    /\ None \notin Names /\ IsFiniteSet(Sessions)

VARIABLES
    now,
    counter,        \* audit_log_counter
    log,            \* audit_log: per number, its time, class and the name it gives
    refs,           \* audit_log_ref: the numbers of the entries that refs belong to
    names,          \* audit_log_object_name: per name, the entry that introduced it
    sessions,       \* live_session: per session in the table, its end or None
    run,            \* per run: where it is, its time and its batch
    result,         \* per run: what it has deleted
    recorded,       \* the sum of the results that were written to the log
    gone,           \* history: what has been deleted
    crashes,
    fileLock        \* of the database, for ever: a transaction that will write keeps all others out

vars == <<now, counter, log, refs, names, sessions, run, result, recorded, gone, crashes, fileLock>>

Classes == {"audit", "activity", "exempt"}
Nothing == [entries |-> 0, refs |-> 0, names |-> 0, sessions |-> 0, highest |-> 0]
IdleRun == [pc |-> "idle", at |-> 0, batch |-> {}]

Init ==
    /\ now = 0 /\ counter = 0 /\ crashes = 0
    /\ log = <<>> /\ refs = {} /\ names = <<>>
    /\ sessions = [s \in Sessions |-> None]
    /\ run = [r \in Runs |-> IdleRun]
    /\ result = [r \in Runs |-> Nothing]
    /\ recorded = Nothing
    /\ gone = [entries |-> {}, sessions |-> {}]
    /\ fileLock \in BOOLEAN

(* No other transaction is open that keeps this one out.                   *)
MayWrite == fileLock => \A r \in Runs : run[r].pc \notin {"delete", "deleteLive"}

-----------------------------------------------------------------------------
(* Requests.                                                               *)

Number == counter + 1

(* An entry with a name gives that name to the object; a name that the     *)
(* table has keeps the entry that introduced it (create_if_absent).        *)
Write(class, name, at) ==
    /\ MayWrite /\ counter < MaxEntries
    /\ name # None => class = "audit"
    /\ counter' = Number
    /\ log' = [i \in DOMAIN log \cup {counter'} |->
                  IF i = counter' THEN [at |-> at, class |-> class, name |-> name] ELSE log[i]]
    /\ refs' = refs \cup {counter'}
    /\ names' = IF name = None \/ name \in DOMAIN names THEN names
                ELSE [n \in DOMAIN names \cup {name} |-> IF n = name THEN counter' ELSE names[n]]
    /\ UNCHANGED <<now, sessions, run, result, recorded, gone, crashes, fileLock>>

EndSession(s, at) ==
    /\ MayWrite /\ s \in DOMAIN sessions /\ sessions[s] = None
    /\ sessions' = [sessions EXCEPT ![s] = at]
    /\ UNCHANGED <<now, counter, log, refs, names, run, result, recorded, gone, crashes, fileLock>>

Tick == now < MaxNow /\ now' = now + 1
        /\ UNCHANGED <<counter, log, refs, names, sessions, run, result, recorded, gone, crashes, fileLock>>

-----------------------------------------------------------------------------
(* A run.                                                                  *)

Start(r) ==
    /\ run[r].pc = "idle"
    /\ run' = [run EXCEPT ![r] = [IdleRun EXCEPT !.pc = "read", !.at = now]]
    /\ result' = [result EXCEPT ![r] = Nothing]
    /\ UNCHANGED <<now, counter, log, refs, names, sessions, recorded, gone, crashes, fileLock>>

First(s, n) == {i \in s : Cardinality({j \in s : j < i}) < n}

Expired_OnePeriod(at, class) == {i \in DOMAIN log : log[i].class = class /\ log[i].at < at - ActivityDays}

Expired(at, class) ==
    {i \in DOMAIN log :
        /\ log[i].class = class
        /\ log[i].at < at - (IF class = "activity" THEN ActivityDays ELSE AuditDays)}

(* (audit + activity)[:batch_size]                                         *)
Batch_AuditFirst(at) == First(Expired(at, "audit"), BatchSize)

Batch(at) ==
    LET audit == First(Expired(at, "audit"), BatchSize)
    IN  audit \cup First(Expired(at, "activity"), BatchSize - Cardinality(audit))

ReadBatch(r) ==
    /\ run[r].pc = "read" /\ MayWrite
    /\ LET batch == Batch(run[r].at)
       IN  run' = [run EXCEPT ![r].batch = batch, ![r].pc = IF batch = {} THEN "readLive" ELSE "delete"]
    /\ UNCHANGED <<now, counter, log, refs, names, sessions, result, recorded, gone, crashes, fileLock>>

NamesOf(batch) == {n \in DOMAIN names : names[n] \in batch}

(* The entries are counted as they were read, their refs and names as they *)
(* were deleted.                                                           *)
Counted_LastBatch(sum, batch) ==
    [sum EXCEPT !.entries = Cardinality(batch),
                   !.refs = @ + Cardinality(refs \cap batch),
                   !.names = @ + Cardinality(NamesOf(batch)),
                   !.highest = Max(batch \cup {@})]

Counted(sum, batch) ==
    [sum EXCEPT !.entries = @ + Cardinality(batch),
                   !.refs = @ + Cardinality(refs \cap batch),
                   !.names = @ + Cardinality(NamesOf(batch)),
                   !.highest = Max(batch \cup {@})]

RefsAfter_AuditOnly(batch) == refs \ {i \in batch \cap DOMAIN log : log[i].class = "audit"}

RefsAfter(batch) == refs \ batch

DeleteBatch(r) ==
    /\ run[r].pc = "delete"
    /\ LET batch == run[r].batch
       IN  /\ run' = [run EXCEPT ![r].pc = "read", ![r].batch = {}]
           /\ result' = [result EXCEPT ![r] = Counted(@, batch)]
           /\ refs' = RefsAfter(batch)
           /\ names' = [n \in DOMAIN names \ NamesOf(batch) |-> names[n]]
           /\ log' = [i \in DOMAIN log \ batch |-> log[i]]
           /\ gone' = [gone EXCEPT !.entries = @ \cup (batch \cap DOMAIN log)]
    /\ UNCHANGED <<now, counter, sessions, recorded, crashes, fileLock>>

EndedBefore(cutoff) == {s \in DOMAIN sessions : sessions[s] # None /\ sessions[s] < cutoff}

ReadLive(r) ==
    /\ run[r].pc = "readLive" /\ MayWrite
    /\ \E batch \in SUBSET EndedBefore(run[r].at - ActivityDays) :
           /\ Cardinality(batch) =
                  Min({BatchSize, Cardinality(EndedBefore(run[r].at - ActivityDays))})
           /\ run' = [run EXCEPT ![r].batch = batch, ![r].pc = IF batch = {} THEN "record" ELSE "deleteLive"]
    /\ UNCHANGED <<now, counter, log, refs, names, sessions, result, recorded, gone, crashes, fileLock>>

DeleteLive(r) ==
    /\ run[r].pc = "deleteLive"
    /\ LET batch == run[r].batch \cap DOMAIN sessions
       IN  /\ sessions' = [s \in DOMAIN sessions \ batch |-> sessions[s]]
           /\ gone' = [gone EXCEPT !.sessions = @ \cup batch]
           /\ run' = [run EXCEPT ![r].pc = "readLive", ![r].batch = {}]
           /\ result' = [result EXCEPT ![r].sessions = @ + Cardinality(batch)]
    /\ UNCHANGED <<now, counter, log, refs, names, recorded, crashes, fileLock>>

Sum(x, y) ==
    [entries |-> x.entries + y.entries, refs |-> x.refs + y.refs, names |-> x.names + y.names,
     sessions |-> x.sessions + y.sessions, highest |-> Max({x.highest, y.highest})]

(* The entry is of the exempt class; its number is not of interest here.   *)
Record(r) ==
    /\ run[r].pc = "record" /\ MayWrite
    /\ recorded' = IF result[r] = Nothing THEN recorded ELSE Sum(recorded, result[r])
    /\ run' = [run EXCEPT ![r] = IdleRun]
    /\ result' = [result EXCEPT ![r] = Nothing]
    /\ UNCHANGED <<now, counter, log, refs, names, sessions, gone, crashes, fileLock>>

(* The process ends, or a statement fails: main logs it and goes on with   *)
(* the next tenant.  An open transaction is rolled back.                   *)
Fail(r) ==
    /\ run[r].pc # "idle" /\ crashes < MaxCrashes
    /\ crashes' = crashes + 1
    /\ run' = [run EXCEPT ![r] = IdleRun]
    /\ result' = [result EXCEPT ![r] = Nothing]
    /\ UNCHANGED <<now, counter, log, refs, names, sessions, recorded, gone, fileLock>>

RunStep(r) == \/ Start(r) \/ ReadBatch(r) \/ DeleteBatch(r) \/ ReadLive(r) \/ DeleteLive(r) \/ Record(r)

Next ==
    \/ \E class \in Classes, name \in Names \cup {None}, d \in 0..Skew :
           d <= now /\ Write(class, name, now - d)
    \/ \E s \in Sessions, d \in 0..Skew : d <= now /\ EndSession(s, now - d)
    \/ \E r \in Runs : RunStep(r) \/ Fail(r)
    \/ Tick

Spec == Init /\ [][Next]_vars

(* The scheduler starts a run again and again, and a run that is under way *)
(* goes on.                                                                *)
FairSpec == Spec /\ \A r \in Runs : WF_vars(RunStep(r))

-----------------------------------------------------------------------------
(* Types; a batch holds numbers of entries, or sessions.                   *)
TypeOK ==
    /\ now \in Nat /\ counter \in Nat /\ crashes \in Nat /\ fileLock \in BOOLEAN
    /\ DOMAIN log \subseteq 1..counter
    /\ \A i \in DOMAIN log : log[i].class \in Classes /\ log[i].at \in 0..now
    /\ DOMAIN names \subseteq Names /\ DOMAIN sessions \subseteq Sessions
    /\ \A r \in Runs : run[r].at <= now /\ (run[r].pc = "delete" => run[r].batch \subseteq 1..counter)

(* "Each transaction deletes whole entries, so the database is consistent  *)
(* after every one": the refs are those of the entries that are there, and *)
(* no name outlives the entry that introduced it.                          *)
WholeEntries ==
    /\ refs = DOMAIN log
    /\ \A n \in DOMAIN names : names[n] \in DOMAIN log /\ log[names[n]].name = n

(* Nothing is deleted before the period of its class is over, and the      *)
(* entries of the exempt class never are.                                  *)
NothingGoesEarly ==
    [][/\ \A i \in DOMAIN log \ DOMAIN log' :
              /\ log[i].class # "exempt"
              /\ now - log[i].at > (IF log[i].class = "activity" THEN ActivityDays ELSE AuditDays)
       /\ \A s \in DOMAIN sessions \ DOMAIN sessions' :
              sessions[s] # None /\ now - sessions[s] > ActivityDays]_vars

(* "We record in the audit log metadata (count, start and end date of the  *)
(* entries that were deleted) about each data purge": on a database that   *)
(* locks the file, and as long as no run has failed, the records account   *)
(* for what has been deleted once no run is under way.                     *)
DeletionsAreRecorded ==
    (fileLock /\ crashes = 0 /\ \A r \in Runs : run[r].pc = "idle") =>
        /\ recorded.entries = Cardinality(gone.entries)
        /\ recorded.sessions = Cardinality(gone.sessions)
        /\ recorded.highest = Max(gone.entries \cup {0})

(* A search that follows a name starts from "every object that ever had    *)
(* this name": an entry that gives a name, and is in the log, is found     *)
(* under that name.                                                        *)
NamesAreFollowed == \A i \in DOMAIN log : log[i].name # None => log[i].name \in DOMAIN names

(* Every entry whose period is over is deleted, whatever is written        *)
(* meanwhile, and whichever class the batches take first.                  *)
ExpiredGoes ==
    \A i \in 1..MaxEntries :
        (i \in Expired(now, "audit") \cup Expired(now, "activity")) ~> (i \notin DOMAIN log)
=============================================================================
