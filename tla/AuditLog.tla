------------------------------ MODULE AuditLog ------------------------------
(***************************************************************************)
(* The requests of one tenant, their transactions, and the audit log they   *)
(* write (api/dependencies.py, api/context.py, api/model/audit_log.py).     *)
(*                                                                         *)
(* A request runs its handler in one transaction.  An audit entry that the  *)
(* handler asks for is not inserted at once: it waits in the request's      *)
(* Deferred lists until the handler has returned.  Then every insert draws  *)
(* its number from a counter row, whose lock is kept until the commit.  A   *)
(* rejection (ProblemHTTPException) rolls the transaction back and writes   *)
(* what was deferred for that case in a transaction of its own.  Mail goes  *)
(* out after the commit.  Readers page through the log with a cursor.       *)
(*                                                                         *)
(* The database is the general one (Postgres, MariaDB): row locks, and      *)
(* READ COMMITTED isolation.  SQLite's queue of writers only removes        *)
(* interleavings; dependencies.py says correctness must not depend on it.   *)
(*                                                                         *)
(* A definition whose name ends in _Something, before the definition it is  *)
(* a variant of, is a mistake that one of the properties must catch.        *)
(***************************************************************************)
EXTENDS Naturals, FiniteSets

CONSTANTS Requests,    \* the requests, each runs once
          Readers,     \* the exporters that follow the log
          Rows,        \* rows other than the counter that handlers lock
          NoOne,       \* a lock that nobody holds, a request that waits for nothing
          MaxWrites,   \* bound: entries that one request asks for
          MaxLimit     \* bound: the page size a reader may ask for

ASSUME AuditAssumption ==
    /\ MaxWrites \in Nat
    /\ MaxLimit \in Nat
    /\ NoOne \notin Requests
    /\ NoOne \notin Rows

VARIABLES
    pc,          \* how far each request is
    deferred,    \* the Deferred lists of each request (their lengths)
    inserted,    \* entries inserted so far by the open transaction of each request
    uncommitted, \* those entries, which nobody else can see yet
    rowLock,     \* which transaction holds each row lock
    want,        \* the row a handler is blocked on
    counterLock, \* which transaction holds the lock of the counter row
    drawn,       \* the counter row as the holder of its lock sees it (0: nobody holds it)
    counter,     \* the counter row as committed
    log,         \* the committed entries
    mailed,      \* requests whose after_commit action has run
    cursor,      \* the position in the cursor of each reader
    seen         \* the entries that each reader got

txVars == <<pc, deferred, inserted, uncommitted, rowLock, want, mailed>>
counterVars == <<counterLock, drawn, counter, log>>
readerVars == <<cursor, seen>>
vars == <<txVars, counterVars, readerVars>>

PcStates == {"idle", "handler", "flushing", "notifying", "recording",
             "ok", "rejected", "failed", "unnotified"}
Kinds == {"handler", "rejection"}
Entries == [id : Nat, by : Requests, kind : Kinds, nth : Nat]
DeferredLists == [before : 0 .. MaxWrites, mail : BOOLEAN, rejection : 0 .. MaxWrites]
NothingDeferred == [before |-> 0, mail |-> FALSE, rejection |-> 0]

(* The requests whose handler returned and whose transaction committed. *)
Committed == {r \in Requests : pc[r] \in {"notifying", "ok", "unnotified"}}

Init ==
    /\ pc = [r \in Requests |-> "idle"]
    /\ deferred = [r \in Requests |-> NothingDeferred]
    /\ inserted = [r \in Requests |-> 0]
    /\ uncommitted = [r \in Requests |-> {}]
    /\ rowLock = [row \in Rows |-> NoOne]
    /\ want = [r \in Requests |-> NoOne]
    /\ counterLock = NoOne
    /\ drawn = 0
    /\ counter = 0
    /\ log = {}
    /\ mailed = {}
    /\ cursor = [rd \in Readers |-> 0]
    /\ seen = [rd \in Readers |-> {}]

-----------------------------------------------------------------------------
(* The handler. *)

Running(r) == pc[r] = "handler" /\ want[r] = NoOne

Begin(r) ==
    /\ pc[r] = "idle"
    /\ pc' = [pc EXCEPT ![r] = "handler"]
    /\ UNCHANGED <<deferred, inserted, uncommitted, rowLock, want, mailed, counterVars, readerVars>>

(* audit_log.create: the entry is named now and inserted at the end. *)
AuditCreate(r) ==
    /\ Running(r)
    /\ deferred[r].before < MaxWrites
    /\ deferred' = [deferred EXCEPT ![r].before = @ + 1]
    /\ UNCHANGED <<pc, inserted, uncommitted, rowLock, want, mailed, counterVars, readerVars>>

(* ctx.after_commit: the invitation mail. *)
DeferMail(r) ==
    /\ Running(r)
    /\ ~deferred[r].mail
    /\ deferred' = [deferred EXCEPT ![r].mail = TRUE]
    /\ UNCHANGED <<pc, inserted, uncommitted, rowLock, want, mailed, counterVars, readerVars>>

(* The handler updates or locks a row of its own business; it blocks while  *)
(* another transaction holds the row.                                       *)
AskRow(r, row) ==
    /\ Running(r)
    /\ rowLock[row] # r
    /\ want' = [want EXCEPT ![r] = row]
    /\ UNCHANGED <<pc, deferred, inserted, uncommitted, rowLock, mailed, counterVars, readerVars>>

TakeRow(r) ==
    /\ want[r] # NoOne
    /\ rowLock[want[r]] = NoOne
    /\ rowLock' = [rowLock EXCEPT ![want[r]] = r]
    /\ want' = [want EXCEPT ![r] = NoOne]
    /\ UNCHANGED <<pc, deferred, inserted, uncommitted, mailed, counterVars, readerVars>>

HandlerReturns(r) ==
    /\ Running(r)
    /\ pc' = [pc EXCEPT ![r] = "flushing"]
    /\ UNCHANGED <<deferred, inserted, uncommitted, rowLock, want, mailed, counterVars, readerVars>>

-----------------------------------------------------------------------------
(* The end of a transaction. *)

(* The transaction of r is over: its locks are free, what it did not commit *)
(* is gone, and with it the value that it gave to the counter.              *)
CloseTransaction_LeaksLock(r) ==
    /\ uncommitted' = [uncommitted EXCEPT ![r] = {}]
    /\ inserted' = [inserted EXCEPT ![r] = 0]
    /\ rowLock' = [row \in Rows |-> IF rowLock[row] = r THEN NoOne ELSE rowLock[row]]
    /\ want' = [want EXCEPT ![r] = NoOne]
    /\ UNCHANGED <<counterLock, drawn>>

CloseTransaction(r) ==
    /\ uncommitted' = [uncommitted EXCEPT ![r] = {}]
    /\ inserted' = [inserted EXCEPT ![r] = 0]
    /\ rowLock' = [row \in Rows |-> IF rowLock[row] = r THEN NoOne ELSE rowLock[row]]
    /\ want' = [want EXCEPT ![r] = NoOne]
    /\ counterLock' = IF counterLock = r THEN NoOne ELSE counterLock
    /\ drawn' = IF counterLock = r THEN 0 ELSE drawn

Publish(r) ==
    /\ log' = log \cup uncommitted[r]
    /\ counter' = IF counterLock = r THEN drawn ELSE counter

(* A number that is drawn is gone, as with a database sequence.              *)
Rollback_BurnsNumber ==
    /\ counter' = IF counterLock # NoOne THEN drawn ELSE counter
    /\ UNCHANGED log

Rollback == UNCHANGED <<log, counter>>

(* create_after_rollback, as often as the handler calls it, then the raise. *)
Reject(r, n) ==
    /\ Running(r)
    /\ deferred' = [deferred EXCEPT ![r].rejection = n]
    /\ pc' = [pc EXCEPT ![r] = IF n = 0 THEN "rejected" ELSE "recording"]
    /\ CloseTransaction(r)
    /\ Rollback
    /\ UNCHANGED <<mailed, readerVars>>

(* Any other exception, a deadlock victim, a commit that fails, a crash. *)
Fail(r) ==
    /\ pc[r] \in {"handler", "flushing"}
    /\ pc' = [pc EXCEPT ![r] = "failed"]
    /\ CloseTransaction(r)
    /\ Rollback
    /\ UNCHANGED <<deferred, mailed, readerVars>>

-----------------------------------------------------------------------------
(* Inserting the entries: audit_log._write.insert. *)

Phase(r) == IF pc[r] = "recording" THEN "rejection" ELSE "handler"
ToInsert(r) == IF pc[r] = "recording" THEN deferred[r].rejection ELSE deferred[r].before

(* When the insert of an entry may run: after the handler, never during it. *)
MayInsert(r) == pc[r] \in {"flushing", "recording"}

(* UPDATE ... SET value = value + 1 blocks while another open transaction   *)
(* has updated the row.                                                     *)
CounterIsFree_NoLock(r) == TRUE

CounterIsFree(r) == counterLock \in {NoOne, r}

CounterSeenBy(r) == IF counterLock = r THEN drawn ELSE counter

Insert(r) ==
    /\ MayInsert(r)
    /\ inserted[r] < ToInsert(r)
    /\ CounterIsFree(r)
    /\ counterLock' = r
    /\ drawn' = CounterSeenBy(r) + 1
    /\ inserted' = [inserted EXCEPT ![r] = @ + 1]
    /\ uncommitted' = [uncommitted EXCEPT ![r] =
           @ \cup {[id |-> drawn', by |-> r, kind |-> Phase(r), nth |-> inserted[r] + 1]}]
    /\ UNCHANGED <<pc, deferred, rowLock, want, mailed, counter, log, readerVars>>

Commit(r) ==
    /\ pc[r] = "flushing"
    /\ inserted[r] = ToInsert(r)
    /\ pc' = [pc EXCEPT ![r] = IF deferred[r].mail THEN "notifying" ELSE "ok"]
    /\ Publish(r)
    /\ CloseTransaction(r)
    /\ UNCHANGED <<deferred, mailed, readerVars>>

(* The transaction of _run_after_rollback. *)
CommitRejection(r) ==
    /\ pc[r] = "recording"
    /\ inserted[r] = ToInsert(r)
    /\ pc' = [pc EXCEPT ![r] = "rejected"]
    /\ Publish(r)
    /\ CloseTransaction(r)
    /\ UNCHANGED <<deferred, mailed, readerVars>>

(* A failure to record is logged and swallowed: the client is rejected.     *)
FailRejection_KeepsPart(r) ==
    /\ pc[r] = "recording"
    /\ pc' = [pc EXCEPT ![r] = "rejected"]
    /\ Publish(r)
    /\ CloseTransaction(r)
    /\ UNCHANGED <<deferred, mailed, readerVars>>

FailRejection(r) ==
    /\ pc[r] = "recording"
    /\ pc' = [pc EXCEPT ![r] = "rejected"]
    /\ CloseTransaction(r)
    /\ Rollback
    /\ UNCHANGED <<deferred, mailed, readerVars>>

(* The after_commit actions, before the response is sent. *)
Notify(r) ==
    /\ pc[r] = "notifying"
    /\ mailed' = mailed \cup {r}
    /\ pc' = [pc EXCEPT ![r] = "ok"]
    /\ UNCHANGED <<deferred, inserted, uncommitted, rowLock, want, counterVars, readerVars>>

(* The mail cannot be sent, or the server stops first: the data stays.      *)
FailNotify(r) ==
    /\ pc[r] = "notifying"
    /\ pc' = [pc EXCEPT ![r] = "unnotified"]
    /\ UNCHANGED <<deferred, inserted, uncommitted, rowLock, want, mailed, counterVars, readerVars>>

-----------------------------------------------------------------------------
(* Readers: audit_log.read_page, oldest first, from the cursor. *)

After(rd) == {e \in log : e.id > cursor[rd]}

(* The rows that come first after the cursor, at most `limit` of them.      *)
PageOf_NewestFirst(rd, limit) ==
    {e \in After(rd) : Cardinality({f \in After(rd) : f.id > e.id}) < limit}

PageOf(rd, limit) ==
    {e \in After(rd) : Cardinality({f \in After(rd) : f.id < e.id}) < limit}

ReadPage(rd, limit) ==
    LET page == PageOf(rd, limit) IN
    /\ page # {}
    /\ seen' = [seen EXCEPT ![rd] = @ \cup page]
    /\ \E last \in page :
          /\ \A e \in page : e.id <= last.id
          /\ cursor' = [cursor EXCEPT ![rd] = last.id]
    /\ UNCHANGED <<txVars, counterVars>>

-----------------------------------------------------------------------------
RequestStep(r) ==
    \/ Begin(r)
    \/ AuditCreate(r)
    \/ DeferMail(r)
    \/ \E row \in Rows : AskRow(r, row)
    \/ TakeRow(r)
    \/ HandlerReturns(r)
    \/ \E n \in 0 .. MaxWrites : Reject(r, n)
    \/ Fail(r)
    \/ Insert(r)
    \/ Commit(r)
    \/ CommitRejection(r)
    \/ FailRejection(r)
    \/ Notify(r)
    \/ FailNotify(r)

Next ==
    \/ \E r \in Requests : RequestStep(r)
    \/ \E rd \in Readers, limit \in 1 .. MaxLimit : ReadPage(rd, limit)

Spec == Init /\ [][Next]_vars

(* A request that has reached its end is driven by the server: the inserts,  *)
(* the commit and the actions after it.  The handler itself may block on    *)
(* rows, so nothing is assumed of it.                                        *)
Fairness == \A r \in Requests :
    WF_vars(Insert(r) \/ Commit(r) \/ CommitRejection(r) \/ Notify(r))

FairSpec == Spec /\ Fairness

-----------------------------------------------------------------------------
(* Properties. *)

TypeOK ==
    /\ pc \in [Requests -> PcStates]
    /\ deferred \in [Requests -> DeferredLists]
    /\ inserted \in [Requests -> 0 .. MaxWrites]
    /\ uncommitted \in [Requests -> SUBSET Entries]
    /\ rowLock \in [Rows -> Requests \cup {NoOne}]
    /\ want \in [Requests -> Rows \cup {NoOne}]
    /\ counterLock \in Requests \cup {NoOne}
    /\ drawn \in Nat
    /\ counter \in Nat
    /\ log \subseteq Entries
    /\ mailed \subseteq Requests
    /\ cursor \in [Readers -> Nat]
    /\ seen \in [Readers -> SUBSET Entries]

(* Entry numbers are handed out in commit order and a rolled back request    *)
(* leaves no hole (app_db.AuditLogCounterRow): whatever transactions are     *)
(* open, the committed numbers are 1 .. counter, each used once.             *)
NoHoles ==
    /\ {e.id : e \in log} = 1 .. counter
    /\ \A e, f \in log : e.id = f.id => e = f

(* A reader that follows the cursor never misses an entry: no entry is ever  *)
(* committed behind a position that a reader has already passed              *)
(* (audit_log.read_page and the counter lock of audit_log._write).           *)
ReadersMissNothing ==
    \A rd \in Readers : seen[rd] = {e \in log : e.id <= cursor[rd]}

(* A request is one all-or-nothing unit of work (dependencies.py): the       *)
(* entries of its handler are in the log, all of them, exactly when its      *)
(* transaction committed, its mail is sent only after that, and a rejected   *)
(* request leaves at most what it deferred for its rejection, all of it or   *)
(* none.                                                                     *)
EntriesOf(r, kind) == {e \in log : e.by = r /\ e.kind = kind}

AllOrNothing ==
    \A r \in Requests :
        /\ {e.nth : e \in EntriesOf(r, "handler")} =
               IF r \in Committed THEN 1 .. deferred[r].before ELSE {}
        /\ r \in mailed => r \in Committed
        /\ EntriesOf(r, "rejection") # {} =>
               /\ pc[r] = "rejected"
               /\ {e.nth : e \in EntriesOf(r, "rejection")} = 1 .. deferred[r].rejection

(* A handler that returned gets its answer: nothing that happens at the      *)
(* counter keeps a request waiting for ever.                                 *)
FlushEnds ==
    \A r \in Requests :
        pc[r] \in {"flushing", "recording"} ~>
            pc[r] \in {"ok", "rejected", "failed", "unnotified"}

(* The log as AuditTrail describes it. *)
EntryAt(i) == CHOOSE e \in log : e.id = i

Trail == INSTANCE AuditTrail WITH
    Authors <- Requests,
    trail <- [i \in 1 .. counter |-> EntryAt(i).by],
    position <- cursor

(* The counter, its lock and the deferred inserts implement an append-only   *)
(* trail that its readers walk without missing or repeating an entry.        *)
ImplementsTrail == Trail!Spec
=============================================================================
