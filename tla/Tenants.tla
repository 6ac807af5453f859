------------------------------ MODULE Tenants ------------------------------
(* The tenants of a server: how the first one is made, how one is created, *)
(* initialized, changed and deleted.                                       *)
(*                                                                         *)
(* The registry has a row per tenant, and a database of its own per tenant *)
(* holds its identities and its audit log. Every request writes under two  *)
(* transactions, one on its tenant and one on the registry, and a change   *)
(* of another tenant under a third. On sqlite a transaction that may write *)
(* locks its whole file from its begin; on a server, a row is locked from  *)
(* its update, and all the tenants share a pool of connections.            *)
(*                                                                         *)
(* The values of one column stand for all the columns that a change may    *)
(* set; "on" is is_enabled. Grants are those of root: only the root tenant *)
(* may create. Requests that only read hold no lock another waits for and  *)
(* are left out.                                                           *)
EXTENDS Naturals, FiniteSets, Sequences, SequencesExt

CONSTANTS
    Tenants,    \* by uuid
    Root,       \* ROOT_TENANT_UUID
    Requests,   \* numbers; each is sent once, in that order
    None,
    Ops,        \* what requests may ask for: [kind, at, of, field, val]
    First,      \* the display name every tenant is created with
    Starts,     \* sets of tenants that are there and initialized at the start
    Backends,   \* of "file", "server"
    PoolSize,   \* connections that the tenants of a server share
    MaxFaults,  \* failures and crashes
    MaxSplits   \* of those, the ones between two commits of one unit

VARIABLES
    backend,
    server,     \* "down", "stamped", "made" or "up"
    registry,   \* whether the registry has its tables and alembic_version
    row,        \* per tenant: its committed row of the registry, or None
    tables,     \* the tenants whose database has its tables
    founder,    \* the tenants whose founding identity is committed
    keys,       \* per tenant: how many answers carried a founder's key
    log,        \* per tenant: the TENANT_UPDATE entries in its audit log
    req,        \* per request: [pc, op, seen, put, told]
    faults, splits

vars == <<backend, server, registry, row, tables, founder, keys, log, req, faults, splits>>

units == <<faults, splits>>

NewRow(owner) == [owner |-> owner, on |-> TRUE, init |-> FALSE, gone |-> FALSE, name |-> First]

TenantRow ==
    [owner : Tenants \union {None}, on : BOOLEAN, init : BOOLEAN, gone : BOOLEAN,
     name : {First} \union {op.val : op \in {o \in Ops : o.field = "name"}}]

Idle == [pc |-> "idle", op |-> None, seen |-> None, put |-> None, told |-> FALSE]

InTenant(r) == req[r].pc \in {"open", "reading", "writing", "telling", "ending", "closing"}

InRegistry(r) == req[r].pc \in {"reading", "writing", "telling", "ending"}

Files == backend = "file"

(* begin: BEGIN IMMEDIATE waits for the file, a server for a connection.   *)
TenantIsFree(t) ==
    IF Files THEN \A q \in Requests : InTenant(q) => req[q].op.at # t
             ELSE Cardinality({q \in Requests : InTenant(q)}) < PoolSize

RegistryIsFree == Files => \A q \in Requests : ~InRegistry(q)

(* What a file lock makes sure of, a server does with the lock of a row.   *)
RowIsFree(r) ==
    \A q \in Requests \ {r} : InRegistry(q) /\ req[q].put # None => req[q].op.of # req[r].op.of

(* However a request ends, its transactions do.                            *)
Over(r) ==
    [req EXCEPT ![r] = [Idle EXCEPT !.pc = "done", !.op = IF req[r].op.kind = "create" THEN req[r].op ELSE None]]

------------------------------------------------------------------------------
(* _bootstrap_databases: nothing is done once the registry is stamped.     *)
CreateRegistry ==
    /\ server = "down" /\ ~registry
    /\ registry' = TRUE /\ server' = "stamped"
    /\ UNCHANGED <<backend, row, tables, founder, keys, log, req, units>>

MakeRoot ==
    /\ server = "stamped"
    /\ tables' = tables \union {Root} /\ server' = "made"
    /\ UNCHANGED <<backend, registry, row, founder, keys, log, req, units>>

AddRoot ==
    /\ server = "made"
    /\ row' = [row EXCEPT ![Root] = NewRow(None)] /\ server' = "up"
    /\ UNCHANGED <<backend, registry, tables, founder, keys, log, req, units>>

Restart ==
    /\ server = "down" /\ registry
    /\ server' = "up"
    /\ UNCHANGED <<backend, registry, row, tables, founder, keys, log, req, units>>

Boot == CreateRegistry \/ MakeRoot \/ AddRoot \/ Restart

------------------------------------------------------------------------------
(* _read_tenant_row, in a transaction of its own. Only an initialized      *)
(* tenant has identities, and so sessions. The uuid of a new tenant is     *)
(* drawn once.                                                             *)
Route(r, op) ==
    /\ server = "up" /\ req[r].pc = "idle"
    /\ \A q \in Requests : q < r => req[q].pc # "idle"
    /\ op.kind # "init" => op.at \in founder
    /\ op.kind = "create" => op.of \notin tables /\ \A q \in Requests : req[q].op # op
    /\ req' = [req EXCEPT ![r] = [Idle EXCEPT
                  !.op = op, !.pc = IF row[op.at] # None /\ row[op.at].on THEN "routed" ELSE "done"]]
    /\ UNCHANGED <<backend, server, registry, row, tables, founder, keys, log, units>>

(* tenant_context begins first, the registry dependency after it.          *)
Open(r) ==
    /\ req[r].pc = "routed" /\ TenantIsFree(req[r].op.at)
    /\ req' = [req EXCEPT ![r].pc = "open"]
    /\ UNCHANGED <<backend, server, registry, row, tables, founder, keys, log, units>>

OpenRegistry(r) ==
    /\ req[r].pc = "open" /\ RegistryIsFree
    /\ req' = [req EXCEPT ![r].pc = "reading"]
    /\ UNCHANGED <<backend, server, registry, row, tables, founder, keys, log, units>>

(* _ownership_filter                                                       *)
Owned(t, caller) == row[t] # None /\ (t = caller \/ row[t].owner = caller)

(* The row as it is before the handler writes it; a tenant that is already *)
(* initialized answers 204, one that the caller does not own 404.          *)
Read(r) ==
    LET op == req[r].op IN
    /\ req[r].pc = "reading" /\ op.kind # "create"
    /\ req' = IF op.kind # "init" /\ ~Owned(op.of, op.at) THEN Over(r)
              ELSE [req EXCEPT ![r].seen = row[op.of],
                               ![r].pc = IF op.kind = "init" /\ row[op.of].init
                                         THEN "ending" ELSE "writing"]
    /\ UNCHANGED <<backend, server, registry, row, tables, founder, keys, log, units>>

(* initialize_endpoint claims the tenant with one conditional update, then *)
(* provisions it under the transaction of the tenant.                      *)
Claim(r) ==
    LET op == req[r].op IN
    /\ req[r].pc = "writing" /\ op.kind = "init" /\ RowIsFree(r)
    /\ req' = [req EXCEPT ![r].pc = "ending",
                          ![r].put = IF row[op.of].init THEN None ELSE [row[op.of] EXCEPT !.init = TRUE]]
    /\ UNCHANGED <<backend, server, registry, row, tables, founder, keys, log, units>>

(* create_endpoint: the database and its tables are committed on their     *)
(* own, while the row waits for the commit of the request.                 *)
Create(r) ==
    LET op == req[r].op IN
    /\ req[r].pc = "reading" /\ op.kind = "create"
    /\ Files \/ TenantIsFree(op.of)
    /\ tables' = tables \union {op.of}
    /\ req' = [req EXCEPT ![r].pc = "ending", ![r].put = NewRow(op.at)]
    /\ UNCHANGED <<backend, server, registry, row, founder, keys, log, units>>

Changes(r) == req[r].op.kind = "update" /\ req[r].seen[req[r].op.field] # req[r].op.val

(* update_endpoint. Only the fields of the request are written, so that    *)
(* the rest of the row is what it is now.                                  *)
Change(r) ==
    LET op == req[r].op IN
    /\ req[r].pc = "writing" /\ op.kind = "update" /\ RowIsFree(r)
    /\ req' = [req EXCEPT ![r].put = [row[op.of] EXCEPT ![op.field] = op.val],
                          ![r].pc = IF Changes(r) /\ op.of # op.at THEN "telling" ELSE "ending"]
    /\ UNCHANGED <<backend, server, registry, row, tables, founder, keys, log, units>>

(* delete_endpoint keeps the database and writes no entry.                 *)
Delete(r) ==
    LET op == req[r].op IN
    /\ req[r].pc = "writing" /\ op.kind = "delete" /\ RowIsFree(r)
    /\ req' = [req EXCEPT ![r].put = [row[op.of] EXCEPT !.on = FALSE, !.gone = TRUE],
                          ![r].pc = "ending"]
    /\ UNCHANGED <<backend, server, registry, row, tables, founder, keys, log, units>>

(* An entry says what the handler read and what it wrote.                  *)
Entry(r) ==
    [of |-> req[r].op.of, field |-> req[r].op.field, by |-> req[r].op.at,
     old |-> req[r].seen[req[r].op.field], new |-> req[r].op.val]

Tell_Unlocked(r) ==
    LET of == req[r].op.of IN
    /\ req[r].pc = "telling"
    /\ log' = [log EXCEPT ![of] = Append(@, Entry(r))]
    /\ req' = [req EXCEPT ![r].pc = "ending", ![r].told = TRUE]
    /\ UNCHANGED <<backend, server, registry, row, tables, founder, keys, units>>

(* _record_change, in the database of the tenant that changes: its own     *)
(* transaction, which begins and commits within the handler.               *)
Tell(r) ==
    LET of == req[r].op.of IN
    /\ req[r].pc = "telling" /\ TenantIsFree(of)
    /\ log' = [log EXCEPT ![of] = Append(@, Entry(r))]
    /\ req' = [req EXCEPT ![r].pc = "ending", ![r].told = TRUE]
    /\ UNCHANGED <<backend, server, registry, row, tables, founder, keys, units>>

(* The dependencies end in the opposite order of their begin: the registry *)
(* commits, then the entries of the request are written and its tenant     *)
(* commits.                                                                *)
CommitRegistry(r) ==
    /\ req[r].pc = "ending"
    /\ row' = IF req[r].put = None THEN row ELSE [row EXCEPT ![req[r].op.of] = req[r].put]
    /\ req' = [req EXCEPT ![r].pc = "closing"]
    /\ UNCHANGED <<backend, server, registry, tables, founder, keys, log, units>>

CommitTenant(r) ==
    LET op == req[r].op
        claimed == op.kind = "init" /\ req[r].put # None
    IN
    /\ req[r].pc = "closing"
    /\ founder' = IF claimed THEN founder \union {op.at} ELSE founder
    /\ keys' = IF claimed THEN [keys EXCEPT ![op.at] = @ + 1] ELSE keys
    /\ log' = IF Changes(r) THEN [log EXCEPT ![op.at] = Append(@, Entry(r))] ELSE log
    /\ req' = Over(r)
    /\ UNCHANGED <<backend, server, registry, row, tables, units>>

------------------------------------------------------------------------------
(* A transaction that waits for a lock or a connection.                    *)
Waits(r) ==
    \/ req[r].pc = "routed" /\ ~TenantIsFree(req[r].op.at)
    \/ req[r].pc = "open" /\ ~RegistryIsFree
    \/ req[r].pc = "reading" /\ req[r].op.kind = "create" /\ ~Files /\ ~TenantIsFree(req[r].op.of)
    \/ req[r].pc = "telling" /\ ~TenantIsFree(req[r].op.of)

(* The busy timeout of sqlite, or that of the pool, ends a wait: 503 or    *)
(* 500, and what the request did is rolled back.                           *)
Busy(r) ==
    /\ Waits(r)
    /\ req' = Over(r)
    /\ UNCHANGED <<backend, server, registry, row, tables, founder, keys, log, units>>

(* A unit is split when one of its transactions has committed and another  *)
(* has yet to.                                                             *)
Split(r) ==
    \/ req[r].told /\ req[r].pc = "ending"
    \/ req[r].pc = "closing" /\ (req[r].put # None \/ Changes(r))

Half == \E r \in Requests : Split(r)

(* A statement or a commit fails, and the open transactions roll back.     *)
Fail(r) ==
    /\ InTenant(r) /\ faults < MaxFaults
    /\ Split(r) => splits < MaxSplits
    /\ req' = Over(r)
    /\ faults' = faults + 1 /\ splits' = IF Split(r) THEN splits + 1 ELSE splits
    /\ UNCHANGED <<backend, server, registry, row, tables, founder, keys, log>>

(* The process ends with every transaction that is open.                   *)
Crash ==
    LET half == Half \/ server \in {"stamped", "made"} IN
    /\ server # "down" /\ faults < MaxFaults
    /\ half => splits < MaxSplits
    /\ server' = "down"
    /\ req' = [r \in Requests |-> IF req[r].pc = "routed" \/ InTenant(r)
                                  THEN Over(r)[r] ELSE req[r]]
    /\ faults' = faults + 1 /\ splits' = IF half THEN splits + 1 ELSE splits
    /\ UNCHANGED <<backend, registry, row, tables, founder, keys, log>>

------------------------------------------------------------------------------
Init ==
    /\ backend \in Backends
    /\ \E there \in Starts :
         /\ server = IF there = {} THEN "down" ELSE "up"
         /\ registry = (there # {})
         /\ row = [t \in Tenants |-> IF t \in there
                      THEN [NewRow(IF t = Root THEN None ELSE Root) EXCEPT !.init = TRUE] ELSE None]
         /\ tables = there /\ founder = there
         /\ keys = [t \in Tenants |-> IF t \in there THEN 1 ELSE 0]
    /\ log = [t \in Tenants |-> <<>>]
    /\ req = [r \in Requests |-> Idle]
    /\ faults = 0 /\ splits = 0

Handle(r) == Read(r) \/ Claim(r) \/ Create(r) \/ Change(r) \/ Delete(r) \/ Tell(r)

RequestStep(r) ==
    Open(r) \/ OpenRegistry(r) \/ Handle(r) \/ CommitRegistry(r) \/ CommitTenant(r) \/ Busy(r)

Next ==
    \/ Boot \/ Crash
    \/ \E r \in Requests : (\E op \in Ops : Route(r, op)) \/ RequestStep(r) \/ Fail(r)

Spec == Init /\ [][Next]_vars /\ \A r \in Requests : WF_vars(RequestStep(r))

------------------------------------------------------------------------------
TypeOK ==
    /\ backend \in Backends /\ server \in {"down", "stamped", "made", "up"} /\ registry \in BOOLEAN
    /\ row \in [Tenants -> TenantRow \union {None}]
    /\ tables \subseteq Tenants /\ founder \subseteq tables
    /\ keys \in [Tenants -> 0 .. Cardinality(Requests)]
    /\ faults \in 0 .. MaxFaults /\ splits \in 0 .. faults

(* A server that is up has its root tenant; a tenant that has a row has a  *)
(* database with tables; and of all who ask to initialize a tenant, on     *)
(* either backend, one gets the key of its founder. A tenant that says it  *)
(* is initialized has that founder, unless the one who claimed it is about *)
(* to commit. With MaxSplits = 0 (initialize_endpoint, create_endpoint,    *)
(* _bootstrap_databases).                                                  *)
TenantsAreWhole ==
    /\ server = "up" => row[Root] # None
    /\ \A t \in Tenants :
         /\ row[t] # None => t \in tables
         /\ row[t] # None /\ row[t].init =>
              \/ t \in founder /\ keys[t] = 1
              \/ \E r \in Requests : req[r].pc = "closing" /\ req[r].op.kind = "init" /\ req[r].op.at = t

(* The entries of the log of t that tell of that field of t, by position,  *)
(* and its value after the first n entries.                                *)
ChangesOf(t, field) == {i \in DOMAIN log[t] : log[t][i].of = t /\ log[t][i].field = field}

Says(t, field, start, n) ==
    LET before == {i \in ChangesOf(t, field) : i <= n} IN
    IF before = {} THEN start ELSE log[t][Max(before)].new

Told(t, field, start) ==
    /\ \A i \in ChangesOf(t, field) : log[t][i].old = Says(t, field, start, i - 1)
    /\ row[t] # None /\ (\A r \in Requests : ~InTenant(r)) =>
         row[t][field] = Says(t, field, start, Len(log[t]))

(* What o changed of t, in a log. The log of o has the first of those that *)
(* the log of t has, or all of them.                                       *)
ShareOf(o, t, entries) == {i \in DOMAIN entries : entries[i].of = t /\ entries[i].by = o}

Shares(o, t, all) ==
    \E same \in [ShareOf(o, t, log[o]) -> ShareOf(o, t, log[t])] :
        /\ \A i \in DOMAIN same : log[t][same[i]] = log[o][i]
        /\ \A i, j \in DOMAIN same : i < j => same[i] < same[j]
        /\ \A k \in ShareOf(o, t, log[t]) :
              (all \/ \E i \in DOMAIN same : k < same[i]) => \E i \in DOMAIN same : k = same[i]

(* On sqlite, the audit log of a tenant tells its display name from the    *)
(* first to the one it has, whoever changed it: each entry starts where    *)
(* the one before ended. The owner's log has its share, in that order.     *)
(* With MaxSplits = 0 (_record_change).                                    *)
LogsAgree ==
    Files => \A t \in Tenants :
        /\ Told(t, "name", First)
        /\ \A o \in Tenants \ {t} : Shares(o, t, \A r \in Requests : ~InTenant(r))

(* A request that waits for others ends, though an owner that changes a    *)
(* tenant and the tenant itself may each hold what the other waits for.    *)
EveryRequestEnds ==
    \A r \in Requests : req[r].pc = "routed" ~> ~(req[r].pc = "routed" \/ InTenant(r))

------------------------------------------------------------------------------
(* What the code is asked for and does not do.                             *)

(* "Correctness must never depend on it" (dependencies.py): the log tells  *)
(* the name of a tenant on every backend. With Backends = {"server"}.      *)
LogsNeedNoFileLock == \A t \in Tenants : Told(t, "name", First)

(* Changes of is_enabled are in the log (changelog.d/212.bugfix.md), also  *)
(* that of a deletion.                                                     *)
EnabledIsLogged == Files => \A t \in Tenants : Told(t, "on", TRUE)

(* The lock order leaves no circle of requests (context.py): a request     *)
(* that waits for a file is not waited for by the one that holds it.       *)
NoCircle ==
    Files => \A q, r \in Requests :
        ~( /\ req[q].pc = "telling" /\ InTenant(r) /\ req[r].op.at = req[q].op.of
           /\ req[r].pc = "open")
==============================================================================
