# Provably Fine: verification

TLA+ models of the Provably Fine server, hosts and clients, checked by TLC on
small instances, and proofs about them checked by TLAPS. The models are written
from the code under `src/`; paths below are relative to
`src/src/provablyfine/` unless they begin with `packages/`.

    tlc -workers 2 -config MCAuditLog.cfg MCAuditLog     # one run
    tlapm AuditLogProofs.tla                             # the proofs of one module

`PROJECT.json` lists every run with its properties, the mutant that each
property must catch, the source lines behind each definition, the findings and
the hazards.

## 1. The system

A *tenant* is an organisation with its own database, its own signing keys and
its own administrators. A user enrols with an invitation, logs in with an
account key (or through an OIDC provider), and gets a *session key*. With it, the
client asks the server for a short-lived SSH *user certificate*, which says on
which host, as which user, which commands or capabilities, and until when. Hosts
hold a *host certificate* and the list of the keys that may sign user
certificates; a timer refreshes both. A program on the host ends sessions at
the deadline of their certificate and on request, and reports starts and ends to
the server. Hosts without a public address keep a link to a *bastion* and carry
tunnels for visitors who show a token. The client keeps named *contexts*, one per
tenant, in one file, and session keys in a process of their own, the *oracle*,
that an `ssh` of the same shell finds by a socket.

### Inventory

| Part | State | Operations | What is hard | What makes it correct |
|---|---|---|---|---|
| Request transactions (`api/dependencies.py`, `api/context.py`, `api/db.py`) | one transaction per request; lists of work to do before and after the commit, or after a rollback | begin, defer, return, reject, fail | transactions interleave (READ COMMITTED, row locks); a step after the commit fails | all of a request's entries or none; no mail for what was rolled back; no deadlock at the counter |
| Audit log (`api/model/audit_log.py`) | entries, counter row, names of objects | append at the end of a transaction, read a page, follow | numbers drawn by transactions that commit in any order | no hole, and a reader with a cursor misses nothing |
| Request signatures (`api/signature.py`) | nonces seen, in memory | verify, expire | event loop and worker threads share it; restarts | a signature is accepted once |
| Enrolment and sessions (`api/endpoints/auth_http_sig.py`, `auth_oidc.py`, `session.py`, `identity.py`) | invitations, account keys, sessions, denylist, OIDC nonces | invite, accept, log in, set role, log out, delete | no foreign keys; a request authenticates, then others commit | one key per invitation, sessions only lose rights, nothing survives its identity |
| Signing keys (`api/rotate.py`, `api/endpoints/initialize.py`, `api/endpoints/ssh.py`) | keys with windows | initialize, rotate, publish | runs overlap, fail, come late | always a key to sign with, published before it is used |
| Hosts (`cli/pf/host`, `cli/pf/openssh_host_*`) | host certificate, trusted keys | install, refresh, uninstall | refresh and rotation are not synchronised; a step fails | hosts trust whatever signs now |
| SSH grants (`api/grant.py`) | grants, ceilings, denials | decide, list | folds over entries that overlap | the fold means what the entries say |
| Session ends (`cli/pf/openssh_session_reaper.py`, `openssh_pam_session_deadline_linux.py`, `session_kill.py`) | records, requests, timers, memory of the reaper | record, tick, request, hook | the process table changes under the reaper; pids are used again; restarts | every session ends by its deadline, and nothing else is killed |
| Live events (`cli/pf/live_events.py`, `api/model/live.py`) | spool of files, rows on the server | write, forward, accept | lost answers, late requests, clocks set back | the registry tells what happened |
| Retention (`api/model/retention.py`, `api/purge.py`) | entries, names, refs, live sessions | purge in batches | two runs, writers, crashes between batches | nothing goes early, every deletion is recorded |
| Bastion relay (`cli/pf/bastion_cli.py`, `cli/token_verify.py`) | tokens seen, tunnels, clients of bastions | present, pump, terminate, register, reconnect | a task per tunnel, cancellation, lost links | a token opens one tunnel, an end follows its start |
| Contexts (`client/configuration.py`) | file of contexts | accept, log in, use, rename, delete | commands work on copies | one context per tenant, no login lost |
| Session-key oracle (`ssh/oracle`) | socket path, oracle processes | start, answer, end | an old oracle ends while a new one starts | the shell finds the oracle of its last login |
| Administration objects (`api/endpoints/{role,boundary,tag,bastion}.py`) | roles with members and grants, boundaries, tags | create, update, delete | use and deletion race | nothing refers to what is gone; no grant widens |
| Tenants (`api/endpoints/{tenant,initialize}.py`, `api/app.py`) | registry of tenants, a database per tenant | bootstrap, create, initialize, change, delete | two or three transactions per request, on files or on a server | one founder per tenant, logs that agree with the registry, no circle of waits |
| Trusted keys (`api/jwt_validator.py`, `api/endpoints/frps.py`) | cache of JWK sets per issuer | look up, fetch, force | threads share it without a lock; keys sign at once | new keys are found without a fetch per token |
| Bastion registrar (`cli/pf/bastion_cli.py`) | clients per bastion, control links, shared session | poll, start, cancel, renew | cancellation takes time; links and sessions end under way | a listed bastion has a client that answers, others have none |
| Grant editing (`tui/grant_edit`, `tui/role_view.py`, `cli/pfa`) | a copy of a list | read, edit, save | names for ids, whole lists, other administrators | a save is the edit and nothing else |
| Terminal UI (`tui`) | screens; session and its relogin | calls to the server | calls of an old session fail late | one relogin at a time |

The parts meet as follows. Every handler of the server runs inside *Request
transactions* and appends to the *Audit log*; every request passes *Request
signatures* first. *Signing keys* feed the certificates that *SSH grants*
decides on; *Hosts* trust what *Signing keys* publish. A certificate's deadline
and connection id travel to the host, where *Session ends* acts on them; the
relay and the reaper talk through files (requests in `--kill-dir`); both report
through *Live events*, whose rows *Retention* removes. *Contexts* and the
*oracle* are what the client keeps of *Enrolment and sessions*.

## 2. Plan

The order follows what the rest depends on and where the interleavings are.

| | Modules | Status |
|---|---|---|
| 1 | `AuditTrail` (abstract), `AuditLog`, `AuditLogProofs` | done |
| 2 | `NonceStore`; `HttpCalls`: the retries of the client; `RequestProofs` | done |
| 3 | `Enrolment`, `EnrolmentProofs` | done |
| 4 | `KeyRotation`, `HostTrust` (extends it), `SigningProofs`; `HostInstall` (proofs in `HostProofs`) | done |
| 5 | `SessionReaper`, `ReaperProofs`; `PamSessions` and `LiveEvents`, composed by `LinuxHost`, `HostProofs` | done |
| 6 | `SSHGrants`; `GrantEditing` | done |
| 7 | `Retention` (proofs in `DeletionProofs`) | done |
| 8 | `RelayTunnels`; `BastionRegistrar` (proofs in `HostProofs`) | done |
| 9 | `ContextRegistry`, `ContextProofs` | done |
| 10 | `AdminObjects`, `DeletionProofs` | done |
| 11 | `SessionOracle`: the socket of a shell, replaced by each login; `Relogin`: the UI and its session; `ClientSessions` composes them (proofs in `ContextProofs`) | done |
| 12 | `TrustedKeys`: the cache of JWK sets; proofs in `RequestProofs` | done |
| 13 | `Tenants`: create, initialize, change, delete | done |
| 14 | `SerialNumbers`: compare-and-set of serial numbers; proofs in `SigningProofs` | done |
| 15 | Theorems about `SessionOracle` and `Relogin` | done |
| 16 | Theorems about `Tenants`: `Server` composes it with `AuditLog` (proofs in `AuditLogProofs`) | done |

The abstract specifications worth stating are the append-only trail behind the audit
log (done), the meaning of a set of grants, which `SSHGrants` compares with the folds
(done), and "the shell finds the oracle of its last login" (`LatestLoginAnswers`).

The proofs of modules that belong together share a module: one of them is extended, the
others are instances under a name (`Http!`, `Trusted!` in `RequestProofs`). `Server`
and `ClientSessions` are extended because they hold a property about two of them.

Modules are written to be proved about as well as checked: no recursive
operators, parameters as constants with named assumptions, one action per
operation. Definitions called `Name_Variant`, placed before `Name`, are
plausible mistakes in the code that `Name` translates; `PROJECT.json` names the
property that each of them breaks.

## 3. The modules

Every run has an `MC` module with the values of its instance. `Next` has one
action per step of the code that others can see; what runs under one lock, in
one statement of the database, or without a suspension point of the event loop is
one step. For each run the list says what it shows; bounds are those of its
`.cfg`. Where an `MC` module has two modules that share no state, `part` is chosen at the
start and says which of the two a behaviour is about; the other one rests, so its
states are those of the two modules added up, not multiplied. A property made of several
(`ProofsCountOnce`, `EditorsAreHonest`, ...) is the conjunction of the definitions it
names, each of which is stated in the module it is about. Some modules also state properties that the code does not keep and that no run
checks; section 5 says which, and which constants make TLC find the violation.

### AuditTrail, AuditLog, Tenants, Server, MCAuditLog

`AuditLog` is the request of the server as `get_context` runs it: `Begin`,
what a handler may do (`AuditCreate` defers an entry, `DeferMail` defers mail,
`AskRow`/`TakeRow` lock another row), `HandlerReturns`, then one `Insert` per
deferred entry, `Commit`, and `Notify` for the after-commit actions. `Reject` and
`Fail` roll back; the first writes what was deferred for a rejection in a
transaction of its own (`CommitRejection`). The variables `counterLock`, `drawn` and
`counter` are the row `audit_log_counter`, as the holder of its lock and as everybody
else sees it. `ReadPage` is an exporter that follows the log with a cursor. An
entry is the request that wrote it and its place among that request's entries; its
contents are left out. `AuditTrail` is what readers are promised: entries appear only
at the end, and a cursor walks along them; `AuditLog` implements it
(`ImplementsTrail`, a refinement mapping by number).

- `MCAuditLog.cfg`: `NoHoles`, `ReadersMissNothing`, `AllOrNothing`, `TenantsAndLogsAgree`, `EveryRequestEnds`, `ImplementsTrail`. Two requests write up to two entries each while a reader follows the log, rows deadlock and commits fail: the log has no holes, no reader misses an entry, and the code implements the append-only trail. And three requests at the tenants of a server, on sqlite and on a shared server, while one fails or the process ends: one founder per tenant, logs that agree with the registry, an end for every request.

Bounds: two requests overtake each other in every way; two
entries per request make transactions with a hole in the middle possible, and two
other rows let lock orders cross. A handler may wait for a row
for ever (two handlers that lock in opposite orders), so deadlock is not checked;
`FlushEnds`, a part of `EveryRequestEnds`, shows that nobody waits for ever at the counter. Fairness: weak on the
steps of a request after its handler has returned. The server runs them without
waiting for a client, and the row lock is granted when it is free.

`Tenants` is the registry and the databases of the tenants: the start of the server
(`Boot`: `CreateRegistry`, `MakeRoot`, `AddRoot`), and requests that create, initialize,
rename or delete a tenant. A request opens a transaction of its tenant (`Open`) and of the
registry (`OpenRegistry`), reads (`Read`), does its work (`Claim`, `Create`, `Change`,
`Delete`), writes into the log of the tenant that changed under a third transaction
(`Tell`), and commits the registry and then its tenant (`CommitRegistry`,
`CommitTenant`). `backend` is chosen at the start: with files a transaction locks its
whole file, and one that waits too long fails (`Busy`); on a server it locks rows
and takes a connection of a pool. A request may `Fail`, the server may `Crash`. Bounds:
three requests out of six kinds, a pool of two, one failure. That the second of two commits
of a request fails (`Split`) is in section 5; `MaxSplits = 0` leaves it out of the run.
Fairness: weak on the steps of a request, which wait for each other only. `Server` puts the
two side by side: a request is one at the tenants or one of a tenant, which do not lock the same
databases. `MCAuditLog` runs one half at a time.

### NonceStore, TrustedKeys, HttpCalls, RequestChecks, MCNonceStore

`verify` is four steps per thread: `Verify` reads the date and checks freshness,
`Peek` and `Judge` are the two halves of the loop in `_expire` (the interpreter may
switch threads after `next()` and at the jump back), `CheckAndAdd` tests and
inserts. `Restart` empties the store, `Tick` is the clock. Cryptography and
parsing decide which signatures reach the store and are left out; `Signatures` is
any set of pairs of a nonce and a created date.

- `MCNonceStore.cfg`: `RejectsOnlyReplays`, `KeysAreFound`, `CallsAreExact`, `AcceptedOnceWhileFresh`, `RestartReplayIsNarrow`. Two threads verify three signatures of two nonces on a server that may restart: a signature is accepted once while it is fresh, and nothing but a replay is rejected. Two threads look tokens up in the cache of trusted keys, while keys rotate and fetches fail: new keys are found, by one forced fetch at a time. And two calls of a client with dropped connections, a busy server, an expired session and a restart: a signed request is run once, no call twice without a dropped connection, and the caller is told the truth.

Bounds: two threads are the least for a race, three signatures of which two share
a nonce; the clock runs past the end of every window.

`TrustedKeys` is how the server checks the token of a host for the plugin of a bastion:
`Lookup` and `GetOrCreate` find or make the entry of the issuer, the thread matches
the key in the set that the entry's client keeps or fetches one (`Serve`, `LoseAnswer`,
`EndFetch`), and one that missed may fetch anew if nobody did lately (`Force`) or refuses
(`Refuse`). The client of PyJWT fetches without a lock: what ends last is kept. Bounds: two
threads, a tenant that publishes a second key and may be disabled, another that takes
its place in a cache of one entry, one lost answer, and a clock that passes the lifespan
of a set (4) and the floor of forced fetches (3), with fetches that take up to 1.

`HttpCalls` is the client's side of the nonce: one call with its signature (`Sign`), the
second sending when a connection was dropped (`Resend`), the retry of a 503 with a new
signature (`TryAgain`), a managed session that logs in and calls again (`Renew`), and the time
limit (`GiveUp`). `Handle` is the server, in its order: write lock, session, nonce,
handler and commit. The faults are dropped connections, which may or may not have delivered
the request, ended sessions and restarts (`Restart`, which rejects what was signed
before it, or forgets it if it was the same second). Bounds: two calls, one of them managed,
three signatures, two faults, enough for a call that is run twice (section 5) in each of
the three ways.

`RequestChecks` puts the three side by side, each with its own variables, and names what
the run checks and `RequestProofs` proves of each: `KeysAreFound`, `CallsAreExact`.

### Enrolment, MCEnrolment

Every request is a sequence of statements (`pc`), each one action: the reads
that authenticate (`Begin`), the denylist, the conditional update that claims an
invitation, inserts and deletes. A statement reads what is committed and what its own
transaction wrote; a write waits for other writers of the row (`IsFree`). `Fail` is a
failure at any statement. `db` maps a row to its value, `staged` is what an
open transaction has written.

- `MCEnrolment.cfg`: `ProofsCountOnce`, `SessionsOnlyNarrow`. Three concurrent requests, each any of ten (two keys for one invitation and their retries, logins, two uses of one id token, two roles for a session, logout, another invitation, deletion of the identity), every statement a step: one key wins an invitation, the losers and nobody else are denied, a token logs in once, and sessions only narrow.

Bounds: three requests out of ten that concern one
identity, which is enough for a request to be overtaken by two others between two of its
statements; two keys for one invitation, a second invitation, two uses of one token.
Requests may wait for each other's rows, hence no deadlock check.

### KeyRotation, HostTrust, HostInstall, SerialNumbers, MCHostTrust

`KeyRotation` is `rotate.py`: `Read` decides with `Plans` on the keys that are in the
table, `Commit` writes, `Fail` writes nothing; `Initialize` makes the first two keys.
`Signers` and `Published` are the queries of the endpoints. Time is an integer that
`Tick` advances as long as the scheduler does what it is trusted with
(`OnSchedule`: the last finished run is never older than `RunEvery`, a run takes at
most `RunTime`). `HostTrust` extends it with hosts that fetch a certificate (`Certify`) and
then the published keys (`FetchTrusted`), on a timer of their own.

- `MCHostTrust.cfg`: `OneWindowAlwaysSigns`, `UserSignersTrusted`, `InitAndUninitAreSafe`, `SerialsAreExact`. Key rotation with overlapping jobs and a host that refreshes on schedule: a signer exists, one window signs, hosts trust it. host-init and host-uninit on three platforms, broken off at any step and repeated: the live configuration is backed, and uninit makes room for the next init. And three requests that draw serial numbers of two keys: no number twice, none lost, no refusal without a crowd.

Bounds: two overlapping runs; periods in units small enough for two complete
rotations before `MaxClock`. The theorems hold for all periods and any number of
runs.

`HostInstall` is `host init` and `host uninit`: per platform a list of steps
(`LinuxInit` ... `WindowsUninit`), of which each is one action (`Step`) that may fail or be
the last one before the command is killed (`GiveUp`, `Break`). Between them the machine restarts
(`Reboot`), the refresh job runs by itself (`StartRefresh`, `RunRefresh`), an administrator
edits the file that pf's block is in (`Edit`) or invites the host again
(`Invite`). `Refused` are the conditions under which init does not begin. Bounds: all three
platforms, three inits, two invitations, one line of the administrator, which is enough
for an init that fails after it used its invitation, an uninit of what it left, and
another init. The run has an administrator who does not follow the advice of a refused init
(`FollowAdvice`); what happens to one who does is in section 5. The theorem has the same
hypothesis, and holds for all keys, invitations and lines.

`SerialNumbers` is `allocate_serial_numbers` and the endpoints that call it. `ReadCounter` reads the
counter of the key, `Reserve` is the UPDATE that finds the number unchanged and keeps the row
locked, `Miss` the one that changes no row (and, after the last attempt, the 409), `Issue` the
commit with the certificates and their audit entries, `Abort` the rollback of a 403 or an
error. A request that moved a counter and has not committed holds its row (`holder`); what
others read is `serial`. Bounds: three requests and two attempts, so that one request can
lose both; two keys; batches of up to two. The theorem holds for any.

### SessionReaper, MCSessionReaper

A tick of the reaper is split at every look at the world: `List` the records, `Look` at
the process table, `Drop` or `Handle` each record, `Signal`, `Finish` with the requests.
Between them sessions begin (`Connect`, `Spawn`, `Register`) and end (`Exit`), pids
are used again after `ReuseAfter`, requests arrive, and the reaper may `Stop` and
`Start`. A process is the pair of pid and start second, as in `procs.py`.

- `MCSessionReaper.cfg`: `EndsOnTime`, `OnlySessionsEnd`, `RecordsAndRequestsStay`. Two connections share a pid that is used again at once; the reaper ticks every second while processes start and end, records and one request appear, or is restarted once in the middle of a tick. It keeps the records of open sessions, ends them in time after deadline or request, signals no other process, and reports true events.

Bounds: one pid, so that reuse happens whenever it can; two connections, so that one
can take over the pid of the other; one request or restart; `MaxClock` covers deadline,
grace period and the wait of a request. A tick ends within a second (`Pass`): the
reaper sleeps a second between ticks and a tick does a few system calls.

### PamSessions, LiveEvents, LinuxHost, MCLinuxHost

`PamSessions` is the hook on Linux: `Login` (of sshd and logind), `Record`, `SetTimer`,
`Close`; the systemd timer (`TimerFires`); and the reaper that serves requests through
logind (`FindRequest`, `FindSessions`, `EndOne`, `Served`, `Unclaimed`). `LiveEvents`
is the spool of event files (`OpenSession`, `CloseSession`), the pass that forwards
them in the order of their names (`ReadSpool`, `Skip`, `SendAccepted`, `SendFails`,
`EndPass`), requests that the server handles after the host gave up (`ServeLate`),
the rows of the registry, and the clock of the host, which may be set back once
(`SetBack`). Neither has a next-state relation of its own. `LinuxHost` extends
the first and instantiates the second, with the clock, its skew and the session
names in common: the hook is one step of both (`HookOpens`, `HookCloses`), time
passes for both, and every other step is a step of one.

- `MCLinuxHost.cfg`: `LoneSessionEndsInTime`, `RegistryFollowsTheHost`, `GivenUpOnlyForNobody`. A session with an id and one without on a Linux host, with the hook, the timer, the reaper, one request that loginctl may fail to serve, and the forwarding of events over a network that loses one answer or delays one request, while the host clock may be set back. Deadlines hold for a lone session, and the registry agrees with the host.

Bounds: a session with an id and one without are the two kinds the registry tells
apart (the end of a session without an id closes every row of its connection). What two
sessions with ids do to the timer they share is in section 5. One request, one send that
fails, a clock to 3, which is past the deadline, the age limit of an event and the wait of a
request. The hook writes its record within `HookTime` and the timer fires when it is due.

### SSHGrants, GrantEditing, MCSSHGrants

The folds of `grant.py` (`Folded` over the entries that cover a user name, `UnderCeilings` over
the boundaries) on tables of a decision per named command and one for all others, and on
tables of capabilities, with the time to live as the value. The state is the lists of
entries, which grow by one entry at a time (`Grant`, `Deny`, `SetCeiling`,
`RaiseCeiling`); the properties compare the folds (`Decide`, `GroupDecision`,
`SessionTtl`) with what the entries mean one command at a time (`MayRun`, `MayUse`).

- `MCSSHGrants.cfg`: `ChecksAreExact`, `EditorsAreHonest`, `SavesAreTheEdit`. Every role, boundary ceiling and denied list of up to three ssh entries: the checks allow exactly what the entries mean. And one administrator with pfa and one on the screens who edit grants and members while objects are renamed, made and deleted: a save does what the edit was, and grants survive names and the editor.

Bounds: three entries overall, over lists of users and commands that overlap,
are nested, or match everything; three times to live. Every pair and triple of such
entries occurs in every order. Editing may stop, so deadlock is not checked.

`GrantEditing` is how administrators change such lists: `Open` reads a role or a
boundary, with names in the place of ids (`Shown`); the commands of `pfa` (`PfaAdd`,
`PfaDelete`, `PfaSet`, `PfaMembers`) and the screens of the terminal UI (`TuiAdd`,
`TuiDelete`, `TuiEdit`, `TuiMembers`) change the copy; `Save` sends it, and the server
resolves the names (`Stored`), checks what the caller may do (`Permitted`) and stores it,
or refuses (`Refuse`). A form shows a grant (`Form`) and gives one back (`Confirmed`). In
between others rename (`Rename`), make and `Delete` what the grants name. Bounds:
one administrator on a screen whose session has the role that is edited, one with
`pfa` under a boundary; two edits, so that one screen saves twice; two changes by others.

### Retention

A run (`Start`) deletes batches (`ReadBatch`, `DeleteBatch`) and ended live sessions
(`ReadLive`, `DeleteLive`), then writes its result (`Record`; `recorded` is the sum of the
results that were written); it may `Fail` between
transactions. `Write` is any other request that appends an entry. `fileLock` says whether
the database keeps a second writer out between the two halves of a transaction (SQLite) or
not (PostgreSQL).

- `Retention.cfg`: `WholeEntries`, `DeletionsAreRecorded`, `NothingGoesEarly`, `ExpiredGoes`. Two overlapping purge runs, one of which may fail, on a database that locks the file and on one that does not, while entries are written and a session ends: what is left is whole, nothing goes before its period, everything expired goes, and the records account for it where runs cannot overlap.

Bounds: two runs, batches of one entry out of two, a clock that passes both
periods, one run that fails. `FairSpec` is weakly fair to the steps of a run that has begun and
to the start of the next: the purge is a scheduled job that is started again.

### RelayTunnels, BastionRegistrar, MCRelayTunnels

A work connection is a task: `Present` its token, `Connected` or `NotConnected` to sshd,
the pump until both directions are over, the deadline comes or it is cancelled
(`CloseTunnel`), the reports of start and end. `Terminate` cancels the tunnels of a
connection and leaves a request for the reaper (`Reap`); `LinkDrops` cancels
everything. The tokens seen live in memory.

- `MCRelayTunnels.cfg`: `TunnelsAndClientsAreTracked`, `TerminateCloses`, `TheListIsFollowed`. Two tokens of one connection, presented three times, while ends close in any order, a report fails, the link drops and the connection is terminated: a token opens one tunnel, ends follow starts, a terminate closes every tunnel. And one registrar with up to three clients of a bastion that leaves and joins the list, while the session expires under a late clock, a link or call fails and visitors come: clients are those of the list.

Bounds: two tokens of one connection, with and without a deadline, three
presentations, so that one is a replay. Fairness: weak on the steps of each task, which the
event loop runs. Nothing need happen when all tokens are used, so deadlock is not checked.

`BastionRegistrar` is `pf bastion register`: the task that asks for the list of bastions and
starts and cancels clients (`NewClients`, `Apply`, `Poll`, `Leave`), the clients (`Connect`,
`Registered`, `Unlink`, `Retry`, `Cancelled`, `Done`), the session that all of them
call with, which expires and is renewed by one call or several (`Returns`, `Renew`,
`CallFails`), and the bastion, which routes visitors to the client it has registered and
forgets one whose link broke (`BastionForgets`). A step is what a task does between two
awaits. Bounds: one bastion with up to three clients (one that ends, its successor, and
one more), three changes of the list, one fault, one expiry, a host whose clock is late
(`LateClock`). A cancelled client ends before the next poll (`SlowClosing = FALSE`;
section 5 has the other case, and the theorem the same hypothesis). Fairness: weak on the steps of the tasks, which the event
loop resumes, and on the time-outs of both ends of a link. Backoff and polls are waits
that end.

### ContextRegistry, MCContextRegistry

A transaction on the file (read, change, replace, under its lock) is one action. A
command works on a copy between `Load` and `Save`; `proc` holds the copies. `NameFor`
is the choice of the name under which a context is saved.

- `MCContextRegistry.cfg`: `RegistryIsSound`, `KeysStayWithTheirTenant`. Three processes that log in, accept, fetch host keys, rename, delete and switch contexts of two tenants in one file: no tenant gets two contexts, the pointers always name contexts, and a session key never lands in the context of another tenant.

Bounds: three processes, two tenants, three names (one more than tenants, so that
renames have somewhere to go), three logins.

### SessionOracle, Relogin, ClientSessions, MCClientSessions

`SessionOracle` is the process that holds a session key. A login (`StartLogin`) starts one
under a name made from the process that `pf` was run from, on Windows its login shell
(`Anchor`, `PosixSpawn`; `WindowsSpawn` waits until the name is free and `Announce` asks the
one that has it to go), has the server accept the key and writes it to the context
(`Answered`, `GiveUp`). Other commands look for a name up their ancestors (`Find`), connect
and ask (`Connect`, `Reply`). An oracle is `Ready`, serves one peer at a time (`Accept`,
`Authorized`), and ends at its deadline, with its anchor, or when displaced (`Watchdog`,
`PosixEnd`). `Relogin` is the terminal UI: calls that wait for a lock and run in threads
(`StartCall` ... `Refused`), the prompt that one of them opens, its login in a thread
(`Login`, `SelectRole`, `SaveKey`, `FailLogin`, `Cancel`), `Finish`, and `pfat`, which starts
the UI again (`RunTui`, `LeaveSetup`, `Restart`). `Lose` ends any session on the server or in
its oracle. `ClientSessions` puts the two side by side: to the UI an oracle is one of the
reasons for which a session is lost, so they share no state. `MCClientSessions` explores one at
a time (`part`).

- `MCClientSessions.cfg`: `LatestSessionCounts`, `OraclesServeTheirOwn`, `LoginGetsItsName`. The oracles of session keys on POSIX and on Windows with the commands that find and use them, and the terminal UI with its relogin: an oracle that ends leaves the name to the newer one, a login gets the name, no signature comes late, and only the failures of the current session ask for a login.

Bounds: a shell, which may exit, and a script below it with the same login or another;
two commands, two keys, the time of one oracle's life, both platforms. Two calls and
three sessions in the UI: one that is lost, one that replaces it, one more. Fairness: weak
on the steps of an oracle and of a login that waits, which need nobody else to
move. Users may stop, so deadlock is not checked.

### AdminObjects, MCAdminObjects

`db` maps every row to its value, a record of its columns: objects, roles with their grants,
boundaries with their denials and their ceiling, and the rows that tag an identity or make it
a member of a role; `Null` if the row is not there. A request is one transaction. `Begin` is the endpoint up to its first write: the
conditions (`May`) and what it will write (`Planned`), for a session with or without a
role. A delete then reads a table for what names the object (`ReadRoles`, `ReadBoundaries`,
`ReadBastions`, `ReadTagged`), rewrites those rows one at a time (`UpdateOne`; `todo`
holds the updates that are left), deletes the object and what it owns (`DeleteObject`),
and commits (`Commit`); it may `Abort` anywhere. `staged` and `locks` are the writes and the
locked rows of an open transaction, `entries` the old values that it has put into the
audit log. A write waits for the holder of its row, a read does not.

- `MCAdminObjects.cfg`: `NothingDangles`, `ChangesAreEditsAndAudited`. Four requests out of eighteen (deletions of every kind of object, edits of grants, members, boundaries and tags, new identities and roles), two at a time or one after the other: with serialized writers nothing names what is gone, and no permission changes but by an edit of somebody it does not bind; on every database the audit log tells what each edit replaced.

Bounds: two requests at a time, four in all, out of eighteen that concern two tags, three
identities (one of them new), one bastion, two roles and two boundaries. Two requests are a check and what
makes it stale; four can bring about a state (a tag on an identity, a grant that names
it), act on it, and see the next request meet the result. The checks of one
request are one step, so two of its checks see the same database. `oneWriter`,
chosen at the start, says whether the database runs one writer at a time. The
properties on what is named and on permissions are claimed for those that do: for
the others the code says itself that it locks nothing ahead of its reads, and section 5 says
what becomes of it. The property on the audit log is claimed for both. Two requests may hold each
other's rows, hence no deadlock check.
## 4. What is proved

The theorems below hold for all values of the constants that satisfy the named
assumptions of their modules. `AuditAssumption`, `NonceAssumption`, `HostAssumption`,
`RetentionAssumption`, `RegistryAssumption`, `SerialAssumption`, `ReaperAssumption` and
`PamAssumption` only say that sizes and times are natural numbers, that `None`-like
values are not elements, and that a table of sessions is finite. The others say more:

- `PeriodsAssumption` has `Back < Rotation - Staging` (a run is not dated back further than
  one key signs); the theorems on rotation also assume `Timely`
  (`RunEvery < Rotation - Staging`: the job runs more often than that), and the one on hosts
  `RefreshEvery < Notice` and `Back <= RunEvery + RunTime`.
- `InstallAssumption`: the platforms are Linux, macOS and Windows. That init and uninit
  are safe assumes `~FollowAdvice`, that nobody removes by hand the drop-in and the block that
  a refused init names: it is false otherwise (section 5, `RunningJobsAreRegistered`).
- `RegistrarAssumption` has names that differ, and `TunnelsAssumption` says that tokens expire.
  That a bastion has one client assumes `~SlowClosing`, a cancelled client ends before the next
  poll: it is false otherwise (section 5, `ClientsAreTracked`).
- `AdminAssumption`: requests ask for what the API lets them ask for (objects, grants and lists
  of the right shape; a new role or boundary has no grants), and the database that they start
  from is one in use: the founding identity is there, values have their shape, and what is named
  is there (`NamesExist`). An empty tenant with its founding identity is such a database.
- `ServerAssumption`: a tenant is initialized by itself and a new one has a new uuid; a server that
  has tenants has the root tenant, all of them initialized. The theorem on tenants also assumes
  `MaxSplits = 0`, that no crash or failure comes between two commits of one request: it is false
  otherwise (section 5, on two commits).
- `EnrolmentAssumption`: the database starts with accounts and identities of the right
  shape, nobody was denied and no id token was used; an invitation is a new random key.
- `EditingAssumption`: the kinds of objects are disjoint, names are unique in a kind, the tools are
  pfa and the terminal UI, and the lists that the server starts with hold grants with the fields of
  their types.
- `GrantsAssumption`: an entry lists known commands and capabilities, or does not list them,
  and has a bound; `Denied` and `Unbounded` are no numbers.
- `TreeAssumption`: the line of a process is finite and begins with itself, keys and commands are
  not `None`. Who is below whom, and which login is whose, is any such table.
  `ClientAssumption`: a session has a number, and no session has none.
- `KeysAssumption`: a fetch of a JWK set takes less than the floor of forced fetches.
  Both are 30 s in the code (PyJWKClient's timeout, `jwks_cache.py`'s floor), so a fetch that
  takes all of its time is left out.
- The theorems on the reaper assume `Reliable`: ps works and a pid that gets free is not
  used again in the same second. Without it they are false, as the hazard on `procs.py` says.
  That expired requests wait for a hook assumes `HookTime < KillTTL`: the hook of a login
  runs for less time than a request stays.

| Theorem | Module | What it says |
|---|---|---|
| `TypeCorrect` | `AuditLogProofs` | The type invariant of the request transactions and the audit log, for any number of requests, readers and rows. |
| `NumbersHaveNoHoles` (`NoHoles`) | `AuditLogProofs` | Committed entries are numbered 1..counter, each number once, whatever transactions are open, rolled back or lost. |
| `FollowingMissesNothing` (`ReadersMissNothing`) | `AuditLogProofs` | A reader that continues from its cursor gets every entry ever committed, for any page size and any concurrency. |
| `EmergencyNeverHappens` | `SigningProofs` | On schedule the branch of rotate.py that makes a key which signs at once is never taken. |
| `PublishedAhead` | `SigningProofs` | Every key but the first is published Rotation - Staging - RunEvery - RunTime before its first signature, even if a slow overlapping run made it. |
| `HostsTrustTheSigner` (`UserSignersTrusted`) | `SigningProofs` | A host that refreshes more often than that notice trusts whatever signs user certificates, at every moment of every rotation. |
| `EntriesAreWhole` (`WholeEntries`) | `DeletionProofs` | After every transaction, of any number of runs at once, refs and names belong to entries that are in the log. |
| `RetentionIsKept` (`NothingGoesEarly`) | `DeletionProofs` | No step deletes an exempt entry, one whose period is not over, or a session that has not ended long enough ago. |
| `RegistryStaysSound` (`RegistryIsSound`) | `ContextProofs` | However commands of any number of processes interleave, no tenant gets a second context, current and previous name two different contexts that exist, and a file with contexts has a current one. |
| `SpecSerials` (`SerialsAreExact`) | `SigningProofs` | For any requests, keys, batches and number of attempts: serial numbers are unique, every number below a counter belongs to an audited certificate, and a request is refused only after as many moves by others as it had attempts. |
| `SigningIsSettled` (`OneWindowAlwaysSigns`) | `SigningProofs` | On schedule, with any number of overlapping runs and any periods with RunEvery < Rotation - Staging: a tenant always has a key to sign with, and all keys that may sign at one moment have the same window. |
| `RequestsAreUnits` (`AllOrNothing`) | `AuditLogProofs` | The entries of a request are published all at once, at its commit, or never: no page of a reader and no crash shows a part of them. |
| `LogIsATrail` (`ImplementsTrail`) | `AuditLogProofs` | The log, with its counter, locks, rollbacks and pages, implements the abstract trail: entries are only appended, whole requests at a time, and every page is the next stretch of the trail. |
| `KeysGoToTheirTenant` (`KeysStayWithTheirTenant`) | `ContextProofs` | Whatever commands and logins run at once over the registry file, no key is ever stored in a context of another tenant than the one it was made for. |
| `WhatProvesCountsOnce` (`ProofsCountOnce`) | `EnrolmentProofs` | For any number of requests whose statements interleave, fail or are sent twice: an invitation binds one key, only a key that lost one is on the denylist, and an id token makes one session. |
| `SessionsKeepWhatIsSet` (`SessionsOnlyNarrow`) | `EnrolmentProofs` | Two updates of one session never undo each other: no commit changes the owner of a session, a role that was set, or the end of one that is logged out. |
| `NothingElseIsEnded` (`OnlySessionsEnd`) | `ReaperProofs` | The reaper sends its signal to no process that is not the session the record was written for, whatever the file and the processes do between the tick that decides and the signal. It assumes Reliable: ps answers, and the system does not give a freed process id to another program within the second in which it was freed. |
| `NothingIsForgottenEarly` (`RecordsAndRequestsStay`) | `ReaperProofs` | The record of an open session and the request to terminate it stay in their directories until that session has closed. It assumes Reliable: ps answers, and the system does not give a freed process id to another program within the second in which it was freed. |
| `SessionsEndInTime` (`EndsOnTime`) | `ReaperProofs` | While the reaper runs, a session past its deadline, terminated, or on a connection that is closed gets its signal within the number of ticks that each cause allows. It assumes Reliable: ps answers, and the system does not give a freed process id to another program within the second in which it was freed. |
| `NoReplayWhileFresh` (`AcceptedOnceWhileFresh`) | `RequestProofs` | One process accepts a signature at most once while it is fresh by the clock, for any number of threads interleaving in the store, any window and skew. |
| `NarrowReplayAfterRestart` (`RestartReplayIsNarrow`) | `RequestProofs` | After any number of restarts, a signature that an earlier process accepted is only accepted if it was created within the skew after the last restart. |
| `NoFalseRejection` (`RejectsOnlyReplays`) | `RequestProofs` | A signature made since the start of the process is only rejected as a replay when its nonce was used. |
| `CallersKnowWhatRan` (`CallsAreExact`) | `RequestProofs` | With answers lost, late or repeated and the client sending again, what a caller is told of a call agrees with how often the server has run it. |
| `PublishedKeysAreFound` (`KeysAreFound`) | `RequestProofs` | For any tenants, keys, clocks, threads and room in the cache, as long as a fetch takes less time than the floor of forced fetches: of the threads that miss a key one at a time fetches its set anew, and a token whose key has been published for a while is refused only right behind another's forced fetch. |
| `TheTimerEndsTheSession` (`LoneSessionEndsInTime`) | `HostProofs` | For any sessions of a connection and any deadline, whatever requests, vanishing sessions and steps of the clock there are: the only session of a connection, once it is open, does not run on after its deadline, however late the hook sets the timer. |
| `TheRegistryIsRight` (`RegistryFollowsTheHost`) | `HostProofs` | For any number of sessions and of sends that fail, are repeated or come late: the server lists no session that never started; one whose end it took is not open, unless the clock was set back or the start got too old to be sent; and under the same conditions it knows every session once nothing is left to be forwarded. |
| `RequestsWaitForTheHook` (`GivenUpOnlyForNobody`) | `HostProofs` | If the hook takes less time than a request to end a session is kept, the reaper gives a request up only if no session was starting when it first looked. |
| `InitAndUninitMakeRoom` (`InitAndUninitAreSafe`) | `HostProofs` | For Linux, macOS and Windows, any number of account keys and invitations and any lines of the administrator, as long as nobody removes by hand what a refused init names: wherever host-init and host-uninit fail or are killed, and in whatever order they are repeated, the configuration that sshd may read names files that are there, the jobs have a key that the server knows, no account that was there before pf and no line that was added while no init ran is lost, and an uninit that ended has removed the rest and lets the next init begin. |
| `RelaysKeepTrack` (`TunnelsAndClientsAreTracked`) | `HostProofs` | For any tokens, tunnels, bastions and clients: a token opens one tunnel, however often it is presented; when no report fails and the link holds, the end of every tunnel is reported after its start; and if a cancelled client ends before the next poll, a bastion never has two clients, and its registrar can cancel the one it has. |
| `NamesHold` (`NothingDangles`) | `DeletionProofs` | On a database that serializes writers, for any objects and any list of requests: the tags of identities, the members of roles and what grants name are there, and every identity has the boundaries of the founding one. |
| `EditsHold` (`ChangesAreEditsAndAudited`) | `DeletionProofs` | Deletions change nothing of what the grants that stay allow or deny, nobody gets out of their bounds (serialized writers), and on every database an audit entry gives what the transaction replaced. |
| `PurgesAreRecorded` (`DeletionsAreRecorded`) | `DeletionProofs` | For any number of runs on a database that locks the file, as long as none failed: the records written add up to what was deleted, once no run is under way. |
| `ChecksAreAsWritten` (`ChecksAreExact`) | `SigningProofs` | For all lists of grants, ceilings and denials, in any order, and any number of boundaries: the decision on each user name, command and capability is what the entries mean, so is the one decision for the names that no entry names, and no session is longer than the bound of a capability in its certificate. |
| `LatestCounts` (`LatestSessionCounts`) | `ContextProofs` | For any processes, contexts, keys and number of logins, on POSIX and on Windows: as long as the last oracle started for a process runs, its name leads to it; and in the terminal UI only the current session opens a login, and what the screen shows as verified is. |
| `OraclesServe` (`OraclesServeTheirOwn`) | `ContextProofs` | For any processes, which may exit, and any logins: an oracle that serves ends only when its time is over, its anchor has exited or a newer login asked it for its name; and it signs only for a process below its anchor and of the same login, on POSIX while its time is not over and its anchor runs. |
| `TenantsHold` (`TenantsAndLogsAgree`) | `AuditLogProofs` | With no crash or failure between two commits of one request: an initialized tenant has its one founder on either backend, and on sqlite the log of a tenant tells its display names in order, with the share of its owner in his log. |
| `EditorsHold` (`EditorsAreHonest`) | `SigningProofs` | Unless something else changed since it read or saved, what a client shows is what the server has, and a form of an ssh, role or tag grant that is confirmed as it opened makes a grant that allows the same; for any administrators, objects, names, grants and edits. A list that is not set is no list of grants. |
| `SavesHold` (`SavesAreTheEdit`) | `SigningProofs` | A save stores what was edited and nothing else: a grant that was kept is the same one, though its ids went to the client as names and came back, what is new is new, and the rest goes. |

The arguments. Each proof has an inductive invariant, which TLC checked on the run of its
module first; the property follows from it.

- *AuditLog*. "No hole" is not inductive: a transaction that is open has numbers that
  nobody sees. The invariant adds that only the holder of the counter lock has
  uncommitted entries, and that they are numbered from `counter + 1` to `drawn`
  (`UncommittedUnderLock`); then a commit appends them and a rollback returns the
  numbers. That a reader misses nothing follows: a cursor is at most `counter`, and all
  later entries get higher numbers. That a request is a unit needs whose entries the open
  ones are (`OpenEntries`). The refinement of `AuditTrail` maps the set of entries to the
  sequence of those who wrote them, by number: a commit appends a batch and all else is a
  stutter, which needs that there is one entry per number.
- *Tenants*. Of a tenant that says it is initialized, either the founder's key was given out
  once, or one request is about to (`Founded`): the row is locked by the one that claims it
  (`RequestsAreApart`), and what a request writes is still made of the row that is there
  (`RowHolds`). That logs agree is about the moments between two commits. A log tells the name of
  the row, unless a request has told it before its commit or has yet to tell it (`Ahead`,
  `Late`), and never both: a request that told a tenant held the lock of its file, so that no
  request of the tenant itself was between its commits (`NoneIsBehind`). What a handler read is
  still the row when it commits (`SeenIsThere`), so entries join up. The share of an owner is
  matched entry by entry with the log of the tenant, all of it or all but the last one
  (`ShareIsTold`).
- *NonceStore*. An accepted signature stays in the dict with its own expiry
  date until the clock is past it (`Remembered`). The dates of threads are never ahead of
  the clock (`DatesInPast`), so that whatever another thread does between the halves
  of the loop, only entries whose date is over go.
- *HttpCalls*. As long as no connection of a call was dropped, at most one request of it is
  under way, the one that the call waits for (`OneAtATime`); a nonce belongs to one
  call. So an answer tells what the server did, and the first request that runs ends the call.
- *TrustedKeys*. An entry is for one issuer, in the cache or not (`OneIssuerEach`); an
  answer has all that was published when its fetch began (`AnswersAreWhole`, `SetsAreWhole`),
  and what is kept came after the last forced fetch or while that is on its way
  (`SetsAreRecent`). So a thread that misses a key which is old enough may force a fetch, or
  one was forced just now (`MissesAreFew`).
- *KeyRotation*. The windows of all keys lie on a line in steps of `Rotation -
  Staging`. One key anchors the present: all others have its window, the next one, or
  are over (`Anchors`); a run that has read the table during this window plans the
  next one if it is missing. `HostTrust` uses that a key is published `Notice`
  before it signs.
- *SerialNumbers*. The request that moved a counter holds its row until it commits, and
  the committed counter is still what it read (`HoldersAreCurrent`): its numbers
  begin where those of the committed certificates end. A counter never goes back, so that
  a read whose update changes no row was followed by a move of another request
  (`MissesAreMoves`).
- *Retention*. A batch was found deletable when it was read and still is when it
  is deleted, because entries do not change, numbers are not used again, and time
  goes on (`BatchIsExpired`). What has been deleted is the disjoint union of what the
  records tell of and of what each run under way has counted (`Split`, `Accounts`): a batch makes the
  part of its run grow, and a record adds that part to the others. So the counts add up without a sum
  over the runs.
- *AdminObjects*. On every database a row that an open transaction has written is locked by it
  and by nobody else, and an owner of grants is noted before it is written (`KeysInv`): so the
  old value in the audit log is the committed one. On a database that serializes writers one
  request is open at a time, and what it has written and what it has still to do make up the
  result of its request (`SerialInv`): a row is written with that result (`ResultOf`), or is
  planned to be (`IsPending`), or belongs to a stage that is ahead (`IsAhead`), or the result
  is what it is. A delete condition holds until the commit because nobody else writes. What is left is about two
  databases and no steps: the results of a deletion (`LeftOf`) and of an edit (`Edited`) name
  what is there (`IsSound` again), and keep the reach of every list that is not set. There the
  rules of `tag_grants` count: a filter that names the tag matched nobody, since a tag on an
  identity that a grant references is not deleted; so the grant may go, and could not be
  widened.
- *ContextRegistry*. A copy was loaded from a file that had a current context, and
  a file that has one keeps one (`CopiesHaveAFile`); so a save under any name leaves
  the pointers in order. A key is written with the url that its process logged in to.
- *ClientSessions*. An oracle that is the latest one of its process holds its name, on Windows
  because the pipe of a name is made once and goes with the oracle that made it
  (`LatestHasItsName`, `PipesAreHeld`). A key is used for one oracle: the key of a login that
  has not yet started its oracle is in no other login and in no oracle (`KeysAreNew`), so what
  has ended stays ended. Whoever is served was let in when his connection was accepted, and the
  process tree above him and the login of the anchor do not change (`PeersWereLetIn`); that
  he is answered in time is the look at the clock before each reply. In the UI a call was started
  in the session of its generation or in an older one (`CallsKnowTheirSession`), so a refusal
  that opens a prompt is of the current session, and that one is gone as long as the prompt is
  pending (`PromptsHaveAReason`).
- *Enrolment*. A transaction of several statements is safe because of what it has staged:
  nobody else can write those rows until it ends (`RowsDisjoint`), so what it has read of them
  is still so when it commits (`LocalInv`). The other half ties the committed rows to the
  history of answers (`GlobalInv`): an invitation that has an owner was accepted by him, a
  denied key was denied for an invitation that another key accepted, a token that is stored
  was used by one login. History only grows (`HistoryGrows`), so a request that is under way
  may rely on it.
- *SessionReaper*. A record, what the daemon remembers and what a tick has listed all tell of
  the process of a session that was open, or of one that is over and whose pid still is free
  or of a later process (`RecordsHold`, `MemoryHolds`, `TickHolds`). The clock moves by one at
  most between the decision and the signal, so that a pid found alive was not used again
  (`SignalHolds`). That a session ends in time is one invariant per cause, a deadline or a
  request (`EndsBy`): at each step it says by when the daemon will have asked, and by when it
  will have killed.
- *PamSessions*. A timer ends a session that has started, and is due by the deadline
  (`TimerIsDue`), so the timer that a lone session finds or sets is its own
  (`LoneHasItsTimer`). A session logs in for `HookTime` at most (`LoginsAreFresh`): one that
  logs in now had not begun when an expired request was first seen.
- *LiveEvents*. The start of a session is written before its end, with an earlier name as long
  as the clock of the host is not set back (`FilesInOrder`). A pass that still has the end to
  send has the start too, or holds the session back (`PassIsWhole`); so the server had the
  start when it is sent the end (`EndsFindTheirStart`), unless that was removed for its age.
- *SSHGrants*. The lists stay lists of entries, and that is all the invariant there is: that the
  fold means what the entries say is a fact about every such list. The library's induction
  theorems cannot be used here (they take an operator), so induction along a list is by the
  least place where it fails (`TheLeast`, `UpTo`), and `Recursion` gives the recursive functions of the
  model their values (`CommandsAllowed`, `CapsDenied` and the like: one table after each
  entry). Then one bound is followed at a time. After each entry of a list it is the largest
  of those so far (`Allows`, `UnionChain`), after each ceiling and each denial the smallest of
  what is left, or nothing (`Leaves`, `CeilingChain`, `DenyChain`). What a table says of one
  command goes through these three chains whether the table names the command or not
  (`CommandStep`, `CommandMeet`), and so does a capability, where what is denied has no
  entry at all (`CapStep`, `CapMeet`).
- *GrantEditing*. Names in a kind are unique, and what is stored names objects of its kind
  (`ObjectsAreNamed`, `StoredGrants`). So a name that resolves comes back as the object that it was
  shown for (`ShownIsSent`), and what was sent is shown as it was sent (`SentIsShown`): a screen
  that takes what it saved for what is stored is right. What a client has read or typed has
  the fields of its type (`ShownGrants`); from there, `ShownIsKept` goes from the grant to the
  form and back, type by type. The view has a copy for each list that it read (`ViewHolds`),
  and a list that was changed is set. `NullIsNoList` is the hypothesis of both theorems: a list that is
  not set is no list of grants. (It is not with the assumptions of the module because TLC
  would go through all sets of grants.)
- *HostInstall*. The commands are lists of steps, so the invariant speaks of the step that
  comes next: before step `k` of init, what the earlier ones made is there and the
  drop-in is there exactly after its own step (`InitSoFar`); before step `k` of uninit, what
  each earlier one took is gone, but for the files of a refresh that raced with it
  (`UninitSoFar`). What a broken init or uninit leaves is what holds at every step
  (`MachineIsSafe`): jobs run only with the drop-in, and the drop-in only with what it
  names. The lemmas on the lists (`InitList`, `UninitList`, `UninitOrder`, `UninitTakesAll`) are
  where the order counts: jobs start last and stop first, the drop-in goes before the files that
  it names, an account before the mark that tells whose it is, and uninit takes all that any
  init may have left.
- *RelayTunnels*, *BastionRegistrar*. A token that opened a tunnel is remembered as long as it
  is valid (`OpenedAreSeen`), so it opens none again; the reports of a tunnel come one after
  the other (`ReportsInOrder`). The registrar polls when the clients that it cancelled have
  ended (`EndedBeforeAsked`). So when it starts a client there is no other of that bastion, and
  the callback of a client that ends pops itself or nothing (`OneClientEach`).

Only model-checked, because the provers cannot do it:

- liveness under fairness, and `ENABLED`: `EveryRequestEnds`, `ExpiredGoes`,
  `TerminateCloses`, `LoginGetsItsName`, `TheListIsFollowed` and the others that say that something happens;

All other properties of the runs are proved.

No module has a recursive operator.

## 5. Disagreements between the source and what it says of itself

Found while the modules were written. The first ones are runs that must find the violation.
For the others, the property is stated in its module, and TLC finds the violation
with the constants named here in the place of those of the `.cfg` of that module.

- `api/signature.py:72` (`NeverForgottenEarly`, with `MCNonceStore.cfg`): api/signature.py:41 says "A nonce is never forgotten before `verify`'s freshness check would independently reject the same signature as stale." The freshness check and _expire of one verification use the `now` that it read at its start, and verifications run on the event loop and on worker threads (accept_invitation_endpoint and login_endpoint are plain functions): a verification that read its date before the last second of the window ended still finds the signature fresh, while another thread with a later date has already forgotten the nonce. TLC shows a signature accepted twice by one process, at the moment it becomes stale.
- `api/signature.py:73` (`AlwaysAnswers`, with `MCNonceStore.cfg`): api/signature.py:178 says of verify "Check the request signature. Raise a problem if it is not valid." _expire reads the oldest entry (line 72) and looks it up (line 73) in two steps, and the store is shared by the event loop and the worker threads: when two verifications find the same expired entry at the front, the second lookup raises KeyError and a valid request fails with a server error.
- `api/model/identity.py:115` (`KeysGoWithTheIdentity`, with `MCEnrolment.cfg`): api/model/identity.py:102 says "Its keys and sessions go at once: the next request signed with one of them is a 401." The delete statements remove the rows that are committed when they run, no foreign key ties a session or an account key to its identity, and a login (or the acceptance of an invitation) that authenticated before the deletion inserts its row in its own transaction: TLC reaches a usable session of an identity that is gone, for which api/endpoints/ssh.py:35 asserts `caller is not None  # because we are authenticated`. It needs a database that runs writers concurrently; api/db.py:359 says of the write flag that makes SQLite serialize them "Correctness must never depend on it."
- `cli/pf/host/linux.py:49` (`UserSignersTrusted`, with `MCHostTrust.cfg` and `RefreshEvery = 6`): cli/pf/host/linux.py:47 describes the timer as "Provably Fine SSH host certificate refresh timer", and line 49 (asserted by cli/pf/host/test_linux.py:236) runs it with "OnCalendar=daily"; cli/pf/openssh_host_init.py:92 says the refresh is what keeps the "host SSH certificates and CA public key" current. The server publishes the key that signs and the next one (api/endpoints/ssh.py:307-317), and with user_key_rotation_period = 24 h and user_key_staging_period = 12 h (api/config.py:68-69) a key signs for 12 hours only: two periods after a refresh, up to 12 hours before the next one, the server signs with a key that the host has not fetched. TLC shows a host on schedule that does not trust the signer.
- `api/endpoints/ssh.py:328` (`HostCertificateVerifies`, with `MCHostTrust.cfg`): api/endpoints/ssh.py:62-63 signs a host certificate that says of itself "valid_after=now - 10, valid_before=now + ctx.config.host_certificate_lifetime" (24 hours), while lines 327-330 publish a host key only while "valid_before > now" of the key. A key stops to sign and stops to be published in the same second, and there is no grace period as for OIDC keys (api/model/oidc_key.py:25-27): after every rotation each host presents a certificate that clients reject, until its next refresh. TLC shows it on a host that refreshes in every tick.
- `cli/pf/host/procs.py:139` (`KeepsOpenSessions`, with `MCSessionReaper.cfg` and `PsMayFail = TRUE`): cli/pf/host/procs.py:130 says that start_time gives "When the process started, in whole seconds, or None if it is gone.", and openssh_session_reaper.py:317 drops the record for that reason: "the session has ended". But _ps (lines 139-148) runs ps with check=False and returns whatever it printed: a ps that fails prints nothing, the snapshot is empty, and the reaper unlinks the record of every open session (openssh_session_reaper.py:316-318). Nothing writes the record again, so these sessions outlive their deadline. TLC shows one failed ps removing the record of an open session.
- `cli/pf/openssh_session_reaper.py:260` (`EndIsReported`, with `MCSessionReaper.cfg` and `FairSpec`): cli/pf/live_events.py:3 says "Whatever sees a session start or end on a host writes an event file here: the PAM hook on Linux, the session reaper on macOS and Windows." The reaper that comes back after a restart finds the record of a session that ended meanwhile, drops it with "the session has ended" (openssh_session_reaper.py:317), and writes no event, because _reported is in memory only (line 260): the server keeps the session open. TLC shows a reported start whose end is never reported.
- `cli/pf/live_events.py:59` (`EndNeverPrecedesStart`, with `MCLinuxHost.cfg`, as `Live!EndNeverPrecedesStart`): cli/pf/live_events.py:165 says of the order in which events are sent: "This keeps an end from arriving before its start." The order is that of the file names, time stamps that only one process keeps increasing (lines 52-60, "Two events of one process never share one"). The PAM hook is a new process for each event (openssh_pam_session_deadline_linux.py:58-68): when the clock is set back during a session, the name of the end sorts before that of the start, the server finds no open row for the end (api/model/live.py:59), accepts it, and then opens a row that nothing ends. TLC shows the row open after both events were accepted.
- `cli/pf/openssh_pam_session_deadline_linux.py:83` (`DeadlineKept`, with `MCLinuxHost.cfg` and `Sessions = {s1, s2}`): cli/pf/openssh_pam_session_deadline_linux.py:147 says "PAM session hook enforcing a certificate's session_deadline extension." The timer that does it is named after the connection id alone (line 136), while a certificate can open several sessions as long as it is valid, which the session records count with (session_records.py:54, "The logind session ids recorded for this connection."). systemd-run refuses the second timer of that name, and the close of any session stops the one that there is (line 82-83): the run shows a session that is open after its deadline with no timer.
- `api/grant.py:612` (`GroupStandsForOthers`, with `MCSSHGrants.cfg`): api/grant.py:623 says that list_decisions gives "one per candidate username, plus one for "any other username" (key None) when a wildcard grant exists." The candidates are the names in the grants of the role only (line 612); a name that a denial or a ceiling of a boundary names is not among them, so it falls under "any other username", whose decision leaves out every entry that names users (line 371). TLC shows a role that grants all users and a boundary that denies one by name: the list says that any other user name may run the command, and decide refuses it for that one. Only the listing is concerned; signing calls decide.
- `api/model/retention.py:79` (`DeletionsAreRecorded`, with `Retention.cfg`, without its condition `fileLock`): src/docs/admin/retention.md:15-17 says "We record in the audit log metadata (count, start and end date of the entries that were deleted) about each data purge", api/model/retention.py:9 says "A second run, or two runs at once, delete the same rows once", and api/db.py:359 says of the write lock "Correctness must never depend on it." The entries are counted as they were read (line 79-80), not as they were deleted like the refs and names (line 81-82). TLC shows two runs that read the same batch on a database that lets both in: the entries are deleted once and recorded twice.
- `api/model/retention.py:96` (`DeletionsAreRecorded`, with `Retention.cfg`, without its condition `crashes = 0`): src/docs/admin/retention.md:15-17 says "We record in the audit log metadata (count, start and end date of the entries that were deleted) about each data purge." Batches commit one by one (line 58) and the record is written last, in a transaction of its own (line 97), from counts held in memory. TLC shows a run that fails in between (a lost connection, a killed job; purge.py:47 goes on with the next tenant): its deletions are never recorded, since the next run finds nothing of them.
- `api/model/retention.py:82` (`NamesAreFollowed`, with `Retention.cfg`): api/model/audit_log.py:356 says that the search finds "The ids of the objects that ever had this name", and read_page (line 399-400) "the entries are all the ones about those objects, under any of their names." A name keeps the entry that introduced it first: "A rename back to an earlier name, or to the same name, is rejected by the unique key" (line 196). The purge deletes a name with that entry (retention.py:82), also when a later entry, which stays, gave the same name again. TLC shows an object that has the name now, by an entry that is in the log, and that a search for the name does not find.
- `cli/pf/bastion_cli.py:383` (`TunnelFollowsSession`, with `MCRelayTunnels.cfg`): cli/pf/session_kill.py:43-44 says of a terminate: "Either one is enough, because the other follows: sshd ends the session when its connection closes, and the tunnel closes when the session ends." The pump waits for both directions (gather, bastion_cli.py:383): when sshd closes, local_to_frps ends (line 376) without a word to the visitor, and frps_to_local goes on reading. TLC shows a tunnel whose sshd side is closed and that stays open, and tracked, until the visitor closes it.
- `cli/pf/ssh_cli.py:71` (`LoginsKept`, with `MCContextRegistry.cfg`): client/configuration.py:264-265 says of a transaction: "The lock is held throughout, so concurrent changes made by other processes are never overwritten with a stale snapshot." pf ssh loads the context (ssh_cli.py:50), talks to the server, and then saves all of it (line 71) to store the known hosts: Config.save puts the loaded copy in place of the stored one (configuration.py:179), session key included. TLC shows a login that another process saved in between being undone.
- `client/configuration.py:177` (`ContextsKept`, with `MCContextRegistry.cfg`): client/configuration.py:164-167 says: "Contexts are matched by directory_url, not by name: another shell (or the TUI's switcher) may have renamed this context since it was loaded, and saving under the stale name would create a duplicate." When no context targets the URL any more (it was deleted), line 177 falls back to the stale name, and line 179 replaces whatever context has that name by now. TLC shows the context of another tenant being lost.
- `api/model/bastion.py:135` (`BastionsStayInSight`, with `MCAdminObjects.cfg`): api/model/bastion.py:125 says of a tag that bastions name: "a tag delete only reaches this point once it's already established that no identity's access depends on this tag id (see the two-condition check in `endpoints/tag.py`)". That check refuses only a tag that identities have and that a grant references as well (api/endpoints/tag.py:63-65): a tag that identities have and no grant names is taken off the bastion and off the identities. With a second tag left on the bastion, TLC shows an identity that saw the bastion by the deleted tag and sees it no more; with none left, everybody sees it.
- `api/endpoints/role.py:71` (`NothingDangles`, with `MCAdminObjects.cfg`, without its condition `oneWriter`): api/db.py:359 says of the write lock "Correctness must never depend on it", and api/endpoints/identity.py:265 says of the grants that name a deleted identity that they "are removed in the same transaction". On a database that lets writers overlap, what the endpoints check or read is not locked: TLC shows a tag, a member or a grant that is committed after the deletion has looked for it and that names what is gone; an identity that is created while its creator and then a boundary are deleted is without that boundary. api/model/tag_grants.py:135 and api/model/identity_grants.py:60 mention the missing row lock for lost updates of lists.
- `ssh/oracle/_posix/_runner.py:122` (`NearestHasAnOracle`, with `MCClientSessions.cfg`): ssh/oracle/_posix/session.py:118 says of current_socket_path that it "returns the path of the nearest ancestor that has an oracle". It takes the nearest path that exists (line 130), and the socket file of an oracle that has ended always exists: the runner compares os.fstat of the socket with os.stat of the path (_runner.py:117-123), which are inodes of different file systems and never equal, so nothing removes the file but the next login of the same shell. A script that logged in once hides the running oracle of the shell above it: its commands connect to the dead file and fail, while the fingerprint in the context is the one that the farther oracle holds.
- `ssh/oracle/_posix/spawn.py:132` (`SupersededIsForgotten`, with `MCClientSessions.cfg`): ssh/oracle/_posix/spawn.py:117-120 says of an oracle whose path a newer login took: "nothing connects to it again since the config was already updated to the new session key". The oracle is started before the server has accepted the key and long before the context is saved (cli/login.py:115-117, browser_login.py:60-68): when the server refuses the login, or the user gives up in the device flow, the context still names the old key, its oracle runs and nobody can reach it. The same holds for another context of the same tenant, whose key the login of the first one cuts off.
- `tui/relogin.py:203` (`PromptCloses`, with `MCClientSessions.cfg`, as `Tui!PromptCloses`): tui/app.py:51-53 says of a failed call that the user "sees an error notification and this relogin prompt, and can retry the action once logged back in". _finish marks the prompt as finished (relogin.py:203) before on_result makes the signer of the new session (app.py:124), which raises KeyExpired when the oracle of the new key is already gone, for example because the choice of a role took longer than its half hour. dismiss is not reached, and the second _finish of the except clause (line 259) returns at once, as does Escape: the prompt stays on the screen for good.
- `cli/pf/host/linux.py:172` (`KnownKeyIsKept`, with `MCHostTrust.cfg`): cli/pf/host/linux.py:183 says "Accepting the invitation registers the account key with the server". A host-init that fails between the acceptance and the drop-in, for example because host-refresh cannot reach the server, is not refused when it is repeated (lines 161-168 look at the drop-in and the PAM block, which come later), and its first steps encrypt a new key over the only copy of the registered one (lines 172-175). The acceptance then fails: the invitation was used. The host needs a new invitation though everything was in place; macOS (darwin.py:196) and Windows (win32.py:415) do the same.
- `cli/pf/host/darwin.py:127` (`UninitUndoesAccounts`, with `MCHostTrust.cfg`): cli/pf/host/base.py:41 says uninit is to "Undo `init`". On macOS the account is made by eight dscl commands and the real name, by which _is_bastion_account_ours knows it, is set by the last but one (lines 134-145); on Windows the file that remembers the account is written after the script that creates it (win32.py:405-407). When one of the later commands fails, uninit takes the account for somebody else's and leaves it. On macOS every later init is then refused as well, with the words "pf did not create it".
- `cli/pf/host/win32.py:551` (`UninitUnloads`, with `MCHostTrust.cfg`): cli/pf/host/base.py:41 says uninit is to "Undo `init`", and win32.py:5-6 that sshd "reads sshd_config once, when the service starts" so that "A change needs a restart of the service". uninit restarts sshd only when it found the block in the file (lines 552-556): when `sshd -t` reports something else at that moment, or the restart fails and uninit is run once more, it ends well and removes everything, while the sshd that runs still has TrustedUserCAKeys and the principals command of pf.
- `cli/pf/host/linux.py:238` (`NoLineIsLost`, with `MCHostTrust.cfg`): cli/pf/host/ops.py:145 says of the files that init changes: "a file that is read and written back must not change its line endings"; what it may change is more. init reads /etc/pam.d/sshd before its first step (linux.py:166) and writes the block after it has talked to the server twice (linux.py:238), from the text of then; Windows does so with sshd_config (win32.py:384, 530) and writes the old text once more when sshd refuses the new one. What an administrator or a package manager writes in between is lost.
- `cli/pf/host/linux.py:168` (`RunningJobsAreRegistered`, with `MCHostTrust.cfg` and `FollowAdvice = TRUE`): cli/pf/host/linux.py:164 and :168 tell the administrator of an initialized host to "remove before re-running host-init". Who removes the drop-in and the PAM block, and nothing else, gets an init that puts a new key in the place of the one the running jobs use and fails when it accepts the used invitation: the refresh and bastion jobs that are still enabled have a key the server does not know. host-uninit, which would remove the jobs first, is not named.
- `tui/grant_edit/identity.py:124` (`ConfirmKeepsIdentities`, with `MCSSHGrants.cfg`): api/model/grant.py:105 says of the lists of tags in a grant on identities "If None, any tag can be used. If list is empty, no tag can be used." The editor of the terminal UI shows an unset list as an unchecked box and makes an unchecked box into the empty list (base.py:33, 47; identity.py:33, 116-126): who opens such a grant and confirms it as it is, or edits something else in it, has it allow no tag and no invitation where it allowed all. An unset create or update permission, and the one for the unix user name, are lost the same way. In the denied list of a boundary the change takes denials away.
- `tui/grant_edit/base.py:80` (`ConfirmKeepsTags`, with `MCSSHGrants.cfg`): tui/checkbox_list.py:38 says that a field that "means split me on whitespace" is not for "values that may contain spaces". The value of a tag may contain spaces, for the API and `pfa tag create` take any, but the fields for tags are split at them: the editor opens a grant on the tag "site=new york" and confirms it as one on "site=new", which is refused or, where that tag exists, is another permission. The lists of tags in filters and permissions are read the same way (base.py:25-39).
- `tui/grant_edit/base.py:75` (`BlankIsNotEverybody`, with `MCSSHGrants.cfg`): tui/grant_edit/ssh.py:24 says "An unchecked box is the whole axis". A checked box for a name, a tag or an id whose text is blank, or whose tag has no "=", is the whole axis as well (base.py:73-90), and saving warns of nothing: an administrator who checks Name and then types none gives the grant on every identity, where the checked and blank list of tags next to it matches nobody.
- `tui/boundary_view.py:118` (`NoCeilingByAccident`, with `MCSSHGrants.cfg`): api/endpoints/boundary.py:140-143 tells "no ceiling is set, so nothing is disallowed by the ceiling" from the empty list, where "everything is disallowed". The screen of a boundary shows both as "No ceiling grants" and makes the one into the other when a grant is added and taken out again before saving (lines 118-120, 138): those the boundary applies to may do nothing any more. No client can undo it: update_boundary leaves out a ceiling that is None (session_client.py:558), though line 140 says "We explicitly allow ceiling_list to be null".
- `cli/pf/bastion_cli.py:747` (`ClientsAreTracked`, with `SlowClosing = TRUE` in `MCRelayTunnels.cfg`): cli/pf/bastion_cli.py:746-747 is the callback by which active_tasks forgets a client that is done. It pops the bastion whoever is its client by now. When a bastion leaves the list its client is cancelled and popped, but ends only when its tunnels have reported their end; if the bastion is back at a later poll by then, a new client takes the place and the callback of the old one pops it. The next poll starts another client of the same bastion, whose registration the first one has; when the bastion leaves the list again only the last one is cancelled, and the other keeps the host registered until the program ends.
- `browser_login.py:33` (`RenewalHelps`, with `MCRelayTunnels.cfg`): cli/pf/bastion_cli.py:634 says that the session of the registrar "re-logs automatically when the session key expires". The call that the server refused goes to ensure_session, which logs in only if the config says that the session is over: by session_expires_at and the clock of the host (browser_login.py:33). While that clock is behind the server's, every renewal keeps the expired key and every call fails twice, until the clock of the host passes the expiry.
- `api/dependencies.py:209` (`TenantsAreWhole`, with `MaxSplits = 1` in `MCAuditLog.cfg`): api/dependencies.py:3 says "A request is one all-or-nothing unit of work", and endpoints/initialize.py:205-207 "Claim the tenant before doing any work. [...] If anything below fails, the registry transaction rolls back and the claim is released." The registry dependency ends first and commits the claim; the tenant, with the founding identity and its invitation, commits after it (dependencies.py:209-213). When that second commit fails, or the process ends in between, the tenant is_initialized without an identity, and every later call answers 204.
- `api/app.py:84` (`TenantsAreWhole`, with `MaxSplits = 1` in `MCAuditLog.cfg`): api/app.py:82 says "Create the registry and root tenant databases on first startup." create_registry stamps the registry in a commit of its own, and a start that finds the stamp does nothing (line 84). When the process ends before the row of the root tenant is committed, no later start adds it, and the server runs without any tenant.
- `api/endpoints/tenant.py:52` (`LogsAgree`, with `MaxSplits = 1` in `MCAuditLog.cfg`): api/dependencies.py:9 says "Raising an error undoes every write the request made". The entry that _record_change writes into the log of the tenant that changes is committed inside the handler. When the request fails after it, for one at the commit of the registry, the entry stays and tells a change that never was, and the log of the caller has none.
- `api/endpoints/tenant.py:189` (`LogsNeedNoFileLock`, as `Registry!LogsNeedNoFileLock` with `Backends = {"server"}` in `MCAuditLog.cfg`): api/dependencies.py:36 says that the write lock of SQLite: "This is only about scheduling/optimization. Correctness must never depend on it", and line 17 "Do not assume that what you read is still true when you write". update_endpoint takes the old value of its audit entry from the row it read before it wrote (tenant.py:168, 189-193). On Postgres two requests that rename a tenant at once both record the first name as the old one, and which entry is last does not say which name the tenant has.
- `api/endpoints/tenant.py:225` (`EnabledIsLogged`, as `Registry!EnabledIsLogged` with `MCAuditLog.cfg`): src/changelog.d/212.bugfix.md:1 says "Create audit log entries for changes to the tenant name and is_enabled flag". delete_endpoint sets is_enabled to False (tenant.py:225) and writes no entry, so a log says that a tenant is enabled which was deleted.
- `api/app.py:184` (`NoCircle`, as `Registry!NoCircle` with `MCAuditLog.cfg`): api/app.py:184 says of the 503 "Writers wait for each other for a few seconds. Getting here means the database is overloaded." One request of the owner that renames a tenant and one request in that tenant that writes the registry are enough, on an idle server: the first holds the registry and waits for the file of the tenant (tenant.py:52), the second holds that file and waits for the registry. Neither can go on until the busy timeout ends one of them.
- `packages/provablyfine-client/src/provablyfine_client/http_session.py:126` (`NeverTwice`, with `MCNonceStore.cfg`, as `Http!NeverTwice`): packages/provablyfine-client/src/provablyfine_client/http_session.py:125-126 says of the second sending of a signed request "The server rejects a signature nonce it has already seen. So the request cannot be executed twice, even if the first attempt did reach the server." The nonce protects the signed request, not the call around it. If the second sending gets a 503 (tenant_context asks for the write lock, dependencies.py:201, before the nonce is looked at), request() signs anew (line 74) and the call is executed again; so it is when the session ends between the two, because verify_session answers for the session first and _ManagedSession then repeats the call; and a restart within the permitted skew forgets the nonce. TLC shows all of them. The 503 needs a PF_TIMEOUT above the 5 seconds that SQLite waits.

## 6. Parts and what is left out

- *Request transactions and deferred work* (partly: `AuditLog`, `Tenants`): One transaction per request with its before_commit, after_commit and after_rollback lists, row locks, failures and rejections; Tenants has the registry transaction, the queue of writers of a file and the pool of connections. Not modelled: the mapping of rows to objects.
- *Audit log: numbering and reading* (partly: `AuditLog`, `AuditTrail`, `AuditLogProofs`): Counter row, its lock, inserts, readers that follow a cursor. Left out: names of objects and following an object by its names (Retention has what becomes of them).
- *Request signatures and the nonce store* (modelled: `NonceStore`, `RequestChecks`, `RequestProofs`): Freshness, the dict with its expiry loop, threads, restarts. Not modelled: header parsing, the signature base and the cryptography (they decide which requests reach the store).
- *Enrolment, logins and sessions* (partly: `Enrolment`, `EnrolmentProofs`): Invitation acceptance and its retries, account keys, denylist, login by key and by OIDC, session role, logout, deletion of an identity, as interleaved statements. Not modelled here: grants of the caller, tags and names of identities, the cryptography, the OIDC provider.
- *Signing key rotation* (modelled: `KeyRotation`, `SigningProofs`): The windows of the keys, overlapping runs of the rotation job, failures and late runs, initialize. Not modelled: encryption of keys, one job after the other over the tenants. Serial numbers have a module of their own.
- *Host refresh and published keys* (partly: `HostTrust`): Trusted-keys endpoints, host certificates and the refresh on hosts. Left out: the fields of certificates; SSHGrants has the decisions on them.
- *Session reaper (macOS, Windows)* (partly: `SessionReaper`, `ReaperProofs`): Records, requests, ticks against a process table that changes under them, restarts. Not modelled: descendants of a session (one process stands for the tree), validation of record files, which processes are sshd connections.
- *Live events and the live session registry* (partly: `LiveEvents`, `LinuxHost`, `HostProofs`): The spool, the pass that forwards it, reports that fail, repeat or come late, and the rows on the server, for the host kind. Not modelled: reports of relay tunnels, which have no spool, validation of files, removal of rows by retention, the terminate endpoint.
- *PAM session hook and logind reaper (Linux)* (partly: `PamSessions`, `LinuxHost`, `HostProofs`): Records, the timer, requests and the reaper, for several sessions of one connection and for sessions without a logind id; LinuxHost composes them with the live events. Not modelled: the check of the certificate signer.
- *SSH grants* (partly: `SSHGrants`, `SigningProofs`): How grants, ceilings and denials decide on commands, capabilities and session lengths, and the decision for unnamed users. Not modelled: the host filter (triplet_match), the checkers of the administration objects (Checker.list_can), the conversion of names to ids.
- *Retention purge* (modelled: `Retention`, `DeletionProofs`): Runs over one tenant with their batches, records and failures, next to writers and other runs. Not modelled: the loop over tenants and the switch that a tenant may set (read once before its run).
- *Bastion relay tunnels* (partly: `RelayTunnels`, `MCRelayTunnels`, `HostProofs`): Work connections, the check of tokens, the Terminator and the effect of a dropped link. BastionRegistrar has the link itself. Left out: the bytes of a tunnel.
- *Client context registry* (partly: `ContextRegistry`, `ContextProofs`): Contexts, their transactions and the commands that work on a copy. The migration of the single-tenant file is left out (it is done under the same lock), and so are the fields of a context other than its URL and session key.
- *Administration objects: roles, boundaries, tags, bastions* (partly: `AdminObjects`, `DeletionProofs`): Create, delete and edit of every object as interleaved statements, and the grants that name them. Not modelled: names and descriptions, whether the grants of the caller let it act (SSHGrants has the decisions on ssh grants), boundary filters, login configurations.
- *Certificate signing and serial numbers* (partly: `SerialNumbers`, `SigningProofs`, `MCHostTrust`): SerialNumbers has the reservation by compare-and-set, the certificates and their audit entries, rollback and refusal. SSHGrants has the decision and KeyRotation the key. Left: the bytes of certificates, and the rows of connections, of which LiveEvents has the reports.
- *OIDC provider keys and the cache of JWK sets* (partly: `TrustedKeys`, `RequestChecks`, `RequestProofs`): The cache of issuers, its fetches and forced fetches, the keys that a tenant publishes and signs with, and the verdict of the frps plugin. Left out: the shape of an issuer, the signature, audience and purpose of tokens, and the rotation of these keys, which is that of KeyRotation.
- *Tenants: creation, initialization, deletion* (modelled: `Tenants`, `Server`, `MCAuditLog`, `AuditLogProofs`): Bootstrap, creation, initialization, change and deletion under the transactions of registry and tenants, locks and pools of both kinds of backend, failures and crashes. A column stands for all that a change may set. Left out: reads, grants, the range of retention periods. KeyRotation has the keys that initialize makes.
- *Bastion registrar and control link* (partly: `BastionRegistrar`, `MCRelayTunnels`, `HostProofs`): The loop that keeps one client per bastion, the clients with token, login, registration, heartbeat, backoff and end, the renewal of the session, and visitors. Left out: how long waits are, the cipher and the frames, the local side of a visitor beyond its end.
- *Session-key oracle* (partly: `SessionOracle`, `ClientSessions`, `ContextProofs`): The session oracle on POSIX and Windows: start, replacement, search for the nearest name, authorization, list and sign, end. Left out: the connection oracle of pf ssh, which has a random name and one peer, the locking of memory, and the macOS calls behind the same contract.
- *Terminal UI: relogin* (modelled: `Relogin`, `ClientSessions`, `ContextProofs`): pfat and its restarts, the calls behind one lock, the relogin prompt with its thread, roles, cancel and failure. Drawing of the screens is left out.
- *Terminal UI: screens* (not modelled): Presentation: one user, one event loop; what a screen changes it changes by calls to the server. Relogin has the calls, GrantEditing the screens that keep a copy of a list.
- *HTTP client and its retries* (partly: `HttpCalls`, `RequestChecks`, `RequestProofs`): HttpCalls has a call with its signature, the one resend after a dropped connection, the retry of a 503, the renewal of a managed session, and what the server does with each. Left: the methods of the clients, which are paths and schemas, and how a call divides its time.
- *Live endpoints: terminate and lists* (not modelled): A terminate is a request to a bastion, whose effect on a host is in RelayTunnels and in the reapers; the lists only read.
- *Host installation* (partly: `HostInstall`, `MCHostTrust`, `HostProofs`): host-init and host-uninit of the three platforms as lists of steps, with failures, kills, repeats, edits, restarts and the refresh job in between. Left out: dry runs, the texts written into units and tasks, access lists, the choice of pf among several.
- *SSH wire formats and certificates* (not modelled): Encoding and decoding of bytes without state of its own; the tests compare it with ssh-keygen.
- *Command lines of administrators* (not modelled): Each command is a few calls to the server and a table that is printed; GrantEditing has those that change a list they have read.
- *Schemas, converters and JWKs* (not modelled): Conversions between representations without state; GrantEditing has the way of a grant from ids to names and back, SSHGrants the rules that they carry.
- *Database schemas and migrations* (not modelled): The tables appear as variables of the modules that use them; Tenants has when a database gets its tables. Migrations run once, before the server starts.
- *Windows bindings* (not modelled): Calls of the operating system through ctypes; SessionReaper, SessionOracle and HostInstall have what they need of them.
- *Logging, mail, packaging, documentation* (not modelled): No state that the rest depends on. AuditLog has when mail is sent.
- *Terminal UI: editing of grants, roles and boundaries* (partly: `GrantEditing`, `MCSSHGrants`): Reading, editing and saving of grant and member lists, and the editor of tag, ssh, role and identity grants (boundary and tenant grants are edited as role grants are). Left out: names and descriptions, autocompletion, durations, layout.
- *pfa: grants, roles and boundaries* (partly: `GrantEditing`, `MCSSHGrants`): The grants that pfa makes, the commands that add, delete and set grants and members, and the way of a grant from ids to names and back. Left out: lists, output formats, create and delete of roles and boundaries (AdminObjects).
