-------------------------- MODULE ContextRegistry --------------------------
(***************************************************************************)
(* The file of named contexts that all commands of a user share            *)
(* (client/configuration.py): one context per tenant, which is told apart  *)
(* by the URL of its directory; the name is a label.                       *)
(*                                                                         *)
(* A writer holds the lock of the file from its read to its write, and the *)
(* file is replaced in one step, so a transaction is one action.  But a    *)
(* command works on a copy of its context between Config.load and          *)
(* Config.save: other processes rename, delete and log in meanwhile.       *)
(***************************************************************************)
EXTENDS Integers

CONSTANTS
    Procs,      \* processes: commands, and the TUI
    Urls, Names,
    Subcommands,   \* what processes do: a subset of "login", "tui", "ssh", "accept", "ctx"
    Nothing,
    MaxKeys     \* bound on logins; a session key is a number

ASSUME RegistryAssumption ==
    /\ MaxKeys \in Nat /\ Nothing \notin Names
    /\ Subcommands \subseteq {"login", "tui", "ssh", "accept", "ctx"}

VARIABLES
    contexts,   \* name -> its context: [url, key]
    current, previous,
    proc,       \* per process: [at, url, key, name], its copy of a context
    keys,       \* session keys made so far
    written     \* history: keys that were written to the file

registryVars == <<contexts, current, previous, proc, keys, written>>

Idle == [at |-> "idle", url |-> Nothing, key |-> 0, name |-> Nothing]

RegistryInit ==
    /\ contexts = [n \in {} |-> Idle] /\ current = Nothing /\ previous = Nothing
    /\ proc = [p \in Procs |-> Idle] /\ keys = 0 /\ written = {0}

Stored == DOMAIN contexts

Holds(u) == {n \in Stored : contexts[n].url = u}

With(n, context) == [m \in Stored \cup {n} |-> IF m = n THEN context ELSE contexts[m]]

-----------------------------------------------------------------------------
(* Subcommands that work on a copy.                                           *)

Load(p) ==
    /\ proc[p].at = "idle" /\ current \in Stored
    /\ proc' = [proc EXCEPT ![p] = [at |-> "loaded", url |-> contexts[current].url,
                                    key |-> contexts[current].key, name |-> current]]
    /\ UNCHANGED <<contexts, current, previous, keys, written>>

(* The login is over; pf login saves the whole context, the TUI only its   *)
(* session key.                                                            *)
LoggedIn(p) ==
    /\ proc[p].at = "loaded" /\ keys < MaxKeys
    /\ keys' = keys + 1
    /\ \E at \in (IF "login" \in Subcommands THEN {"save"} ELSE {})
                 \cup (IF "tui" \in Subcommands THEN {"set"} ELSE {}) :
          proc' = [proc EXCEPT ![p].at = at, ![p].key = keys + 1]
    /\ UNCHANGED <<contexts, current, previous, written>>

(* pf ssh has fetched the keys of hosts, and saves the context with them.  *)
Fetched(p) ==
    /\ proc[p].at = "loaded" /\ "ssh" \in Subcommands
    /\ proc' = [proc EXCEPT ![p].at = "save"]
    /\ UNCHANGED <<contexts, current, previous, keys, written>>

(* ensure_url_available, before an invitation is spent.                    *)
AcceptInvitation(p, u) ==
    /\ proc[p].at = "idle" /\ "accept" \in Subcommands /\ Holds(u) = {}
    /\ proc' = [proc EXCEPT ![p] = [at |-> "new", url |-> u, key |-> 0, name |-> Nothing]]
    /\ UNCHANGED <<contexts, current, previous, keys, written>>

(* Config.save of a new context; it is refused if there is one by now.     *)
SaveNew(p) ==
    /\ proc[p].at = "new"
    /\ \/ /\ Holds(proc[p].url) # {}
          /\ UNCHANGED <<contexts, current, previous>>
       \/ /\ Holds(proc[p].url) = {}
          /\ \E n \in Names \ Stored :
                /\ contexts' = With(n, [url |-> proc[p].url, key |-> 0])
                /\ previous' = current /\ current' = n
    /\ proc' = [proc EXCEPT ![p] = Idle]
    /\ UNCHANGED <<keys, written>>

(* The name that a context is stored under, which may have changed since   *)
(* it was loaded.                                                          *)
NameFor_Stale(u, name) == name

NameFor(u, name) ==
    IF name \in Holds(u) \/ Holds(u) = {} THEN name ELSE CHOOSE n \in Holds(u) : TRUE

Save(p) ==
    /\ proc[p].at = "save"
    /\ contexts' = With(NameFor(proc[p].url, proc[p].name), [url |-> proc[p].url, key |-> proc[p].key])
    /\ written' = written \cup {proc[p].key}
    /\ proc' = [proc EXCEPT ![p] = Idle]
    /\ UNCHANGED <<current, previous, keys>>

Fingerprinted_CurrentContext(u) == {current} \ {Nothing}

Fingerprinted(u) == Holds(u)

(* set_session_fingerprint: nothing, if the context is gone.               *)
SetSessionFingerprint(p) ==
    /\ proc[p].at = "set"
    /\ contexts' = [n \in Stored |-> IF n \in Fingerprinted(proc[p].url)
                                     THEN [contexts[n] EXCEPT !.key = proc[p].key] ELSE contexts[n]]
    /\ written' = written \cup {proc[p].key}
    /\ proc' = [proc EXCEPT ![p] = Idle]
    /\ UNCHANGED <<current, previous, keys>>

-----------------------------------------------------------------------------
(* ctx use, ctx use -, ctx rename and ctx delete: transactions.            *)

Use(n) ==
    /\ n \in Stored /\ n # current
    /\ previous' = current /\ current' = n
    /\ UNCHANGED <<contexts, proc, keys, written>>

UsePrevious ==
    /\ previous \in Stored
    /\ previous' = current /\ current' = previous
    /\ UNCHANGED <<contexts, proc, keys, written>>

Renamed(pointer, old, new) == IF pointer = old THEN new ELSE pointer

Rename(old, new) ==
    /\ old \in Stored /\ new \notin Stored
    /\ contexts' = [n \in (Stored \ {old}) \cup {new} |-> IF n = new THEN contexts[old] ELSE contexts[n]]
    /\ current' = Renamed(current, old, new) /\ previous' = Renamed(previous, old, new)
    /\ UNCHANGED <<proc, keys, written>>

Delete(n) ==
    /\ n \in Stored /\ n # current
    /\ contexts' = [m \in Stored \ {n} |-> contexts[m]]
    /\ previous' = IF previous = n THEN Nothing ELSE previous
    /\ UNCHANGED <<current, proc, keys, written>>

Ctx ==
    /\ "ctx" \in Subcommands
    /\ \/ UsePrevious
       \/ \E n \in Names : Use(n) \/ Delete(n) \/ \E new \in Names : Rename(n, new)

ProcStep(p) ==
    \/ Load(p) \/ LoggedIn(p) \/ Fetched(p) \/ SaveNew(p) \/ Save(p) \/ SetSessionFingerprint(p)
    \/ \E u \in Urls : AcceptInvitation(p, u)

RegistryNext == Ctx \/ \E p \in Procs : ProcStep(p)

RegistrySpec == RegistryInit /\ [][RegistryNext]_registryVars

-----------------------------------------------------------------------------
RegistryTypeOK ==
    /\ Stored \subseteq Names /\ contexts \in [Stored -> [url : Urls, key : 0..MaxKeys]]
    /\ keys \in 0..MaxKeys /\ written \subseteq 0..MaxKeys
    /\ proc \in [Procs -> [at : {"idle", "loaded", "new", "save", "set"}, url : Urls \cup {Nothing},
                           key : 0..MaxKeys, name : Names \cup {Nothing}]]

(* "A directory URL is meant to be unique": whatever commands interleave,  *)
(* no tenant gets a second context, not even if its context was renamed    *)
(* while a command worked on it.                                           *)
UrlsUnique == \A m, n \in Stored : contexts[m].url = contexts[n].url => m = n

(* current and previous name contexts that exist, and two different ones;  *)
(* with a context there is a current one, so that every command finds one. *)
PointersHold ==
    /\ current \in Stored \cup {Nothing} /\ previous \in Stored \cup {Nothing}
    /\ current = Nothing => Stored = {} /\ previous = Nothing
    /\ current # Nothing => current # previous

(* Both hold after every write of the file, whoever wrote it.              *)
RegistryIsSound == UrlsUnique /\ PointersHold

(* A session key belongs to a tenant: whatever is renamed, deleted or      *)
(* selected while somebody logs in, the key goes to the context of the     *)
(* tenant that it was made for, and only a command that has loaded that    *)
(* tenant's context changes its key.                                       *)
KeysStayWithTheirTenant ==
    [][\A n \in Stored, m \in DOMAIN contexts' :
         contexts[n].url = contexts'[m].url /\ contexts[n].key # contexts'[m].key
            => \E p \in Procs : /\ proc[p].at \in {"save", "set"}
                                /\ proc[p].url = contexts[n].url
                                /\ proc[p].key = contexts'[m].key]_registryVars

(* "so concurrent changes made by other processes are never overwritten    *)
(* with a stale snapshot": the session key of a context changes only to    *)
(* one that was not saved before.                                          *)
LoginsKept ==
    [][\A n \in Stored, m \in DOMAIN contexts' :
         contexts[n].url = contexts'[m].url /\ contexts[n].key # contexts'[m].key
            => contexts'[m].key \notin written]_registryVars

(* "saving under the stale name would create a duplicate", so a context is *)
(* saved by its URL: no context disappears because another was saved.      *)
ContextsKept ==
    [][(\E p \in Procs : Save(p)) => \A u \in Urls : Holds(u) # {} => Holds(u)' # {}]_registryVars
=============================================================================
