----------------------------- MODULE SSHGrants -----------------------------
(***************************************************************************)
(* What an SSH session may do (api/grant.py): from the grants of the role  *)
(* that the caller works with, and the ceilings and denials of his         *)
(* boundaries, the server decides which commands and capabilities a user   *)
(* name on a host gets, and for how long.                                  *)
(*                                                                         *)
(* The code folds the entries one after the other into a table of named    *)
(* commands and a default for all others, so that it can list what is      *)
(* allowed without a list of all commands and all user names.  Here the    *)
(* lists grow by one entry at a time, as administrators edit them, and     *)
(* after each step the fold is compared with what the entries mean.        *)
(*                                                                         *)
(* Only entries whose filter matches the host count (triplet_match).       *)
(***************************************************************************)
EXTENDS Integers, Sequences, FiniteSetsExt

CONSTANTS
    Users,          \* user names on the host
    Self,           \* the entry "{self}"
    UnixUsername,   \* the unix user name of the caller, or None
    Commands,
    Capabilities,
    Shell,          \* the capability SHELL
    None,           \* a list that is not set: all users, all commands, ...
    Unbounded,      \* max_session_ttl_s = None
    Denied,         \* not permitted
    Permissions,    \* the entries that administrators write
    BoundaryCount,  \* the boundaries of the caller
    MaxEntries      \* bound: entries in all lists together

Boundaries == 1..BoundaryCount
Ttls == Nat \cup {Unbounded}

(* An entry lists known commands and capabilities, or does not list them,  *)
(* and has a bound (model/grant.py).                                       *)
ASSUME GrantsAssumption ==
    /\ BoundaryCount \in Nat
    /\ Unbounded \notin Nat /\ Denied \notin Ttls
    /\ \A p \in Permissions :
        /\ p.commands = None \/ p.commands \subseteq Commands
        /\ p.capabilities = None \/ p.capabilities \subseteq Capabilities
        /\ p.ttl \in Ttls

VARIABLES
    granted,        \* the ssh entries of the role
    ceilings,       \* per boundary: its ceiling entries, or None
    denied          \* the denied entries of all boundaries

grantVars == <<granted, ceilings, denied>>

CeilingEntries(b) == IF ceilings[b] = None THEN <<>> ELSE ceilings[b]

-----------------------------------------------------------------------------
(* Bounds on the length of a session.                                      *)

TtlMax(a, b) == IF a = Unbounded \/ b = Unbounded THEN Unbounded ELSE IF a > b THEN a ELSE b

TtlMin(a, b) ==
    IF a = Unbounded THEN b ELSE IF b = Unbounded THEN a ELSE IF a < b THEN a ELSE b

CoveredUnion(a, b) == IF a = Denied THEN b ELSE IF b = Denied THEN a ELSE TtlMax(a, b)
CoveredIntersection(a, b) == IF a = Denied \/ b = Denied THEN Denied ELSE TtlMin(a, b)

(* A denial with a bound shortens, one without a bound denies.             *)
CoveredDeny(a, ttl) == IF a = Denied \/ ttl = Unbounded THEN Denied ELSE TtlMin(a, ttl)

-----------------------------------------------------------------------------
(* Both tables go over the entries that cover the user name, from the      *)
(* first to the last, and over the ceilings of the boundaries.  (Recursive *)
(* functions: the proofs are about them.)                                  *)

Folded(op(_, _), start, entries, covering) ==
    LET after[i \in 0..Len(entries)] ==
            IF i = 0 THEN start
            ELSE IF entries[i] \in covering THEN op(after[i - 1], entries[i])
            ELSE after[i - 1]
    IN  after[Len(entries)]

UnderCeilings(intersect(_, _), allowedBy(_, _), start, covering) ==
    LET after[b \in 0..BoundaryCount] ==
            IF b = 0 THEN start
            ELSE IF ceilings[b] = None THEN after[b - 1]
            ELSE intersect(after[b - 1], allowedBy(ceilings[b], covering))
    IN  after[BoundaryCount]

-----------------------------------------------------------------------------
(* Commands: SSHCommandPermissions, with a table of named commands and the *)
(* decision on all others.                                                 *)

Permits(table, c) == IF c \in DOMAIN table.named THEN table.named[c] ELSE table.other

(* A command that is named for the first time starts from the default.     *)
StartOf(table, c) == Permits(table, c)

(* Apply op to the commands of an entry.                                   *)
Apply(op(_, _), table, p) ==
    IF p.commands = None
    THEN [named |-> [c \in DOMAIN table.named |-> op(table.named[c], p.ttl)],
          other |-> op(table.other, p.ttl)]
    ELSE [table EXCEPT !.named =
             [c \in DOMAIN @ \cup p.commands |->
                 IF c \in p.commands THEN op(StartOf(table, c), p.ttl) ELSE @[c]]]

CommandsUnion(table, p) == Apply(CoveredUnion, table, p)
CommandsDeny(table, p) == Apply(CoveredDeny, table, p)
NoCommands == [named |-> [c \in {} |-> Denied], other |-> Denied]

CommandsAllowedBy(entries, covering) == Folded(CommandsUnion, NoCommands, entries, covering)

CommandsIntersect(t, u) ==
    [named |-> [c \in DOMAIN t.named \cup DOMAIN u.named |->
                   CoveredIntersection(Permits(t, c), Permits(u, c))],
     other |-> CoveredIntersection(t.other, u.other)]

CommandsSubtract(table, entries, covering) == Folded(CommandsDeny, table, entries, covering)

-----------------------------------------------------------------------------
(* Capabilities: CapabilityTtl, a partial function that has an entry for   *)
(* each capability that is granted.                                        *)

CapabilitiesOf(p) == IF p.capabilities = None THEN Capabilities ELSE p.capabilities

CapsUnion(t, p) ==
    [c \in DOMAIN t \cup CapabilitiesOf(p) |->
        IF c \notin DOMAIN t THEN p.ttl
        ELSE IF c \in CapabilitiesOf(p) THEN TtlMax(t[c], p.ttl) ELSE t[c]]

NoCaps == [c \in {} |-> Denied]

CapsAllowedBy(entries, covering) == Folded(CapsUnion, NoCaps, entries, covering)

CapsIntersect_KeepsRest(t, u) == [c \in DOMAIN t |-> IF c \in DOMAIN u THEN TtlMin(t[c], u[c]) ELSE t[c]]

CapsIntersect(t, u) == [c \in DOMAIN t \cap DOMAIN u |-> TtlMin(t[c], u[c])]

CapsDeny(t, p) ==
    LET hit == CapabilitiesOf(p) \cap DOMAIN t IN
    IF p.ttl = Unbounded THEN [c \in DOMAIN t \ hit |-> t[c]]
    ELSE [c \in DOMAIN t |-> IF c \in hit THEN TtlMin(t[c], p.ttl) ELSE t[c]]

CapsSubtract(table, entries, covering) == Folded(CapsDeny, table, entries, covering)

-----------------------------------------------------------------------------
(* Which entries count for a user name.                                    *)

Entries(s) == {s[i] : i \in DOMAIN s}
Listed == Entries(granted) \cup Entries(denied)
              \cup UNION {Entries(CeilingEntries(b)) : b \in Boundaries}

Resolve(entry) == IF entry = Self THEN UnixUsername ELSE entry

Covers(p, user) == p.users = None \/ \E e \in p.users : Resolve(e) = user /\ user # None
CoversUnnamed(p) == p.users = None

CommandsUnderCeilings(covering) ==
    UnderCeilings(CommandsIntersect, CommandsAllowedBy, CommandsAllowedBy(granted, covering), covering)

CapsUnderCeilings(covering) ==
    UnderCeilings(CapsIntersect, CapsAllowedBy, CapsAllowedBy(granted, covering), covering)

DecideFor(covering) ==
    [commands |-> CommandsSubtract(CommandsUnderCeilings(covering), denied, covering),
     caps |-> CapsSubtract(CapsUnderCeilings(covering), denied, covering)]

Decide(user) == DecideFor({p \in Listed : Covers(p, user)})

(* list_decisions: one for each user name that the role names, and one for *)
(* all others if the role has an entry for all users.                      *)
CandidateUsers == {u \in Users : \E p \in Entries(granted) : p.users # None /\ Covers(p, u)}
HasGroup == \E p \in Entries(granted) : p.users = None
GroupDecision == DecideFor({p \in Listed : CoversUnnamed(p)})

(* grant.deadline, relative to now: the tightest bound of what a session   *)
(* may use.                                                                *)
SessionTtl(ttls) ==
    IF \E t \in ttls : t # Unbounded
    THEN CHOOSE t \in ttls \ {Unbounded} : \A u \in ttls \ {Unbounded} : t <= u
    ELSE Unbounded

-----------------------------------------------------------------------------
(* The lists change by one entry at a time.                                *)

GrantsInit == granted = <<>> /\ denied = <<>> /\ ceilings = [b \in Boundaries |-> None]

Room == Len(granted) + Len(denied) +
            FoldSet(LAMBDA b, n : n + Len(CeilingEntries(b)), 0, Boundaries) < MaxEntries

Grant(p) ==
    /\ Room
    /\ granted' = Append(granted, p)
    /\ UNCHANGED <<ceilings, denied>>

Deny(p) ==
    /\ Room
    /\ denied' = Append(denied, p)
    /\ UNCHANGED <<granted, ceilings>>

(* A ceiling starts empty, which allows nothing.                           *)
SetCeiling(b) ==
    /\ ceilings[b] = None
    /\ ceilings' = [ceilings EXCEPT ![b] = <<>>]
    /\ UNCHANGED <<granted, denied>>

RaiseCeiling(b, p) ==
    /\ Room /\ ceilings[b] # None
    /\ ceilings' = [ceilings EXCEPT ![b] = Append(@, p)]
    /\ UNCHANGED <<granted, denied>>

GrantsNext ==
    \/ \E p \in Permissions : Grant(p) \/ Deny(p) \/ \E b \in Boundaries : RaiseCeiling(b, p)
    \/ \E b \in Boundaries : SetCeiling(b)

GrantsSpec == GrantsInit /\ [][GrantsNext]_grantVars

-----------------------------------------------------------------------------
(* What the entries mean, without any order: a use is permitted if the     *)
(* role grants it, each ceiling has an entry for it, and no entry denies   *)
(* it without a bound.  Its bound is the largest that one entry of the     *)
(* role and of each ceiling gives, cut by every bounded denial.            *)

Largest(ttls) == CHOOSE t \in ttls : \A u \in ttls : TtlMax(t, u) = t
Smallest(ttls) == CHOOSE t \in ttls : \A u \in ttls : TtlMin(t, u) = t

Bounds(entries, uses) == {p.ttl : p \in Entries(entries) \cap uses}

Meaning(uses) ==
    LET sources == {Bounds(granted, uses)} \cup
                   {Bounds(ceilings[b], uses) : b \in {x \in Boundaries : ceilings[x] # None}}
        denials == Bounds(denied, uses)
    IN  IF {} \in sources \/ Unbounded \in denials THEN Denied
        ELSE Smallest({Largest(s) : s \in sources} \cup denials)

MayRun(user, c) ==
    Meaning({p \in Listed : Covers(p, user) /\ (p.commands = None \/ c \in p.commands)})
MayUse(user, c) == Meaning({p \in Listed : Covers(p, user) /\ c \in CapabilitiesOf(p)})

CapOf(decision, c) == IF c \in DOMAIN decision.caps THEN decision.caps[c] ELSE Denied
Named(user) == \E p \in Listed : p.users # None /\ Covers(p, user)

(* The lists hold entries.                                                 *)
GrantsTypeOK ==
    /\ granted \in Seq(Permissions) /\ denied \in Seq(Permissions)
    /\ \A b \in Boundaries : ceilings[b] # None => ceilings[b] \in Seq(Permissions)

(* The fold decides on every command and every capability as the entries   *)
(* mean it, whatever their order and whichever commands they name; so does *)
(* the one decision for the user names that no entry names                 *)
(* (_covers_unnamed_username: it "resolves to a single exact decision      *)
(* rather than an approximation").                                         *)
MeansWhatIsGranted(d, u) ==
    /\ \A c \in Commands : Permits(d.commands, c) = MayRun(u, c)
    /\ \A c \in Capabilities : CapOf(d, c) = MayUse(u, c)

DecisionsAreExact ==
    \A u \in Users :
        /\ MeansWhatIsGranted(Decide(u), u)
        /\ ~Named(u) => MeansWhatIsGranted(GroupDecision, u)

(* list_decisions says that it gives "one per candidate username, plus one *)
(* for 'any other username'": so every other user name.                    *)
GroupStandsForOthers ==
    HasGroup => \A u \in Users \ CandidateUsers :
        \A c \in Commands : Permits(GroupDecision.commands, c) = MayRun(u, c)

(* A shell session is never longer than what is granted for any of the     *)
(* capabilities in its certificate: "a grant of port-forwarding for 8h     *)
(* alongside a grant of shell for 1h must not give the shell session 8h".  *)
SessionsAreShort ==
    \A u \in Users : LET d == Decide(u) IN
        Shell \in DOMAIN d.caps =>
            \A c \in DOMAIN d.caps :
                TtlMin(SessionTtl({d.caps[x] : x \in DOMAIN d.caps}), MayUse(u, c)) =
                SessionTtl({d.caps[x] : x \in DOMAIN d.caps})

(* A check decides for each user name and command as the grants say, and a *)
(* certificate lives no longer than the shortest that applies.             *)
ChecksAreExact == DecisionsAreExact /\ SessionsAreShort
=============================================================================
