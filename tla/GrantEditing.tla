---------------------------- MODULE GrantEditing ----------------------------
(***************************************************************************)
(* Administrators edit the grants and the members of a role, and the       *)
(* denied list and the ceiling of a boundary, with pfa or in the terminal  *)
(* UI (cli/pfa: grant, role, boundary; tui: role_view, boundary_view,      *)
(* grant_edit; api: converters and the PATCH endpoints).                   *)
(*                                                                         *)
(* The server stores grants with ids and shows them with names.  A client  *)
(* reads a whole list, changes its copy, and sends the list back, names    *)
(* and all: the server looks the names up again.  Between the two the      *)
(* other administrator saves, and objects are renamed, deleted, made.      *)
(*                                                                         *)
(* A list is a set: the order of grants has no meaning.  Of a grant there  *)
(* is its filter on one object, what it lets one update, and one list (of  *)
(* tags for identities, of capabilities and commands for ssh).  PATCH is   *)
(* one step (AdminObjects has its transaction); tags and boundaries in     *)
(* filters, descriptions and the grants of the caller are left out.        *)
(***************************************************************************)
EXTENDS Naturals, FiniteSets

CONSTANTS
    Admins,
    Tools,          \* what each of them works with
    Active,         \* those whose session has the role active
    Bounded,        \* those to whom the boundary applies
    Account,        \* the identity of each
    Identities, Roles, Tags,
    Names,
    Spaced, Stem,   \* names with a blank in them, and the word they begin with
    Axis,           \* what the lists of grants may hold
    StartNames, StartLists,
    Typed,          \* the grants, as shown, that administrators pipe into pfa
    NewTypes,       \* the types of the grants that they add on the screen
    MaxEdits, MaxWrites,    \* bounds
    Null            \* not set

VARIABLES
    name,       \* the name of each object, Unborn before it is made, Null after it is gone
    lists,      \* what the server stores: grants, members, denied, ceiling
    view,       \* per administrator: what the client has read, and its copy
    fresh,      \* per administrator: nothing else has changed since it read
    edits, writes

editVars == <<name, lists, view, fresh, edits, writes>>

Objects == Identities \cup Roles \cup Tags
Unborn == "unborn"
NoView == [tool |-> "none"]
AnyName == Names \cup {Unborn, Null}

-----------------------------------------------------------------------------
(* Grants.                                                                  *)

GrantFor(type, of, update, list) == [type |-> type, of |-> of, update |-> update, list |-> list]

(* The fields that an update permission has; Null stands for all of them.   *)
UpdateFields(type) == IF type \in {"identity", "role"} THEN {"name", "rest"} ELSE {}

(* What an unset permission means to the checks.                            *)
AllOf(g) ==
    [g EXCEPT !.update = IF @ = Null THEN UpdateFields(g.type) ELSE @,
              !.list = IF @ = Null THEN Axis ELSE @]

KindOf(type) ==
    CASE type \in {"identity", "ssh"} -> Identities
      [] type = "role" -> Roles
      [] type = "tag" -> Tags
      [] OTHER -> {}

Invalid == GrantFor("invalid", Null, {}, {})

(* What the types of grants have, and what a filter of each may hold: names *)
(* in a client, objects on the server.                                      *)
Grants(filters) ==
    [type: {"tag", "role", "identity", "ssh", "other"}, of: filters \cup {Null},
     update: {Null} \cup SUBSET {"name", "rest"}, list: {Null} \cup SUBSET Axis]

HasItsFields(g) ==
    /\ g.type \in {"tag", "ssh"} => g.update = {}
    /\ g.type \in {"tag", "role"} => g.list = {}

ShownGrants == {g \in Grants(Names \cup {Stem}) : HasItsFields(g)} \cup {Invalid}
StoredGrants == {g \in Grants(Objects) : HasItsFields(g) /\ (g.of # Null => g.of \in KindOf(g.type))}

(* Every object is of one kind, names are unique in a kind, and the lists   *)
(* hold grants on what there is or was.                                     *)
ASSUME EditingAssumption ==
    /\ Identities \cap Roles = {} /\ Identities \cap Tags = {} /\ Roles \cap Tags = {}
    /\ Null \notin Objects \cup Names \cup {Unborn} /\ Unborn \notin Names \cup {Stem}
    /\ \A S \in (SUBSET Axis) \cup (SUBSET {"name", "rest"}) : S # Null
    /\ \A S \in (SUBSET Identities) \cup (SUBSET AnyName) : S # Null
    /\ \A a \in Admins : Tools[a] \subseteq {"tui", "pfa"}
    /\ NewTypes \subseteq {"ssh", "identity", "role", "tag"}
    /\ StartNames \in [Objects -> AnyName]
    /\ \A kind \in {Identities, Roles, Tags} : \A o, p \in kind :
          StartNames[o] = StartNames[p] /\ StartNames[o] \in Names => o = p
    /\ DOMAIN StartLists = {"grants", "members", "denied", "ceiling"}
    /\ StartLists["members"] \subseteq Identities
    /\ \A l \in {"grants", "denied", "ceiling"} : StartLists[l] = Null \/ StartLists[l] \subseteq StoredGrants

(* grant_to_schema, grant_from_schema: ids become names and names ids.      *)
Shown(g) ==
    IF g.of = Null THEN g
    ELSE IF name[g.of] \in Names THEN [g EXCEPT !.of = name[g.of]] ELSE Invalid

WithName(type, n) == {o \in KindOf(type) : name[o] = n}

Resolves(s) == s # Invalid /\ (s.of # Null => WithName(s.type, s.of) # {})

Stored_DropsUnset(s) ==
    [s EXCEPT !.of = IF @ = Null THEN Null ELSE CHOOSE o \in WithName(s.type, @) : TRUE,
              !.update = IF @ = Null THEN {} ELSE @]

Stored(s) == [s EXCEPT !.of = IF @ = Null THEN Null ELSE CHOOSE o \in WithName(s.type, @) : TRUE]

ShownList(l, value) ==
    IF value = Null THEN Null
    ELSE IF l = "members" THEN {name[i] : i \in value} ELSE {Shown(g) : g \in value}

(* What `pfa grant` makes: an option for each unset permission; an ssh grant *)
(* that gives nothing is refused.                                            *)
Filters == Names \cup {Null}
TagGrants == {GrantFor("tag", of, {}, {}) : of \in Filters}
RoleGrants == {GrantFor("role", of, u, {}) : of \in Filters, u \in {Null} \cup SUBSET UpdateFields("role")}
IdentityGrants ==
    {GrantFor("identity", of, u, l) :
        of \in Filters, u \in {Null} \cup SUBSET UpdateFields("identity"), l \in {Null} \cup SUBSET Axis}
ShellGrants == {GrantFor("ssh", of, {}, l) : of \in Filters, l \in {Null} \cup (SUBSET Axis \ {{}})}
OtherGrants == {GrantFor("other", Null, {}, {})}

Made == TagGrants \cup RoleGrants \cup IdentityGrants \cup ShellGrants \cup OtherGrants

-----------------------------------------------------------------------------
(* The editor of one grant: a box with a text for the filter, ticks, and a  *)
(* box with a text for the list.  The text of a tag is split at blanks.     *)

Editable(type) == type \in {"identity", "ssh", "role", "tag"}

Word(n) == IF n \in Spaced THEN Stem ELSE n

Form(s, ticks) ==
    [type |-> s.type, boxed |-> s.of # Null, of |-> s.of, ticks |-> ticks,
     listed |-> s.list # Null, list |-> IF s.list = Null THEN {} ELSE s.list]

(* A permission to update anything has all ticks, but not in an identity    *)
(* grant, which has one tick, for the name.                                 *)
TagForm(s) == Form(s, {})
SSHForm(s) == Form(s, {})
RoleForm(s) == Form(s, AllOf(s).update)
IdentityForm(s) == Form(s, IF s.update = Null THEN {} ELSE s.update \cap {"name"})

Widget(s) ==
    CASE s.type = "tag" -> TagForm(s)
      [] s.type = "ssh" -> SSHForm(s)
      [] s.type = "role" -> RoleForm(s)
      [] s.type = "identity" -> IdentityForm(s)

(* A box that is checked and blank filters nothing; an unchecked box for a   *)
(* list is everything in an ssh grant and nothing in an identity grant.      *)
NameFilter(w) == IF w.boxed /\ w.of # Null THEN w.of ELSE Null
TagFilter(w) == IF w.boxed /\ w.of # Null THEN Word(w.of) ELSE Null

AxisPerm_Unset(w) == IF w.listed THEN w.list ELSE {}

AxisPerm(w) == IF w.listed THEN w.list ELSE Null
TagPerm(w) == IF w.listed THEN w.list ELSE {}

TagOf(w) == GrantFor("tag", TagFilter(w), {}, {})
SSHOf(w) == GrantFor("ssh", NameFilter(w), {}, AxisPerm(w))
RoleOf(w) == GrantFor("role", NameFilter(w), w.ticks, {})
IdentityOf(w) == GrantFor("identity", NameFilter(w), w.ticks, TagPerm(w))

Confirmed(w) ==
    CASE w.type = "tag" -> TagOf(w)
      [] w.type = "ssh" -> SSHOf(w)
      [] w.type = "role" -> RoleOf(w)
      [] w.type = "identity" -> IdentityOf(w)

IsRefused(w) == w.type = "ssh" /\ w.listed /\ w.list = {}

NewGrant(type) ==
    CASE type = "ssh" -> GrantFor("ssh", Null, {}, Axis)
      [] type = "identity" -> GrantFor("identity", Null, {}, Null)
      [] OTHER -> GrantFor(type, Null, {}, {})

(* The user confirms as it is, or changes one thing. *)
Touched(w) ==
    {w} \cup {[w EXCEPT !.boxed = TRUE, !.of = n] : n \in Filters}
        \cup {[w EXCEPT !.boxed = FALSE, !.of = Null]}
        \cup {[w EXCEPT !.ticks = (@ \ {f}) \cup ({f} \ @)] : f \in UpdateFields(w.type)}
        \cup (IF w.type \in {"ssh", "identity"}
              THEN {[w EXCEPT !.listed = TRUE, !.list = l] : l \in SUBSET Axis}
                     \cup {[w EXCEPT !.listed = FALSE, !.list = {}]}
              ELSE {})

-----------------------------------------------------------------------------
(* Reading and editing.                                                     *)

Places == [role |-> {"grants", "members"}, boundary |-> {"denied", "ceiling"}]
GrantLists == {"grants", "denied", "ceiling"}

IsOpen(a) == view[a] # NoView
Has(a, l) == IsOpen(a) /\ l \in DOMAIN view[a].saved

Open(a, tool, place) ==
    /\ ~IsOpen(a)
    /\ LET read == [l \in Places[place] |-> ShownList(l, lists[l])]
       IN  view' = [view EXCEPT ![a] = [tool |-> tool, saved |-> read, copy |-> read, send |-> {}]]
    /\ fresh' = [fresh EXCEPT ![a] = TRUE]
    /\ UNCHANGED <<name, lists, edits, writes>>

Rewrite(a, l, value, send) ==
    /\ view' = [view EXCEPT ![a].copy[l] = value, ![a].send = send]
    /\ edits < MaxEdits /\ edits' = edits + 1
    /\ UNCHANGED <<name, lists, fresh, writes>>

Leave(a) ==
    /\ view' = [view EXCEPT ![a] = NoView]
    /\ UNCHANGED <<name, lists, fresh, edits, writes>>

Present(a, l) == IF view[a].copy[l] = Null THEN {} ELSE view[a].copy[l]

(* A pfa command: one change to one list, which is sent in any case; the    *)
(* list that is null stays null when a grant is taken out of it, and the    *)
(* client sends no null.                                                    *)
PfaCommand(a) == IsOpen(a) /\ view[a].tool = "pfa" /\ view[a].send = {}

PfaAdd(a, l, s) == PfaCommand(a) /\ Has(a, l) /\ Rewrite(a, l, Present(a, l) \cup {s}, {l})

PfaDelete(a, l, s) ==
    /\ PfaCommand(a) /\ Has(a, l)
    /\ IF view[a].copy[l] = Null THEN Leave(a) ELSE Rewrite(a, l, view[a].copy[l] \ {s}, {l})

PfaSet(a, l, s) == PfaCommand(a) /\ Has(a, l) /\ Rewrite(a, l, {s}, {l})

PfaMembers(a, n) ==
    /\ PfaCommand(a) /\ Has(a, "members")
    /\ LET members == view[a].copy["members"]
       IN  \E then \in {members \cup {n}, members \ {n}, {n}} : Rewrite(a, "members", then, {"members"})

(* The screens of the terminal UI. *)
OnScreen(a, l) == Has(a, l) /\ view[a].tool = "tui"

TuiAdd(a, l, w) == OnScreen(a, l) /\ ~IsRefused(w) /\ Rewrite(a, l, Present(a, l) \cup {Confirmed(w)}, {})

TuiDelete(a, l, s) == OnScreen(a, l) /\ s \in Present(a, l) /\ Rewrite(a, l, Present(a, l) \ {s}, {})

TuiEdit(a, l, s, w) ==
    /\ OnScreen(a, l) /\ s \in Present(a, l) /\ ~IsRefused(w)
    /\ Rewrite(a, l, (Present(a, l) \ {s}) \cup {Confirmed(w)}, {})

TuiMembers(a, n) ==
    /\ OnScreen(a, "members")
    /\ LET members == view[a].copy["members"]
       IN  Rewrite(a, "members", IF n \in members THEN members \ {n} ELSE members \cup {n}, {})

-----------------------------------------------------------------------------
(* Saving.                                                                  *)

(* What the client sends: in the terminal UI, what differs from what was    *)
(* read or saved.                                                           *)
Sent(a) ==
    IF view[a].tool = "pfa" THEN view[a].send
    ELSE {l \in DOMAIN view[a].saved : view[a].copy[l] # view[a].saved[l]}

StoredList(l, value) ==
    IF l = "members" THEN UNION {WithName("identity", n) : n \in value} ELSE {Stored(s) : s \in value}

Resolved(l, value) ==
    IF l = "members" THEN \A n \in value : WithName("identity", n) # {} ELSE \A s \in value : Resolves(s)

(* The role that is active keeps its grants and its member; nobody edits a  *)
(* boundary that applies to them.                                           *)
Permitted(a, l, value) ==
    /\ l = "grants" /\ a \in Active => lists["grants"] \subseteq StoredList(l, value)
    /\ l = "members" /\ a \in Active => Account[a] \notin lists["members"] \ StoredList(l, value)
    /\ l \in {"denied", "ceiling"} => a \notin Bounded

Accepted(a) == \A l \in Sent(a) : Resolved(l, view[a].copy[l]) /\ Permitted(a, l, view[a].copy[l])

(* Everybody else has read what is no longer so. *)
Outdated(a) == [b \in Admins |-> fresh[b] /\ b = a]

(* The screen of a role stays and remembers what it saved; that of a        *)
(* boundary closes, and pfa ends.                                           *)
SavedView(a) ==
    IF view[a].tool = "tui" /\ "grants" \in DOMAIN view[a].saved
    THEN [view[a] EXCEPT !.saved = view[a].copy] ELSE NoView

Save(a) ==
    /\ IsOpen(a) /\ Sent(a) # {} /\ Accepted(a)
    /\ writes < MaxWrites /\ writes' = writes + 1
    /\ lists' = [l \in DOMAIN lists |-> IF l \in Sent(a) THEN StoredList(l, view[a].copy[l]) ELSE lists[l]]
    /\ view' = [view EXCEPT ![a] = SavedView(a)]
    /\ fresh' = Outdated(a)
    /\ UNCHANGED <<name, edits>>

(* An error is shown; pfa ends with it. *)
Refuse(a) == IsOpen(a) /\ Sent(a) # {} /\ ~Accepted(a) /\ view[a].tool = "pfa" /\ Leave(a)

-----------------------------------------------------------------------------
(* Elsewhere objects are renamed, made and deleted; names are unique in a   *)
(* kind.  With an identity or a tag go the grants about it.                 *)

KindOfObject(o) == CHOOSE kind \in {Identities, Roles, Tags} : o \in kind
IsTaken(o, n) == \E p \in KindOfObject(o) : name[p] = n

Elsewhere ==
    /\ writes < MaxWrites /\ writes' = writes + 1
    /\ fresh' = [a \in Admins |-> FALSE]
    /\ UNCHANGED <<view, edits>>

Rename(o, n) ==
    /\ name[o] # Null /\ ~IsTaken(o, n) /\ (o \in Tags => name[o] = Unborn)
    /\ name' = [name EXCEPT ![o] = n]
    /\ Elsewhere /\ UNCHANGED lists

Swept(o, l) ==
    IF lists[l] = Null \/ o \in Roles THEN lists[l]
    ELSE IF l = "members" THEN lists[l] \ {o} ELSE {g \in lists[l] : g.of # o}

Delete(o) ==
    /\ name[o] \in Names /\ \A a \in Admins : Account[a] # o
    /\ name' = [name EXCEPT ![o] = Null]
    /\ lists' = [l \in DOMAIN lists |-> Swept(o, l)]
    /\ Elsewhere

-----------------------------------------------------------------------------
EditInit ==
    /\ name = StartNames
    /\ lists = StartLists
    /\ view = [a \in Admins |-> NoView]
    /\ fresh = [a \in Admins |-> FALSE]
    /\ edits = 0 /\ writes = 0

Edit(a, l) ==
    \/ \E s \in Typed \cap Made : PfaAdd(a, l, s) \/ PfaDelete(a, l, s) \/ PfaSet(a, l, s)
    \/ \E t \in NewTypes : \E w \in Touched(Widget(NewGrant(t))) : TuiAdd(a, l, w)
    \/ Has(a, l) /\ \E s \in Present(a, l) :
          \/ TuiDelete(a, l, s)
          \/ Editable(s.type) /\ \E w \in Touched(Widget(s)) : TuiEdit(a, l, s, w)

EditNext ==
    \/ \E a \in Admins :
          \/ \E tool \in Tools[a], place \in DOMAIN Places : Open(a, tool, place)
          \/ \E l \in GrantLists : Edit(a, l)
          \/ \E n \in Names : PfaMembers(a, n) \/ TuiMembers(a, n)
          \/ Save(a) \/ Refuse(a)
          \/ IsOpen(a) /\ Leave(a)
    \/ \E o \in Objects : Delete(o) \/ \E n \in Names : Rename(o, n)

EditSpec == EditInit /\ [][EditNext]_editVars

-----------------------------------------------------------------------------
(* Properties.                                                              *)

(* Unless something else changed since it read, a client's idea of what the *)
(* server has is true, also after any number of saves on one screen: the    *)
(* next save sends exactly what differs.  (role_view.py keeps what it       *)
(* saved, and does not read it again.)                                      *)
ScreensTellTheTruth ==
    \A a \in Admins : fresh[a] /\ IsOpen(a) =>
        \A l \in DOMAIN view[a].saved : view[a].saved[l] = ShownList(l, lists[l])

(* A save with nothing else in between does what the administrator did and  *)
(* nothing more: a grant that is still in the copy is stored as it was, id, *)
(* permissions and all, though it went through names and back; what was not *)
(* in the list that was read is new, and the rest goes.                     *)
SavesAreTheEdit ==
    [][\A a \in Admins : Save(a) /\ fresh[a] =>
          \A l \in GrantLists : lists'[l] # lists[l] =>
             LET old == IF lists[l] = Null THEN {} ELSE lists[l]
                 kept == {g \in old : Shown(g) \in view[a].copy[l]}
                 new == view[a].copy[l] \ {Shown(g) : g \in old}
             IN  kept \subseteq lists'[l] /\ {Shown(g) : g \in lists'[l] \ kept} = new]_editVars

(* Who opens a grant in the editor and confirms it as it is has not changed *)
(* what it allows.  (Not so for grants on identities, and for tags with a   *)
(* blank in them: see the README.)                                          *)
OnDisplay == UNION {UNION {Present(a, l) : l \in DOMAIN view[a].saved \ {"members"}} : a \in {b \in Admins : IsOpen(b)}}

IsKept(s) == ~IsRefused(Widget(s)) => AllOf(Confirmed(Widget(s))) = AllOf(s)

ConfirmChangesNothing ==
    \A s \in OnDisplay : s.type \in {"ssh", "role"} \/ (s.type = "tag" /\ s.of \notin Spaced) => IsKept(s)

(* What an administrator sees is what was stored when the screen was read or *)
(* saved, and a form that is confirmed as it opened changes nothing.         *)
EditorsAreHonest == ScreensTellTheTruth /\ ConfirmChangesNothing

(* model/grant.py:105: "If None, any tag can be used. If list is empty, no   *)
(* tag can be used."  The editor of grants on identities makes the one into  *)
(* the other.                                                                *)
ConfirmKeepsIdentities == \A s \in OnDisplay : s.type = "identity" => IsKept(s)

(* tui/checkbox_list.py:38: a field that is split at blanks is not for       *)
(* "values that may contain spaces".  A tag is one, and its field is split.  *)
ConfirmKeepsTags == \A s \in OnDisplay : s.type = "tag" => IsKept(s)

(* tui/grant_edit/ssh.py:24: "An unchecked box is the whole axis".  So is a  *)
(* box that is checked and left blank, when it is about a name.              *)
BlankIsNotEverybody ==
    [][\A a \in Admins, l \in GrantLists : \A t \in NewTypes :
          \A w \in Touched(Widget(NewGrant(t))) : TuiAdd(a, l, w) /\ w.boxed => Confirmed(w).of # Null]_editVars

(* endpoints/boundary.py:140: null means "no ceiling is set, so nothing is   *)
(* disallowed", an empty list "everything is disallowed".  A ceiling that    *)
(* was null is stored as the empty list when the administrator adds a grant  *)
(* to it on the screen and takes it out again, and no client can undo that.  *)
NoCeilingByAccident ==
    [][\A a \in Admins : Save(a) /\ lists["ceiling"] = Null => lists'["ceiling"] # {}]_editVars
=============================================================================
