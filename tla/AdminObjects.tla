---------------------------- MODULE AdminObjects ----------------------------
(***************************************************************************)
(* The objects that administrators edit: tags, identities, bastions, roles *)
(* and boundaries, and the grants in roles and boundaries that name them   *)
(* (api/endpoints and api/model: tag, identity, bastion, role, boundary;   *)
(* model/tag_grants, identity_grants, bastion_grants).                     *)
(*                                                                         *)
(* There are no foreign keys, and grants are JSON in the rows of roles and *)
(* boundaries: an endpoint that deletes an object looks for what names it, *)
(* refuses, or rewrites it.  A request is one transaction: its checks, one *)
(* step for each table that it reads to be rewritten, one for each update, *)
(* and the commit.  The database is READ COMMITTED, with row locks; one    *)
(* that locks the whole file runs one request at a time (oneWriter).        *)
(*                                                                         *)
(* Left out: names and descriptions, whether the grants of the caller let  *)
(* it do this (SSHGrants), keys and sessions (Enrolment), and the boundary *)
(* filters of grants, which no deletion rewrites.                          *)
(***************************************************************************)
EXTENDS Naturals, FiniteSets

CONSTANTS
    Requests,
    Tags, Identities, Bastions, RoleIds, Boundaries,
    Founding,       \* the identity that initialize made
    Ops,            \* what the requests may ask for
    StartRows,      \* the rows at the start, with their values
    MaxRequests,    \* bound
    Null

Objects ==
    ({"tag"} \X Tags) \cup ({"identity"} \X Identities) \cup ({"bastion"} \X Bastions)
        \cup ({"role"} \X RoleIds) \cup ({"boundary"} \X Boundaries)

Rows ==
    Objects \cup ({"tagged"} \X Identities \X Tags) \cup ({"member"} \X RoleIds \X Identities)

VARIABLES
    db,         \* the committed rows; the value of a row that is not there is Null
    used,       \* the rows that were ever inserted: an id is never used twice
    staged,     \* per request: the rows that its transaction has written
    locks,      \* per request: the rows that it holds
    entries,    \* per request: audited rows with their old values
    op, caller, pc,
    served,     \* how many requests have come
    todo,       \* per request: the updates left of the table that it rewrites, or Unread
    oneWriter

objectVars == <<db, used, staged, locks, entries, op, caller, pc, served, todo, oneWriter>>

NoRows == [row \in {} |-> Null]
Over(f, g) == [x \in DOMAIN f \cup DOMAIN g |-> IF x \in DOMAIN f THEN f[x] ELSE g[x]]
One(row, value) == [x \in {row} |-> value]

(* An update locks rows and writes values.  That of no row stands for the   *)
(* updates of a table that is still to be read.                             *)
Unread == {[rows |-> {}, values |-> NoRows]}

-----------------------------------------------------------------------------
(* Grants.  A grant is about identities (those of types identity, ssh and   *)
(* live: with a filter on the id and the tags, and lists of tags that may   *)
(* be put on them or taken off), about tags, or about bastions.             *)

OnIdentities(i, filter, allow) == [on |-> "identity", id |-> i, tags |-> filter, allow |-> allow]
OnTag(t) == [on |-> "tag", id |-> t, tags |-> Null, allow |-> Null]
OnBastion(b) == [on |-> "bastion", id |-> b, tags |-> Null, allow |-> Null]

SetsOfTags == (SUBSET Tags) \cup {Null}

Grants ==
    [on : {"identity"}, id : Identities \cup {Null}, tags : SetsOfTags, allow : SetsOfTags]
        \cup [on : {"tag"}, id : Tags \cup {Null}, tags : {Null}, allow : {Null}]
        \cup [on : {"bastion"}, id : Bastions \cup {Null}, tags : {Null}, allow : {Null}]

TagsOf(d, i) == {t \in Tags : d[<<"tagged", i, t>>] # Null}

(* An empty filter matches nobody. *)
Matches(g, d, i) ==
    /\ g.id \in {Null, i}
    /\ g.tags # Null => g.tags # {} /\ g.tags \subseteq TagsOf(d, i)

FilterNames(g, t) == g.tags # Null /\ t \in g.tags
PermissionNames(g, t) == g.allow # Null /\ t \in g.allow
TagObjectNames(g, t) == g.on = "tag" /\ g.id = t
References(g, t) == FilterNames(g, t) \/ PermissionNames(g, t)

(* A grant that needs the tag goes; a list of tags only loses it.           *)
RewriteTag_Shrinks(grants, t) ==
    {[g EXCEPT !.tags = IF @ = Null THEN Null ELSE @ \ {t},
               !.allow = IF @ = Null THEN Null ELSE @ \ {t}] :
        g \in {x \in grants : ~TagObjectNames(x, t)}}

RewriteTag(grants, t) ==
    {[g EXCEPT !.allow = IF @ = Null THEN Null ELSE @ \ {t}] :
        g \in {x \in grants : ~FilterNames(x, t) /\ ~TagObjectNames(x, t)}}

WithoutObject(grants, type, id) == {g \in grants : ~(g.on = type /\ g.id = id)}

(* What is left of a list of grants when what the request deletes is gone.  *)
Rewrite(o, grants) ==
    IF o.of[1] = "tag" THEN RewriteTag(grants, o.of[2]) ELSE WithoutObject(grants, o.of[1], o.of[2])

(* Everything that the grants name.                                         *)
Named(grants) ==
    LET tags == {t \in Tags : \E g \in grants : References(g, t) \/ TagObjectNames(g, t)}
        objects == {<<g.on, g.id>> : g \in {x \in grants : x.id # Null}}
    IN  ({"tag"} \X tags) \cup objects

-----------------------------------------------------------------------------
(* The database.                                                            *)

Read(r, row) == IF row \in DOMAIN staged[r] THEN staged[r][row] ELSE db[row]

IsFree(r, rows) == \A other \in Requests \ {r} : rows \cap locks[other] = {}

Has(row) == db[row] # Null

Members(ro) == {i \in Identities : Has(<<"member", ro, i>>)}
BoundsOf(i) == db[<<"identity", i>>].boundaries

(* The columns of a row; of a tag or of a link, only that it is there.  The *)
(* ceiling of a boundary is a list of grants, or there is none: {}.         *)
There == "there"

ValuesOf(row) ==
    CASE row[1] = "role" -> [grants : SUBSET Grants]
      [] row[1] = "identity" -> [boundaries : SUBSET Boundaries]
      [] row[1] = "boundary" -> [denied : SUBSET Grants, ceiling : SUBSET SUBSET Grants]
      [] row[1] = "bastion" -> [tags : SetsOfTags]
      [] OTHER -> {There}

(* The lists of grants of a column. *)
ListsIn(value, column) == IF column = "ceiling" THEN value.ceiling ELSE {value[column]}
ListsOf(value) == UNION {ListsIn(value, column) : column \in DOMAIN value}

Owners == ({"role"} \X RoleIds) \cup ({"boundary"} \X Boundaries)

(* An UPDATE sets some columns, and writes nothing if the row is gone.      *)
Written(r, values) ==
    LET isUpdate(row) ==
            row[1] \in {"role", "boundary", "bastion"} /\ op[r].kind # "create" /\ pc[r] # "delete"
    IN  [row \in {x \in DOMAIN values : isUpdate(x) => Read(r, x) # Null} |->
            IF isUpdate(row) THEN Over(values[row], Read(r, row)) ELSE values[row]]

(* Lock the rows (read_one_for_update), note the old values, and write.     *)
Audited(r, rows) == {[row |-> row, old |-> Read(r, row)] : row \in rows \cap Owners}

Update(r, w) ==
    /\ IsFree(r, w.rows \cup DOMAIN w.values)
    /\ locks' = [locks EXCEPT ![r] = @ \cup w.rows \cup DOMAIN w.values]
    /\ entries' = [entries EXCEPT ![r] = @ \cup Audited(r, w.rows)]
    /\ staged' = [staged EXCEPT ![r] = Over(Written(r, w.values), @)]

Put(row, value) == [rows |-> {row}, values |-> One(row, value)]

(* The transaction ends, and the request with it. *)
Finish(r) ==
    /\ pc' = [pc EXCEPT ![r] = "idle"]
    /\ op' = [op EXCEPT ![r] = Null]
    /\ caller' = [caller EXCEPT ![r] = Null]
    /\ staged' = [staged EXCEPT ![r] = NoRows]
    /\ locks' = [locks EXCEPT ![r] = {}]
    /\ entries' = [entries EXCEPT ![r] = {}]
    /\ todo' = [todo EXCEPT ![r] = {}]
    /\ UNCHANGED <<used, served, oneWriter>>

(* What is named is there: the tags of identities, the members of roles,    *)
(* the identities and tags in grants, and the boundaries of the founding    *)
(* identity, which everybody has.                                           *)
NamesExist(d) ==
    LET there(row) == d[row] # Null
    IN  /\ \A i \in Identities, t \in Tags :
              there(<<"tagged", i, t>>) => there(<<"identity", i>>) /\ there(<<"tag", t>>)
        /\ \A ro \in RoleIds, i \in Identities :
              there(<<"member", ro, i>>) => there(<<"role", ro>>) /\ there(<<"identity", i>>)
        /\ \A row \in Owners : there(row) =>
              \A list \in ListsOf(d[row]) :
                 \A x \in Named(list) : x[1] # "bastion" => there(x)
        /\ \A b \in d[<<"identity", Founding>>].boundaries :
              /\ there(<<"boundary", b>>)
              /\ \A i \in Identities : there(<<"identity", i>>) => b \in d[<<"identity", i>>].boundaries

-----------------------------------------------------------------------------
(* What a request asks for. *)

Delete(row) == [kind |-> "delete", of |-> row]
Create(row, value) == [kind |-> "create", of |-> row, value |-> value]
NewIdentity(i, extra, tags) == [kind |-> "identity", of |-> <<"identity", i>>, extra |-> extra, tags |-> tags]
SetGrants(ro, grants) == [kind |-> "grants", of |-> <<"role", ro>>, grants |-> grants]
SetMembers(ro, members) == [kind |-> "members", of |-> <<"role", ro>>, members |-> members]
SetBoundary(b, columns) == [kind |-> "columns", of |-> <<"boundary", b>>, columns |-> columns]
SetTags(i, tags) == [kind |-> "tags", of |-> <<"identity", i>>, tags |-> tags]
SetBastion(b, tags) == [kind |-> "visible", of |-> <<"bastion", b>>, tags |-> tags]

(* What an object is created with: a role and a boundary have no grants,    *)
(* and an identity is made by NewIdentity.                                  *)
FreshValues(row) ==
    CASE row[1] = "role" -> {[grants |-> {}]}
      [] row[1] = "boundary" -> {[denied |-> {}, ceiling |-> {}]}
      [] row[1] \in {"tag", "bastion"} -> ValuesOf(row)

IsColumns(columns) ==
    /\ DOMAIN columns \subseteq {"denied", "ceiling"}
    /\ "denied" \in DOMAIN columns => columns.denied \in SUBSET Grants
    /\ "ceiling" \in DOMAIN columns => columns.ceiling \in SUBSET SUBSET Grants

IsAskable(o) ==
    \/ o.kind = "delete" /\ o.of \in Objects
    \/ o.kind = "create" /\ o.of \in Objects /\ o.of[1] # "identity" /\ o.value \in FreshValues(o.of)
    \/ /\ o.kind = "identity" /\ o.of \in {"identity"} \X Identities
       /\ o.extra \subseteq Boundaries /\ o.tags \subseteq Tags
    \/ o.kind = "grants" /\ o.of \in {"role"} \X RoleIds /\ o.grants \subseteq Grants
    \/ o.kind = "members" /\ o.of \in {"role"} \X RoleIds /\ o.members \subseteq Identities
    \/ o.kind = "columns" /\ o.of \in {"boundary"} \X Boundaries /\ IsColumns(o.columns)
    \/ o.kind = "tags" /\ o.of \in {"identity"} \X Identities /\ o.tags \subseteq Tags
    \/ /\ o.kind = "visible" /\ o.of \in {"bastion"} \X Bastions
       /\ o.tags \in SetsOfTags

(* A database in use: at the start the founding identity is there, and what  *)
(* is named is.                                                             *)
StartDb == Over(StartRows, [row \in Rows |-> Null])

ASSUME AdminAssumption ==
    /\ MaxRequests \in Nat
    /\ Null \notin Tags \cup Identities \cup RoleIds \cup Bastions
    /\ \A tags \in SUBSET Tags : tags # Null
    /\ \A row \in Rows : Null \notin ValuesOf(row)
    /\ \A o \in Ops : IsAskable(o)
    /\ DOMAIN StartRows \subseteq Rows
    /\ \A row \in DOMAIN StartRows : StartRows[row] \in ValuesOf(row)
    /\ Founding \in Identities /\ StartDb[<<"identity", Founding>>] # Null
    /\ NamesExist(StartDb)

(* The conditions of the delete endpoints. *)
IsIdentityTagged(t) == \E i \in Identities : Has(<<"tagged", i, t>>)

IsReferenced(t) ==
    \E row \in Owners : Has(row) /\ \E list \in ListsOf(db[row]) : \E g \in list : References(g, t)

MayDelete(row, c) ==
    /\ Has(row)
    /\ CASE row[1] = "tag" -> ~(IsIdentityTagged(row[2]) /\ IsReferenced(row[2]))
         [] row[1] = "identity" -> row[2] \notin {c, Founding}
         [] row[1] = "role" -> Members(row[2]) = {}
         [] row[1] = "boundary" ->
              \A i \in Identities : Has(<<"identity", i>>) => row[2] \notin BoundsOf(i)
         [] row[1] = "bastion" -> TRUE

(* grant_from_schema: what a grant names is looked up; a bastion is not.    *)
Resolves(grants) == \A row \in Named(grants) : row[1] # "bastion" => Has(row)

(* The lists of grants and members of the role that the session has.        *)
MaySetGrants(ro, grants, active) ==
    /\ Has(<<"role", ro>>) /\ Resolves(grants)
    /\ active = ro => db[<<"role", ro>>].grants \subseteq grants

MaySetMembers(ro, members, c, active) ==
    /\ Has(<<"role", ro>>) /\ \A i \in members : Has(<<"identity", i>>)
    /\ active = ro => c \notin Members(ro) \ members

(* Nobody edits a boundary that applies to them. *)
MaySetBoundary(b, columns, c) ==
    /\ Has(<<"boundary", b>>)
    /\ b \notin BoundsOf(c)
    /\ \A column \in DOMAIN columns : \A list \in ListsIn(columns, column) : Resolves(list)

(* Tags are looked up; boundaries given by id are not.                      *)
MayCreateIdentity(extra, tags, c) ==
    /\ \A t \in tags : Has(<<"tag", t>>)
    /\ extra \cap BoundsOf(c) = {}

May(o, c, active) ==
    CASE o.kind = "delete" -> MayDelete(o.of, c)
      [] o.kind = "create" -> o.of \notin used
      [] o.kind = "identity" -> o.of \notin used /\ MayCreateIdentity(o.extra, o.tags, c)
      [] o.kind = "grants" -> MaySetGrants(o.of[2], o.grants, active)
      [] o.kind = "members" -> MaySetMembers(o.of[2], o.members, c, active)
      [] o.kind = "columns" -> MaySetBoundary(o.of[2], o.columns, c)
      [] o.kind = "tags" -> Has(o.of) /\ \A t \in o.tags : Has(<<"tag", t>>)
      [] o.kind = "visible" -> Has(o.of)

(* The update that an endpoint other than delete makes, from what it read.  *)
BoundsOfNew(c, extra) == BoundsOf(c) \cup extra

Changes(now, then) == (now \ then) \cup (then \ now)

Planned(o, c) ==
    CASE o.kind = "create" -> Put(o.of, o.value)
      [] o.kind = "identity" ->
           [rows |-> {o.of},
            values |-> Over(One(o.of, [boundaries |-> BoundsOfNew(c, o.extra)]),
                           [row \in {<<"tagged", o.of[2], t>> : t \in o.tags} |-> There])]
      [] o.kind = "grants" -> Put(o.of, [grants |-> o.grants])
      [] o.kind = "members" ->
           [rows |-> {o.of},
            values |-> [row \in {<<"member", o.of[2], i>> : i \in Changes(Members(o.of[2]), o.members)} |->
                           IF row[3] \in o.members THEN There ELSE Null]]
      [] o.kind = "columns" -> Put(o.of, o.columns)
      [] o.kind = "tags" ->
           [rows |-> {o.of},
            values |-> [row \in {<<"tagged", o.of[2], t>> : t \in Changes(TagsOf(db, o.of[2]), o.tags)} |->
                           IF row[3] \in o.tags THEN There ELSE Null]]
      [] o.kind = "visible" -> Put(o.of, [tags |-> o.tags])

-----------------------------------------------------------------------------
(* Requests. *)

IsOpen(r) == pc[r] # "idle"

FirstStage(o) ==
    IF o.kind # "delete" THEN "update"
    ELSE IF o.of[1] \in {"role", "boundary"} THEN "delete" ELSE "roles"

(* A session of the caller, with or without a role that it is a member of,  *)
(* asks for something; what is refused changes nothing.                     *)
Begin(r, o, c, active) ==
    /\ pc[r] = "idle"
    /\ oneWriter => \A other \in Requests : ~IsOpen(other)
    /\ Has(<<"identity", c>>)
    /\ active # Null => Has(<<"member", active, c>>)
    /\ May(o, c, active)
    /\ op' = [op EXCEPT ![r] = o]
    /\ caller' = [caller EXCEPT ![r] = c]
    /\ pc' = [pc EXCEPT ![r] = FirstStage(o)]
    /\ todo' = [todo EXCEPT ![r] = IF o.kind = "delete" THEN Unread ELSE {Planned(o, c)}]
    /\ used' = IF o.kind \in {"create", "identity"} THEN used \cup {o.of} ELSE used
    /\ served < MaxRequests /\ served' = served + 1
    /\ UNCHANGED <<db, staged, locks, entries, oneWriter>>

NextStage(o, stage) ==
    CASE stage = "roles" -> "boundaries"
      [] stage = "boundaries" -> IF o.of[1] = "tag" THEN "bastions" ELSE "delete"
      [] stage = "bastions" -> "tagged"
      [] stage = "tagged" -> "delete"
      [] stage \in {"update", "delete"} -> "commit"

(* The request goes on with the updates `rest`, or to the next table.       *)
Proceed(r, rest) ==
    /\ todo' = [todo EXCEPT ![r] = IF rest = {} THEN Unread ELSE rest]
    /\ pc' = [pc EXCEPT ![r] = IF rest = {} THEN NextStage(op[r], @) ELSE @]
    /\ UNCHANGED <<db, used, op, caller, served, oneWriter>>

(* Of a role or a boundary, the columns that name what is deleted.          *)
Rewritten(o, value) ==
    [column \in DOMAIN value |->
        IF column = "ceiling" THEN {Rewrite(o, list) : list \in value.ceiling}
        ELSE Rewrite(o, value[column])]

StaleColumns_NoCeiling(o, value) ==
    {column \in DOMAIN value \ {"ceiling"} : Rewritten(o, value)[column] # value[column]}

StaleColumns(o, value) == {column \in DOMAIN value : Rewritten(o, value)[column] # value[column]}

(* read_all, and the update of each row that names it.                      *)
OwnerUpdates(r, owners) ==
    {Put(row, [column \in StaleColumns(op[r], db[row]) |-> Rewritten(op[r], db[row])[column]]) :
        row \in {x \in owners : Has(x) /\ StaleColumns(op[r], db[x]) # {}}}

RoleUpdates(r) == OwnerUpdates(r, {"role"} \X RoleIds)
BoundaryUpdates(r) == OwnerUpdates(r, {"boundary"} \X Boundaries)

(* remove_tag: a bastion that loses its last tag is open to everyone.       *)
BastionUpdates(r) ==
    LET t == op[r].of[2]
        seenBy(row) == db[row].tags
        left(row) == seenBy(row) \ {t}
    IN  {Put(row, [tags |-> IF left(row) = {} THEN Null ELSE left(row)]) :
            row \in {x \in {"bastion"} \X Bastions : Has(x) /\ seenBy(x) # Null /\ t \in seenBy(x)}}

(* The tag is taken off the identities that have it.                        *)
UntagUpdates(r) ==
    LET t == op[r].of[2]
    IN  {[rows |-> {<<"identity", i>>}, values |-> One(<<"tagged", i, t>>, Null)] :
            i \in {x \in Identities : Has(<<"tagged", x, t>>)}}

ReadTable(r, stage, updates) ==
    /\ pc[r] = stage /\ todo[r] = Unread
    /\ Proceed(r, updates)
    /\ UNCHANGED <<staged, locks, entries>>

ReadRoles(r) == ReadTable(r, "roles", RoleUpdates(r))
ReadBoundaries(r) == ReadTable(r, "boundaries", BoundaryUpdates(r))
ReadBastions(r) == ReadTable(r, "bastions", BastionUpdates(r))
ReadTagged(r) == ReadTable(r, "tagged", UntagUpdates(r))

UpdateOne(r) ==
    /\ IsOpen(r) /\ todo[r] # Unread
    /\ \E w \in todo[r] : Update(r, w) /\ Proceed(r, todo[r] \ {w})

(* The rows that go with the object. *)
Owned(row) ==
    {x \in Rows : Has(x) /\ row[1] = "identity"
                    /\ \/ x[1] = "tagged" /\ x[2] = row[2]
                       \/ x[1] = "member" /\ x[3] = row[2]}

(* A role, a boundary or a bastion that is gone by now is a 404.            *)
DeleteObject(r) ==
    LET row == op[r].of
        all == {row} \cup Owned(row)
    IN  /\ pc[r] = "delete"
        /\ IF Read(r, row) = Null /\ row[1] \in {"role", "boundary", "bastion"}
           THEN IsFree(r, {row}) /\ Finish(r) /\ UNCHANGED db
           ELSE /\ Update(r, [rows |-> all, values |-> [x \in all |-> Null]])
                /\ Proceed(r, {})

Commit(r) == pc[r] = "commit" /\ db' = Over(staged[r], db) /\ Finish(r)

(* A deadlock victim, a commit that fails, a server that stops. *)
Abort(r) == IsOpen(r) /\ Finish(r) /\ UNCHANGED db

ObjectsInit ==
    /\ db = StartDb
    /\ used = DOMAIN StartRows
    /\ staged = [r \in Requests |-> NoRows]
    /\ locks = [r \in Requests |-> {}]
    /\ entries = [r \in Requests |-> {}]
    /\ op = [r \in Requests |-> Null]
    /\ caller = [r \in Requests |-> Null]
    /\ pc = [r \in Requests |-> "idle"]
    /\ served = 0
    /\ todo = [r \in Requests |-> {}]
    /\ oneWriter \in BOOLEAN

Step(r) ==
    \/ ReadRoles(r) \/ ReadBoundaries(r) \/ ReadBastions(r) \/ ReadTagged(r)
    \/ UpdateOne(r) \/ DeleteObject(r)
    \/ Commit(r) \/ Abort(r)

ObjectsNext ==
    \E r \in Requests :
        \/ Step(r)
        \/ \E o \in Ops, c \in Identities, active \in RoleIds \cup {Null} : Begin(r, o, c, active)

ObjectsSpec == ObjectsInit /\ [][ObjectsNext]_objectVars

-----------------------------------------------------------------------------
(* Properties. *)

(* What a list of grants lets someone reach among the objects `world`:      *)
(* identities, tags to put on them or take off, tags, bastions.             *)
Reach(grants, d, world) ==
    LET people == {i \in Identities : <<"identity", i>> \in world}
        labels == {t \in Tags : <<"tag", t>> \in world}
        objects(g) == {row \in world : row[1] = g.on /\ g.on # "identity" /\ g.id \in {Null, row[2]}}
        matched(g) == {i \in people : g.on = "identity" /\ Matches(g, d, i)}
        tags(g) == IF g.allow = Null THEN labels ELSE g.allow \cap labels
    IN  UNION {objects(g) \cup ({"identity"} \X matched(g)) \cup ({"identity"} \X matched(g) \X tags(g)) :
                  g \in grants}

(* The step leaves the lists as wide as they were, for the objects that stay. *)
IsAsWide(row, column) ==
    LET stay == {x \in Rows : db[x] # Null /\ db'[x] # Null}
    IN  {Reach(list, db', stay) : list \in ListsIn(db'[row], column)}
            = {Reach(list, db, stay) : list \in ListsIn(db[row], column)}

(* On a database that serializes writers, permissions change by edits only,  *)
(* and nobody gets out of their bounds.  A list of grants that stays reaches *)
(* the same of the objects that stay, unless the request sets that list, or  *)
(* the tags of an identity (identity_grants.py and bastion_grants.py:        *)
(* "cannot change what anybody else is allowed to do"; tag_grants.py: a      *)
(* filter must not "suddenly become satisfiable").  No request changes what  *)
(* applies to its caller, and an identity that it creates has all bounds of  *)
(* the caller (endpoints/identity.py:201: "identities cannot escape the      *)
(* boundaries that apply to them").                                          *)
PermissionsChangeByEditsOnly ==
    [][\A r \in Requests : Commit(r) /\ oneWriter =>
          LET bounds == BoundsOf(caller[r])
              isSet(row) == op[r].of = row /\ (row[1] = "boundary" => row[2] \notin bounds)
          IN  /\ \A row \in Owners : Has(row) /\ db'[row] # Null =>
                    \A column \in DOMAIN db[row] :
                       IsAsWide(row, column) \/ isSet(row) \/ op[r].kind = "tags"
              /\ \A b \in bounds : Has(<<"boundary", b>>) => db'[<<"boundary", b>>] # Null
              /\ \A i \in Identities :
                    ~Has(<<"identity", i>>) /\ db'[<<"identity", i>>] # Null
                        => bounds \subseteq db'[<<"identity", i>>].boundaries]_objectVars

(* On a database that serializes writers, what is named is there: the tags   *)
(* of identities, the members of roles, the identities and tags in grants,   *)
(* and the boundaries of the founding identity, which everybody has.         *)
NothingDangles == oneWriter => NamesExist(db)

(* On every database, the old value that an entry of the audit log gives for *)
(* a role or a boundary is the one that the transaction replaced             *)
(* (model/role.py:101: "The row is locked so that this is what the update    *)
(* replaces").                                                               *)
AuditTellsWhatWas ==
    [][\A r \in Requests : Commit(r) => \A e \in entries[r] : e.old = db[e.row]]_objectVars

(* Whoever sees a bastion still sees it when a tag is deleted                *)
(* (model/bastion.py:125: "it's already established that no identity's       *)
(* access depends on this tag id").  It is not so: see the README.           *)
Sees(d, i, b) ==
    LET seenBy == d[<<"bastion", b>>].tags
    IN  d[<<"bastion", b>>] # Null /\ (seenBy = Null \/ seenBy \cap TagsOf(d, i) # {})

BastionsStayInSight ==
    [][\A r \in Requests : Commit(r) /\ oneWriter /\ op[r].kind = "delete" /\ op[r].of[1] = "tag" =>
          \A i \in Identities, b \in Bastions :
             Has(<<"identity", i>>) /\ Has(<<"bastion", b>>) /\ Sees(db, i, b) => Sees(db', i, b)]_objectVars

(* What somebody may do, and what the log says somebody could do, follows   *)
(* the edits: deletions take nothing away from a rule that still stands,    *)
(* and an entry names what was there (delete endpoints, tag_grants).        *)
ChangesAreEditsAndAudited == PermissionsChangeByEditsOnly /\ AuditTellsWhatWas
=============================================================================
