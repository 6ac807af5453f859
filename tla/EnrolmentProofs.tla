-------------------------- MODULE EnrolmentProofs --------------------------
(***************************************************************************)
(* Proofs about Enrolment, for any requests, identities, invitations and    *)
(* keys: what proves who somebody is counts once, and a session only        *)
(* narrows.                                                                 *)
(*                                                                         *)
(* A transaction of several statements is safe because of what it has       *)
(* staged: nobody else can write those rows until it ends (RowsDisjoint),   *)
(* so what it has read of them, and what the log of answers said then, is   *)
(* still so when it commits (LocalInv).  The other half is a history: who   *)
(* was told that they accepted an invitation (GlobalInv).                   *)
(***************************************************************************)
EXTENDS Enrolment, FiniteSetTheorems, TLAPS

(* r accepted the invitation inv. *)
Accepted(r, inv) == answer[r] = "ok" /\ op[r].kind = "accept" /\ op[r].invitation = inv

(* The invitation is, or was, in the table. *)
WasMade(inv) ==
    \/ <<"invitation", inv>> \in DOMAIN StartRows
    \/ \E r \in Requests : answer[r] = "ok" /\ op[r].kind = "invite" /\ op[r].invitation = inv

(* An update of a session keeps its owner, a role and an end. *)
Narrows(old, new) ==
    (old # None /\ new # None) =>
        /\ new.of = old.of
        /\ old.role # None => new.role = old.role
        /\ old.out => new.out

-----------------------------------------------------------------------------
(* What a request may have staged. *)

Stages == {"idle", "denylist", "denylist2", "write", "claim", "lost", "deny", "refuse",
           "lookup", "bind", "sessions", "invitations", "identity", "commit", "done"}

StagesOf(kind) ==
    CASE kind = "accept" -> {"denylist", "write", "claim", "lost", "deny", "refuse", "bind", "commit"}
      [] kind = "login" -> {"denylist", "denylist2", "write", "commit"}
      [] kind = "oidc" -> {"denylist", "write", "lookup", "bind", "commit"}
      [] kind \in {"setRole", "logout"} -> {"denylist", "write", "commit"}
      [] kind = "invite" -> {"write", "commit"}
      [] OTHER -> {"write", "sessions", "invitations", "identity", "commit"}

StagedByAccept(r, row) ==
    \/ /\ row = <<"invitation", op[r].invitation>> /\ pc[r] \in {"bind", "commit"}
       /\ staged[r][row] # None /\ staged[r][row].by = op[r].key
    \/ /\ row = <<"account", op[r].key>> /\ pc[r] = "commit"
       /\ staged[r][row] # None /\ staged[r][row].via = op[r].invitation
    \/ /\ row = <<"denied", op[r].key>> /\ pc[r] = "refuse"

StagedByInvite(r, row) ==
    /\ row = <<"invitation", op[r].invitation>> /\ pc[r] = "commit"
    /\ staged[r][row] # None /\ staged[r][row].by = None

StagedByDelete(r, row) ==
    row[1] \in {"account", "session", "invitation", "identity"} /\ staged[r][row] = None

StagedBy(r, row) ==
    CASE op[r].kind = "accept" -> StagedByAccept(r, row)
      [] op[r].kind = "oidc" ->
           row = <<"token", op[r].token>> \/ (row = <<"session", op[r].key>> /\ pc[r] = "commit")
      [] op[r].kind \in {"login", "setRole", "logout"} ->
           row = <<"session", op[r].key>> /\ pc[r] = "commit"
      [] op[r].kind = "invite" -> StagedByInvite(r, row)
      [] OTHER -> StagedByDelete(r, row)

StagedTyped(r) ==
    /\ DOMAIN staged[r] \subseteq Rows
    /\ \A row \in DOMAIN staged[r] :
          /\ staged[r][row] \in Values(row[1]) \cup {None}
          /\ op[r].kind # "delete" => staged[r][row] # None
          /\ StagedBy(r, row)

(* What it read when it began. *)
SawTyped(r) ==
    CASE op[r].kind = "accept" -> saw[r] \in InvitationRows
      [] op[r].kind = "login" -> saw[r] \in AccountRows
      [] op[r].kind \in {"setRole", "logout"} -> saw[r] \in SessionRows
      [] OTHER -> TRUE

-----------------------------------------------------------------------------
(* What a request that is under way relies on. *)

(* The one that claimed an invitation is the first. *)
ClaimHolds(r) ==
    op[r].kind = "accept" =>
        LET inv == op[r].invitation IN
        /\ WasMade(inv)
        /\ pc[r] \in {"bind", "commit"} =>
              /\ <<"invitation", inv>> \in DOMAIN staged[r]
              /\ \A w \in Requests : ~Accepted(w, inv)
        /\ pc[r] \in {"deny", "refuse"} =>
              \E w \in Requests : Accepted(w, inv) /\ op[w].key # op[r].key
        /\ saw[r].by # None =>
              \E w \in Requests : Accepted(w, inv) /\ op[w].key = saw[r].by
        /\ pc[r] = "refuse" =>
              <<"denied", op[r].key>> \in DOMAIN staged[r] \/ db[<<"denied", op[r].key>>] # None

TokenHolds(r) ==
    op[r].kind = "oidc" /\ pc[r] \in {"lookup", "bind", "commit"} =>
        <<"token", op[r].token>> \in DOMAIN staged[r] /\ db[<<"token", op[r].token>>] = None

(* What it has made of a session narrows what is there. *)
SessionsNarrow(r) ==
    \A row \in DOMAIN staged[r] :
        row[1] = "session" => Narrows(db[row], staged[r][row])

LocalInv(r) ==
    /\ pc[r] \in Stages
    /\ (pc[r] = "done") = (answer[r] # "none")
    /\ answer[r] \in Answers
    /\ pc[r] = "idle" => op[r] = None
    /\ pc[r] # "idle" => op[r] \in Ops
    /\ pc[r] \in {"idle", "done"} => DOMAIN staged[r] = {}
    /\ pc[r] \notin {"idle", "done"} =>
          /\ pc[r] \in StagesOf(op[r].kind)
          /\ StagedTyped(r) /\ SawTyped(r)
          /\ ClaimHolds(r) /\ TokenHolds(r) /\ SessionsNarrow(r)

RowsDisjoint ==
    \A q, r \in Requests : q # r => DOMAIN staged[q] \cap DOMAIN staged[r] = {}

-----------------------------------------------------------------------------
(* What the tables and the answers say together. *)

DbTyped ==
    /\ DOMAIN db = Rows
    /\ \A row \in Rows : db[row] \in Values(row[1]) \cup {None}

NewInvitations ==
    \A q, r \in Requests :
        pc[q] # "idle" /\ pc[r] # "idle" /\ op[q].kind = "invite" /\ op[r].kind = "invite"
            /\ op[q].invitation = op[r].invitation => q = r

InvitationsAgree ==
    \A inv \in Invitations :
        LET row == db[<<"invitation", inv>>] IN
        /\ \A q, r \in Requests : Accepted(q, inv) /\ Accepted(r, inv) => q = r
        /\ \A r \in Requests : Accepted(r, inv) => WasMade(inv) /\ (row # None => row.by = op[r].key)
        /\ row # None => WasMade(inv)
        /\ row # None /\ row.by # None => \E r \in Requests : Accepted(r, inv) /\ op[r].key = row.by

AccountsAgree ==
    \A k \in Keys, inv \in Invitations :
        LET row == db[<<"account", k>>] IN
        row # None /\ row.via = inv => \E r \in Requests : Accepted(r, inv) /\ op[r].key = k

DenialsAgree ==
    /\ \A r \in Requests : answer[r] = "denied" =>
          op[r].kind = "accept" /\ db[<<"denied", op[r].key>>] # None
    /\ \A k \in Keys : db[<<"denied", k>>] # None =>
          \E r \in Requests :
              /\ answer[r] = "denied" /\ op[r].kind = "accept" /\ op[r].key = k
              /\ \E w \in Requests : Accepted(w, op[r].invitation) /\ op[w].key # k

TokensAgree ==
    /\ \A r \in Requests : answer[r] = "ok" /\ op[r].kind = "oidc" => db[<<"token", op[r].token>>] # None
    /\ \A q, r \in Requests :
          answer[q] = "ok" /\ answer[r] = "ok" /\ op[q].kind = "oidc" /\ op[r].kind = "oidc"
              /\ op[q].token = op[r].token => q = r

GlobalInv ==
    DbTyped /\ NewInvitations /\ InvitationsAgree /\ AccountsAgree /\ DenialsAgree /\ TokensAgree

Shapes ==
    /\ DOMAIN staged = Requests /\ DOMAIN op = Requests /\ DOMAIN pc = Requests
    /\ DOMAIN saw = Requests /\ DOMAIN answer = Requests

IInv == Shapes /\ GlobalInv /\ RowsDisjoint /\ \A r \in Requests : LocalInv(r)

-----------------------------------------------------------------------------
(* Operators. *)

LEMMA OverRows ==
    ASSUME NEW new, NEW old
    PROVE  /\ DOMAIN Over(new, old) = DOMAIN new \cup DOMAIN old
           /\ \A row \in DOMAIN new : Over(new, old)[row] = new[row]
           /\ \A row \in DOMAIN old \ DOMAIN new : Over(new, old)[row] = old[row]
  BY DEF Over

LEMMA JustOne ==
    ASSUME NEW row, NEW value
    PROVE  DOMAIN Just(row, value) = {row} /\ Just(row, value)[row] = value
  BY DEF Just

(* A request asks for one of the seven things, with arguments of their types. *)
LEMMA OpShape ==
    ASSUME NEW o \in Ops
    PROVE  /\ o # None
           /\ o.kind \in {"invite", "accept", "login", "oidc", "setRole", "logout", "delete"}
           /\ o.kind = "invite" => o.identity \in Identities /\ o.invitation \in Invitations
                                   /\ o = Invite(o.identity, o.invitation)
           /\ o.kind = "accept" => o.invitation \in Invitations /\ o.key \in Keys
                                   /\ o = Accept(o.invitation, o.key)
           /\ o.kind = "login" => o.account \in Keys /\ o.key \in Keys
           /\ o.kind = "oidc" => o.identity \in Identities /\ o.token \in Tokens /\ o.key \in Keys
           /\ o.kind = "setRole" => o.key \in Keys /\ o.role \in Roles
           /\ o.kind = "logout" => o.key \in Keys
           /\ o.kind = "delete" => o.identity \in Identities
  <1>1. o # None
    BY EnrolmentAssumption
  <1>2. o \in {Invite(i, inv) : i \in Identities, inv \in Invitations}
               \cup {Accept(inv, k) : inv \in Invitations, k \in Keys}
               \cup {Login(k, s) : k \in Keys, s \in Keys}
               \cup {OidcLogin(i, t, s) : i \in Identities, t \in Tokens, s \in Keys}
               \cup {SetRole(s, role) : s \in Keys, role \in Roles}
               \cup {Logout(s) : s \in Keys}
               \cup {Delete(i) : i \in Identities}
    BY EnrolmentAssumption
  <1>3. ASSUME NEW i \in Identities, NEW inv \in Invitations, o = Invite(i, inv)
        PROVE  o.kind = "invite" /\ o.identity = i /\ o.invitation = inv
    BY <1>3 DEF Invite
  <1>4. ASSUME NEW inv \in Invitations, NEW k \in Keys, o = Accept(inv, k)
        PROVE  o.kind = "accept" /\ o.invitation = inv /\ o.key = k
    BY <1>4 DEF Accept
  <1>5. ASSUME NEW k \in Keys, NEW s \in Keys, o = Login(k, s)
        PROVE  o.kind = "login" /\ o.account = k /\ o.key = s
    BY <1>5 DEF Login
  <1>6. ASSUME NEW i \in Identities, NEW t \in Tokens, NEW s \in Keys, o = OidcLogin(i, t, s)
        PROVE  o.kind = "oidc" /\ o.identity = i /\ o.token = t /\ o.key = s
    BY <1>6 DEF OidcLogin
  <1>7. ASSUME NEW s \in Keys, NEW role \in Roles, o = SetRole(s, role)
        PROVE  o.kind = "setRole" /\ o.key = s /\ o.role = role
    BY <1>7 DEF SetRole
  <1>8. ASSUME NEW s \in Keys, o = Logout(s) PROVE o.kind = "logout" /\ o.key = s
    BY <1>8 DEF Logout
  <1>9. ASSUME NEW i \in Identities, o = Delete(i) PROVE o.kind = "delete" /\ o.identity = i
    BY <1>9 DEF Delete
  <1> QED BY <1>1, <1>2, <1>3, <1>4, <1>5, <1>6, <1>7, <1>8, <1>9

(* No two requests for an invitation make the same one. *)
LEMMA NewInvitationsDiffer ==
    ASSUME NEW o \in Ops, NEW other \in Ops, o.kind = "invite", other.kind = "invite",
           other.invitation = o.invitation
    PROVE  other = o
  <1>1. \A x, y \in Ops :
          x.kind = "invite" =>
             /\ <<"invitation", x.invitation>> \notin DOMAIN StartRows
             /\ y.kind = "invite" /\ y.invitation = x.invitation => y = x
    BY EnrolmentAssumption
  <1> QED BY <1>1

(* The rows by table. *)
LEMMA RowOf ==
    /\ \A inv \in Invitations : <<"invitation", inv>> \in Rows
    /\ \A i \in Identities : <<"identity", i>> \in Rows
    /\ \A t \in Tokens : <<"token", t>> \in Rows
    /\ \A k \in Keys : /\ <<"account", k>> \in Rows /\ <<"session", k>> \in Rows
                       /\ <<"denied", k>> \in Rows
  BY DEF Rows

LEMMA ValuesOf ==
    /\ Values("invitation") = InvitationRows /\ Values("account") = AccountRows
    /\ Values("session") = SessionRows /\ Values("denied") = {"row"}
    /\ Values("token") = {"row"} /\ Values("identity") = {"row"}
  BY DEF Values

-----------------------------------------------------------------------------
(* A step of one request and the others. *)

(* Acceptances stay, and a request that is not at work keeps what it relies  *)
(* on if nobody wins an invitation that it has claimed, nor writes a row    *)
(* that it has staged.                                                      *)
HistoryGrows ==
    /\ \A w \in Requests, inv \in Invitations :
          Accepted(w, inv) => Accepted(w, inv)' /\ op'[w].key = op[w].key
    /\ \A inv \in Invitations : WasMade(inv) => WasMade(inv)'
    /\ \A k \in Keys : db[<<"denied", k>>] # None => db'[<<"denied", k>>] # None

Untouched(q) ==
    /\ pc'[q] = pc[q] /\ op'[q] = op[q] /\ staged'[q] = staged[q]
    /\ saw'[q] = saw[q] /\ answer'[q] = answer[q]

LEMMA OthersStay ==
    ASSUME IInv, HistoryGrows, NEW q \in Requests, Untouched(q),
           op[q].kind = "accept" /\ pc[q] \in {"bind", "commit"} =>
               \A w \in Requests : ~Accepted(w, op[q].invitation)',
           \A row \in DOMAIN staged[q] : db'[row] = db[row]
    PROVE  LocalInv(q)'
  <1>1. LocalInv(q)
    BY DEF IInv
  <1>2. CASE pc[q] \in {"idle", "done"}
    BY <1>1, <1>2 DEF LocalInv, Untouched
  <1>3. CASE pc[q] \notin {"idle", "done"}
    <2>0. op[q] \in Ops
      BY <1>1, <1>3 DEF LocalInv
    <2>1. StagedTyped(q)'
      <3>1. StagedTyped(q)
        BY <1>1, <1>3 DEF LocalInv
      <3>2. \A row : StagedBy(q, row) => StagedBy(q, row)'
        BY DEF Untouched, StagedBy, StagedByAccept, StagedByInvite, StagedByDelete
      <3> QED BY <3>1, <3>2 DEF Untouched, StagedTyped
    <2>2. SawTyped(q)'
      BY <1>1, <1>3 DEF LocalInv, Untouched, SawTyped
    <2>3. ClaimHolds(q)'
      <3> SUFFICES ASSUME op[q].kind = "accept" PROVE ClaimHolds(q)'
        BY DEF ClaimHolds, Untouched
      <3>1. ClaimHolds(q) /\ op[q].invitation \in Invitations /\ op[q].key \in Keys
        BY <1>1, <1>3, <2>0, OpShape DEF LocalInv
      <3> QED BY <3>1 DEF ClaimHolds, Untouched, HistoryGrows
    <2>4. TokenHolds(q)'
      BY <1>1, <1>3 DEF LocalInv, Untouched, TokenHolds
    <2>5. SessionsNarrow(q)'
      BY <1>1, <1>3 DEF LocalInv, Untouched, SessionsNarrow, Narrows
    <2> QED BY <1>1, <1>3, <2>1, <2>2, <2>3, <2>4, <2>5 DEF LocalInv, Untouched
  <1> QED BY <1>2, <1>3

(* A statement of r that answers nothing and commits nothing. *)
StatementOf(r) ==
    /\ pc[r] \notin {"idle", "done"}
    /\ \E next \in Stages \ {"idle", "done"} : pc' = [pc EXCEPT ![r] = next]
    /\ \/ UNCHANGED staged
       \/ \E values : Write(r, values)
    /\ UNCHANGED <<db, op, saw, answer>>

LEMMA StatementDisjoint ==
    ASSUME Shapes, RowsDisjoint, NEW r \in Requests, StatementOf(r)
    PROVE  RowsDisjoint' /\ \A q \in Requests \ {r} : staged'[q] = staged[q]
  <1>1. CASE UNCHANGED staged
    BY <1>1 DEF RowsDisjoint
  <1>2. ASSUME NEW values, Write(r, values)
        PROVE  RowsDisjoint' /\ \A q \in Requests \ {r} : staged'[q] = staged[q]
    <2>1. /\ staged'[r] = Over(values, staged[r])
          /\ \A q \in Requests \ {r} : staged'[q] = staged[q]
      BY <1>2 DEF Write, Shapes
    <2>2. DOMAIN staged'[r] = DOMAIN values \cup DOMAIN staged[r]
      BY <2>1, OverRows, ZenonT(60)
    <2>3. \A q \in Requests \ {r} : DOMAIN values \cap DOMAIN staged[q] = {}
      BY <1>2 DEF Write, IsFree
    <2> QED BY <2>1, <2>2, <2>3 DEF RowsDisjoint
  <1> QED BY <1>1, <1>2 DEF StatementOf

LEMMA StatementInv ==
    ASSUME IInv, NEW r \in Requests, StatementOf(r), LocalInv(r)'
    PROVE  IInv'
  <1>1. /\ UNCHANGED <<db, op, saw, answer>> /\ pc[r] # "idle" /\ pc'[r] # "idle"
        /\ \A q \in Requests \ {r} : pc'[q] = pc[q]
        /\ DOMAIN pc' = Requests
    BY DEF StatementOf, IInv, Shapes
  <1>2. RowsDisjoint' /\ \A q \in Requests \ {r} : staged'[q] = staged[q]
    BY StatementDisjoint DEF IInv
  <1>3. Shapes'
    BY <1>1 DEF IInv, Shapes, StatementOf, Write
  <1>4. \A inv : \A w \in Requests : Accepted(w, inv)' <=> Accepted(w, inv)
    BY <1>1 DEF Accepted
  <1>5. \A inv : WasMade(inv)' <=> WasMade(inv)
    BY <1>1 DEF WasMade
  <1>6. GlobalInv'
    <2>1. DbTyped' /\ NewInvitations'
      BY <1>1 DEF IInv, GlobalInv, DbTyped, NewInvitations
    <2>2. InvitationsAgree'
      BY <1>1, <1>4, <1>5 DEF IInv, GlobalInv, InvitationsAgree
    <2>3. AccountsAgree'
      BY <1>1, <1>4 DEF IInv, GlobalInv, AccountsAgree
    <2>4. DenialsAgree' /\ TokensAgree'
      BY <1>1, <1>4 DEF IInv, GlobalInv, DenialsAgree, TokensAgree
    <2> QED BY <2>1, <2>2, <2>3, <2>4 DEF GlobalInv
  <1>7. HistoryGrows
    BY <1>1, <1>4, <1>5 DEF HistoryGrows
  <1>8. ASSUME NEW q \in Requests \ {r} PROVE LocalInv(q)'
    <2>1. Untouched(q)
      BY <1>1, <1>2 DEF Untouched
    <2>2. op[q].kind = "accept" /\ pc[q] \in {"bind", "commit"} =>
               \A w \in Requests : ~Accepted(w, op[q].invitation)
      BY DEF IInv, LocalInv, ClaimHolds
    <2>3. op[q].kind = "accept" /\ pc[q] \in {"bind", "commit"} =>
               \A w \in Requests : ~Accepted(w, op[q].invitation)'
      BY <1>1, <2>2 DEF Accepted
    <2> QED BY <1>1, <1>7, <2>1, <2>3, OthersStay
  <1> QED BY <1>2, <1>3, <1>6, <1>8 DEF IInv

-----------------------------------------------------------------------------
(* The end of a request. *)

EndOf(r, what) ==
    /\ pc[r] \notin {"idle", "done"}
    /\ Finish(r, what)
    /\ what \in Answers \ {"none"}

LEMMA EndFacts ==
    ASSUME IInv, NEW r \in Requests, NEW what, EndOf(r, what)
    PROVE  /\ answer[r] = "none" /\ op[r] \in Ops /\ op' = op /\ answer'[r] = what
           /\ \A q \in Requests \ {r} : Untouched(q)
           /\ DOMAIN staged'[r] = {} /\ pc'[r] = "done"
           /\ Shapes' /\ RowsDisjoint' /\ LocalInv(r)' /\ NewInvitations'
  <1>1. /\ pc' = [pc EXCEPT ![r] = "done"] /\ answer' = [answer EXCEPT ![r] = what]
        /\ staged' = [staged EXCEPT ![r] = Nothing] /\ op' = op /\ saw' = saw
        /\ what \in Answers \ {"none"} /\ pc[r] \notin {"idle", "done"}
    BY DEF EndOf, Finish
  <1>2. LocalInv(r) /\ Shapes
    BY DEF IInv
  <1>3. answer[r] = "none" /\ op[r] \in Ops
    BY <1>1, <1>2 DEF LocalInv
  <1>4. /\ pc'[r] = "done" /\ answer'[r] = what /\ staged'[r] = Nothing
        /\ \A q \in Requests \ {r} : Untouched(q)
    BY <1>1, <1>2 DEF Shapes, Untouched
  <1>5. DOMAIN staged'[r] = {}
    BY <1>4 DEF Nothing
  <1>6. Shapes'
    BY <1>1, <1>2 DEF Shapes
  <1>7. RowsDisjoint'
    BY <1>4, <1>5 DEF IInv, RowsDisjoint, Untouched
  <1>8. LocalInv(r)'
    BY <1>1, <1>3, <1>4, <1>5 DEF LocalInv, Stages
  <1>9. NewInvitations'
    BY <1>1, <1>4 DEF IInv, GlobalInv, NewInvitations, Untouched
  <1> QED BY <1>1, <1>3, <1>4, <1>5, <1>6, <1>7, <1>8, <1>9

(* An end that accepts nothing and denies nobody, and leaves every row. *)
LEMMA QuietEnd ==
    ASSUME IInv, NEW r \in Requests, NEW what, EndOf(r, what), what \notin {"ok", "denied"},
           DOMAIN db' = Rows, \A row \in Rows : db'[row] = db[row]
    PROVE  IInv'
  <1>1. /\ answer[r] = "none" /\ op' = op /\ answer'[r] = what
        /\ \A q \in Requests \ {r} : Untouched(q)
        /\ Shapes' /\ RowsDisjoint' /\ LocalInv(r)' /\ NewInvitations'
    BY EndFacts
  <1>2. \A w \in Requests : /\ answer'[w] = "ok" <=> answer[w] = "ok"
                            /\ answer'[w] = "denied" <=> answer[w] = "denied"
    BY <1>1 DEF Untouched
  <1>3. \A inv : \A w \in Requests : Accepted(w, inv)' <=> Accepted(w, inv)
    BY <1>1, <1>2 DEF Accepted
  <1>4. \A inv : WasMade(inv)' <=> WasMade(inv)
    BY <1>1, <1>2 DEF WasMade
  <1>5. GlobalInv'
    <2>1. DbTyped'
      BY DEF IInv, GlobalInv, DbTyped
    <2>2. InvitationsAgree'
      BY <1>1, <1>3, <1>4, RowOf DEF IInv, GlobalInv, InvitationsAgree
    <2>3. AccountsAgree'
      <3>1. AccountsAgree
        BY DEF IInv, GlobalInv
      <3>2. \A k \in Keys : db'[<<"account", k>>] = db[<<"account", k>>]
        BY RowOf
      <3> QED BY <1>1, <1>3, <3>1, <3>2 DEF AccountsAgree
    <2>4. DenialsAgree'
      <3>1. DenialsAgree
        BY DEF IInv, GlobalInv
      <3>2. \A w \in Requests : answer[w] = "denied" => op[w].key \in Keys
        BY <3>1, OpShape DEF IInv, LocalInv, DenialsAgree
      <3>3. \A k \in Keys : db'[<<"denied", k>>] = db[<<"denied", k>>]
        BY RowOf
      <3>4. \A w \in Requests : answer'[w] = "denied" =>
                op'[w].kind = "accept" /\ db'[<<"denied", op'[w].key>>] # None
        BY <1>1, <1>2, <3>1, <3>2, <3>3 DEF DenialsAgree
      <3>5. ASSUME NEW k \in Keys, db'[<<"denied", k>>] # None
            PROVE  \E v \in Requests :
                      /\ answer'[v] = "denied" /\ op'[v].kind = "accept" /\ op'[v].key = k
                      /\ \E w \in Requests : Accepted(w, op[v].invitation)' /\ op'[w].key # k
        <4>1. PICK v \in Requests :
                 /\ answer[v] = "denied" /\ op[v].kind = "accept" /\ op[v].key = k
                 /\ \E w \in Requests : Accepted(w, op[v].invitation) /\ op[w].key # k
          BY <3>1, <3>3, <3>5 DEF DenialsAgree
        <4> QED BY <1>1, <1>2, <1>3, <4>1
      <3> QED BY <3>4, <3>5 DEF DenialsAgree
    <2>5. TokensAgree'
      <3>1. \A w \in Requests : answer[w] = "ok" /\ op[w].kind = "oidc" => op[w].token \in Tokens
        BY OpShape DEF IInv, LocalInv
      <3> QED BY <1>1, <1>2, <3>1, RowOf DEF IInv, GlobalInv, TokensAgree
    <2> QED BY <1>1, <2>1, <2>2, <2>3, <2>4, <2>5 DEF GlobalInv
  <1>6. HistoryGrows
    BY <1>1, <1>3, <1>4, RowOf DEF HistoryGrows
  <1>7. ASSUME NEW q \in Requests \ {r} PROVE LocalInv(q)'
    <2>1. Untouched(q)
      BY <1>1
    <2>2. op[q].kind = "accept" /\ pc[q] \in {"bind", "commit"} =>
               \A w \in Requests : ~Accepted(w, op[q].invitation)'
      <3>1. op[q].kind = "accept" /\ pc[q] \in {"bind", "commit"} =>
               \A w \in Requests : ~Accepted(w, op[q].invitation)
        BY DEF IInv, LocalInv, ClaimHolds
      <3> QED BY <1>1, <1>2, <3>1 DEF Accepted
    <2>3. \A row \in DOMAIN staged[q] : db'[row] = db[row]
      BY DEF IInv, LocalInv, StagedTyped
    <2> QED BY <1>6, <2>1, <2>2, <2>3, OthersStay
  <1> QED BY <1>1, <1>5, <1>7 DEF IInv

(* A commit writes what was staged; nobody else has staged those rows.      *)
LEMMA CommitWrites ==
    ASSUME IInv, NEW r \in Requests, pc[r] \notin {"idle", "done"}, db' = Over(staged[r], db)
    PROVE  /\ DbTyped'
           /\ \A row \in DOMAIN staged[r] : row \in Rows /\ db'[row] = staged[r][row]
           /\ \A row \in Rows \ DOMAIN staged[r] : db'[row] = db[row]
           /\ \A q \in Requests \ {r} : \A row \in DOMAIN staged[q] : db'[row] = db[row]
  <1>1. StagedTyped(r) /\ DbTyped
    BY DEF IInv, LocalInv, GlobalInv
  <1>2. /\ DOMAIN db' = Rows
        /\ \A row \in DOMAIN staged[r] : row \in Rows /\ db'[row] = staged[r][row]
        /\ \A row \in Rows \ DOMAIN staged[r] : db'[row] = db[row]
    <2>1. DOMAIN db = Rows /\ DOMAIN staged[r] \subseteq Rows
      BY <1>1 DEF StagedTyped, DbTyped
    <2>2. /\ DOMAIN db' = DOMAIN staged[r] \cup DOMAIN db
          /\ \A row \in DOMAIN staged[r] : db'[row] = staged[r][row]
          /\ \A row \in DOMAIN db \ DOMAIN staged[r] : db'[row] = db[row]
      BY DEF Over
    <2> QED BY <2>1, <2>2
  <1>3. DbTyped'
    BY <1>1, <1>2 DEF StagedTyped, DbTyped
  <1>4. ASSUME NEW q \in Requests \ {r}, NEW row \in DOMAIN staged[q]
        PROVE  db'[row] = db[row]
    <2>1. row \in Rows
      BY DEF IInv, LocalInv, StagedTyped
    <2>2. row \notin DOMAIN staged[r]
      BY DEF IInv, RowsDisjoint
    <2> QED BY <1>2, <2>1, <2>2
  <1> QED BY <1>2, <1>3, <1>4

(* The loser of an invitation ends with its own key on the denylist. *)
LEMMA DenialEnd ==
    ASSUME IInv, NEW r \in Requests, Refuse(r)
    PROVE  IInv'
  <1>1. pc[r] = "refuse" /\ EndOf(r, "denied") /\ db' = Over(staged[r], db)
    BY DEF Refuse, Commit, EndOf, Answers
  <1>2. /\ answer[r] = "none" /\ op' = op /\ answer'[r] = "denied" /\ op[r] \in Ops
        /\ \A q \in Requests \ {r} : Untouched(q)
        /\ Shapes' /\ RowsDisjoint' /\ LocalInv(r)' /\ NewInvitations'
    BY <1>1, EndFacts
  <1>3. op[r].kind = "accept" /\ op[r].key \in Keys /\ op[r].invitation \in Invitations
        /\ StagedTyped(r) /\ ClaimHolds(r)
    <2>1. LocalInv(r)
      BY DEF IInv
    <2>2. pc[r] \in StagesOf(op[r].kind)
      BY <1>1, <2>1 DEF LocalInv
    <2>3. op[r].kind = "accept"
      BY <1>1, <2>2 DEF StagesOf
    <2> QED BY <1>1, <1>2, <2>1, <2>3, OpShape DEF LocalInv
  <1>4. \A row \in DOMAIN staged[r] : row = <<"denied", op[r].key>> /\ staged[r][row] # None
    BY <1>1, <1>3 DEF StagedTyped, StagedBy, StagedByAccept
  <1>5. /\ DbTyped'
        /\ \A row \in DOMAIN staged[r] : db'[row] = staged[r][row]
        /\ \A row \in Rows \ DOMAIN staged[r] : db'[row] = db[row]
        /\ \A q \in Requests \ {r} : \A row \in DOMAIN staged[q] : db'[row] = db[row]
    BY <1>1, CommitWrites
  <1>6. \A row \in Rows : row # <<"denied", op[r].key>> => db'[row] = db[row]
    BY <1>4, <1>5
  <1>7. db'[<<"denied", op[r].key>>] # None
    BY <1>1, <1>3, <1>4, <1>5, RowOf, ZenonT(60) DEF ClaimHolds
  <1>8. \A w \in Requests : /\ answer'[w] = "ok" <=> answer[w] = "ok"
                            /\ answer'[w] = "denied" <=> answer[w] = "denied" \/ w = r
    BY <1>2 DEF Untouched
  <1>9. \A inv : \A w \in Requests : Accepted(w, inv)' <=> Accepted(w, inv)
    BY <1>2, <1>8 DEF Accepted
  <1>10. \A inv : WasMade(inv)' <=> WasMade(inv)
    BY <1>2, <1>8 DEF WasMade
  <1>11. /\ \A inv \in Invitations : db'[<<"invitation", inv>>] = db[<<"invitation", inv>>]
         /\ \A k \in Keys : db'[<<"account", k>>] = db[<<"account", k>>]
         /\ \A t \in Tokens : db'[<<"token", t>>] = db[<<"token", t>>]
    BY <1>6, RowOf
  <1>12. GlobalInv'
    <2>1. InvitationsAgree'
      <3>1. InvitationsAgree
        BY DEF IInv, GlobalInv
      <3> QED BY <1>2, <1>9, <1>10, <1>11, <3>1, ZenonT(60) DEF InvitationsAgree
    <2>2. AccountsAgree'
      BY <1>2, <1>9, <1>11 DEF IInv, GlobalInv, AccountsAgree
    <2>3. TokensAgree'
      <3>1. \A w \in Requests : answer[w] = "ok" /\ op[w].kind = "oidc" => op[w].token \in Tokens
        BY OpShape DEF IInv, LocalInv
      <3> QED BY <1>2, <1>8, <1>11, <3>1 DEF IInv, GlobalInv, TokensAgree
    <2>4. DenialsAgree'
      <3>1. DenialsAgree
        BY DEF IInv, GlobalInv
      <3>2. \A w \in Requests : answer[w] = "denied" => op[w].key \in Keys
        BY <3>1, OpShape DEF IInv, LocalInv, DenialsAgree
      <3>3. \A k \in Keys : k # op[r].key => db'[<<"denied", k>>] = db[<<"denied", k>>]
        BY <1>6, RowOf
      <3>4. \A w \in Requests : answer'[w] = "denied" =>
                op'[w].kind = "accept" /\ db'[<<"denied", op'[w].key>>] # None
        BY <1>2, <1>3, <1>7, <1>8, <3>1, <3>2, <3>3 DEF DenialsAgree
      <3>5. ASSUME NEW k \in Keys, db'[<<"denied", k>>] # None
            PROVE  \E v \in Requests :
                      /\ answer'[v] = "denied" /\ op'[v].kind = "accept" /\ op'[v].key = k
                      /\ \E w \in Requests : Accepted(w, op[v].invitation)' /\ op'[w].key # k
        <4>1. CASE k # op[r].key
          <5>1. PICK v \in Requests :
                   /\ answer[v] = "denied" /\ op[v].kind = "accept" /\ op[v].key = k
                   /\ \E w \in Requests : Accepted(w, op[v].invitation) /\ op[w].key # k
            BY <3>1, <3>3, <3>5, <4>1 DEF DenialsAgree
          <5> QED BY <1>2, <1>8, <1>9, <5>1
        <4>2. CASE k = op[r].key
          <5>1. PICK w \in Requests : Accepted(w, op[r].invitation) /\ op[w].key # k
            BY <1>1, <1>3, <4>2 DEF ClaimHolds
          <5> QED BY <1>2, <1>3, <1>8, <1>9, <4>2, <5>1
        <4> QED BY <4>1, <4>2
      <3> QED BY <3>4, <3>5 DEF DenialsAgree
    <2> QED BY <1>2, <1>5, <2>1, <2>2, <2>3, <2>4 DEF GlobalInv
  <1>13. HistoryGrows
    <2>1. \A k \in Keys : db[<<"denied", k>>] # None => db'[<<"denied", k>>] # None
      BY <1>6, <1>7, RowOf
    <2> QED BY <1>2, <1>9, <1>10, <2>1 DEF HistoryGrows
  <1>14. ASSUME NEW q \in Requests \ {r} PROVE LocalInv(q)'
    <2>1. op[q].kind = "accept" /\ pc[q] \in {"bind", "commit"} =>
               \A w \in Requests : ~Accepted(w, op[q].invitation)
      BY DEF IInv, LocalInv, ClaimHolds
    <2>2. op[q].kind = "accept" /\ pc[q] \in {"bind", "commit"} =>
               \A w \in Requests : ~Accepted(w, op[q].invitation)'
      BY <1>2, <1>8, <2>1 DEF Accepted
    <2> QED BY <1>2, <1>5, <1>13, <2>2, OthersStay
  <1> QED BY <1>2, <1>12, <1>14 DEF IInv

(* What a request that commits has staged, table by table. *)
LEMMA StagedAtCommit ==
    ASSUME IInv, NEW r \in Requests, pc[r] = "commit"
    PROVE  /\ \A inv \in Invitations :
                 LET row == <<"invitation", inv>> IN
                 row \in DOMAIN staged[r] =>
                    \/ /\ op[r].kind = "accept" /\ inv = op[r].invitation
                       /\ staged[r][row] # None /\ staged[r][row].by = op[r].key
                    \/ /\ op[r].kind = "invite" /\ inv = op[r].invitation
                       /\ staged[r][row] # None /\ staged[r][row].by = None
                    \/ staged[r][row] = None
           /\ \A k \in Keys :
                 LET row == <<"account", k>> IN
                 row \in DOMAIN staged[r] =>
                    \/ /\ op[r].kind = "accept" /\ k = op[r].key
                       /\ staged[r][row].via = op[r].invitation
                    \/ staged[r][row] = None
           /\ \A k \in Keys : <<"denied", k>> \notin DOMAIN staged[r]
           /\ \A t \in Tokens :
                 LET row == <<"token", t>> IN
                 row \in DOMAIN staged[r] =>
                    op[r].kind = "oidc" /\ t = op[r].token /\ staged[r][row] # None
  <1>1. StagedTyped(r) /\ op[r] \in Ops
    BY DEF IInv, LocalInv
  <1>2. op[r].kind \in {"invite", "accept", "login", "oidc", "setRole", "logout", "delete"}
    BY <1>1, OpShape
  <1>3. \A row \in DOMAIN staged[r] : StagedBy(r, row) /\ (op[r].kind # "delete" => staged[r][row] # None)
    BY <1>1 DEF StagedTyped
  <1>4. CASE op[r].kind = "accept"
    BY <1>3, <1>4 DEF StagedBy, StagedByAccept
  <1>5. CASE op[r].kind = "invite"
    BY <1>3, <1>5 DEF StagedBy, StagedByInvite
  <1>6. CASE op[r].kind = "oidc"
    BY <1>3, <1>6 DEF StagedBy
  <1>7. CASE op[r].kind \in {"login", "setRole", "logout"}
    BY <1>3, <1>7 DEF StagedBy
  <1>8. CASE op[r].kind = "delete"
    BY <1>3, <1>8 DEF StagedBy, StagedByDelete
  <1> QED BY <1>2, <1>4, <1>5, <1>6, <1>7, <1>8

(* An invitation that was made is never made again. *)
LEMMA MadeOnce ==
    ASSUME IInv, NEW r \in Requests, op[r].kind = "invite", pc[r] = "commit",
           WasMade(op[r].invitation)
    PROVE  FALSE
  <1>1. op[r] \in Ops /\ answer[r] = "none" /\ LocalInv(r)
    BY DEF IInv, LocalInv
  <1>2. <<"invitation", op[r].invitation>> \notin DOMAIN StartRows
    BY <1>1, EnrolmentAssumption
  <1>3. PICK q \in Requests : /\ answer[q] = "ok" /\ op[q].kind = "invite"
                             /\ op[q].invitation = op[r].invitation
    BY <1>2 DEF WasMade
  <1>4. pc[q] # "idle"
    BY <1>3 DEF IInv, LocalInv
  <1>5. q = r
    BY <1>3, <1>4 DEF IInv, GlobalInv, NewInvitations
  <1> QED BY <1>1, <1>3, <1>5

(* A request that succeeds: the one key of an invitation, the one session of *)
(* a token, a new invitation, or whatever else it has staged.               *)
LEMMA SuccessEnd ==
    ASSUME IInv, NEW r \in Requests, CommitOk(r)
    PROVE  IInv'
  <1>1. pc[r] = "commit" /\ EndOf(r, "ok") /\ db' = Over(staged[r], db)
    BY DEF CommitOk, Commit, EndOf, Answers
  <1>2. /\ answer[r] = "none" /\ op' = op /\ answer'[r] = "ok" /\ op[r] \in Ops
        /\ \A q \in Requests \ {r} : Untouched(q)
        /\ Shapes' /\ RowsDisjoint' /\ LocalInv(r)' /\ NewInvitations'
    BY <1>1, EndFacts
  <1>3. /\ LocalInv(r) /\ ClaimHolds(r) /\ TokenHolds(r) /\ StagedTyped(r)
    BY <1>1 DEF IInv, LocalInv
  <1>4. /\ DbTyped'
        /\ \A row \in DOMAIN staged[r] : db'[row] = staged[r][row]
        /\ \A row \in Rows \ DOMAIN staged[r] : db'[row] = db[row]
        /\ \A q \in Requests \ {r} : \A row \in DOMAIN staged[q] : db'[row] = db[row]
    BY <1>1, CommitWrites
  <1>5. \A w \in Requests : /\ answer'[w] = "ok" <=> answer[w] = "ok" \/ w = r
                            /\ answer'[w] = "denied" <=> answer[w] = "denied"
    BY <1>2 DEF Untouched
  <1>6. \A inv : \A w \in Requests :
           Accepted(w, inv)' <=>
              Accepted(w, inv) \/ (w = r /\ op[r].kind = "accept" /\ op[r].invitation = inv)
    BY <1>2, <1>5 DEF Accepted
  <1>7. \A inv : WasMade(inv)' <=>
              WasMade(inv) \/ (op[r].kind = "invite" /\ op[r].invitation = inv)
    BY <1>2, <1>5 DEF WasMade
  <1>8. op[r].kind = "accept" => \A w \in Requests : ~Accepted(w, op[r].invitation)
    BY <1>1, <1>3 DEF ClaimHolds
  <1>9. InvitationsAgree'
    <2> SUFFICES ASSUME NEW inv \in Invitations
                 PROVE  LET row == db'[<<"invitation", inv>>] IN
                        /\ \A q, w \in Requests : Accepted(q, inv)' /\ Accepted(w, inv)' => q = w
                        /\ \A w \in Requests : Accepted(w, inv)' =>
                               WasMade(inv)' /\ (row # None => row.by = op[w].key)
                        /\ row # None => WasMade(inv)'
                        /\ row # None /\ row.by # None =>
                               \E w \in Requests : Accepted(w, inv)' /\ op[w].key = row.by
      BY <1>2 DEF InvitationsAgree
    <2> DEFINE row == <<"invitation", inv>>
    <2>1. /\ \A q, w \in Requests : Accepted(q, inv) /\ Accepted(w, inv) => q = w
          /\ \A w \in Requests : Accepted(w, inv) =>
                 WasMade(inv) /\ (db[row] # None => db[row].by = op[w].key)
          /\ db[row] # None => WasMade(inv)
          /\ db[row] # None /\ db[row].by # None =>
                 \E w \in Requests : Accepted(w, inv) /\ op[w].key = db[row].by
      BY DEF IInv, GlobalInv, InvitationsAgree
    <2>2. row \in Rows
      BY RowOf
    <2>3. \A q, w \in Requests : Accepted(q, inv)' /\ Accepted(w, inv)' => q = w
      BY <1>6, <1>8, <2>1
    <2>4. \A w \in Requests : Accepted(w, inv)' => WasMade(inv)'
      BY <1>1, <1>3, <1>6, <1>7, <2>1 DEF ClaimHolds
    <2>5. CASE row \notin DOMAIN staged[r]
      <3>1. db'[row] = db[row]
        BY <1>4, <2>2, <2>5
      <3>2. ~(op[r].kind = "accept" /\ op[r].invitation = inv)
        BY <1>1, <1>3, <2>5 DEF ClaimHolds
      <3> QED BY <1>6, <1>7, <2>1, <2>3, <2>4, <3>1, <3>2
    <2>6. CASE row \in DOMAIN staged[r] /\ staged[r][row] = None
      <3>1. db'[row] = None
        BY <1>4, <2>6
      <3> QED BY <2>3, <2>4, <3>1
    <2>7. CASE /\ row \in DOMAIN staged[r] /\ op[r].kind = "accept" /\ inv = op[r].invitation
               /\ staged[r][row] # None /\ staged[r][row].by = op[r].key
      <3>1. db'[row] # None /\ db'[row].by = op[r].key
        BY <1>4, <2>7
      <3>2. Accepted(r, inv)' /\ \A w \in Requests : Accepted(w, inv)' => w = r
        BY <1>6, <1>8, <2>7
      <3> QED BY <2>3, <2>4, <3>1, <3>2
    <2>8. CASE /\ row \in DOMAIN staged[r] /\ op[r].kind = "invite" /\ inv = op[r].invitation
               /\ staged[r][row] # None /\ staged[r][row].by = None
      <3>1. db'[row] # None /\ db'[row].by = None /\ WasMade(inv)'
        BY <1>4, <1>7, <2>8
      <3>2. \A w \in Requests : ~Accepted(w, inv)'
        BY <1>1, <1>6, <2>1, <2>8, MadeOnce
      <3> QED BY <2>3, <2>4, <3>1, <3>2
    <2> QED BY <1>1, <2>5, <2>6, <2>7, <2>8, StagedAtCommit
  <1>10. AccountsAgree'
    <2> SUFFICES ASSUME NEW k \in Keys, NEW inv \in Invitations,
                        db'[<<"account", k>>] # None, db'[<<"account", k>>].via = inv
                 PROVE  \E w \in Requests : Accepted(w, inv)' /\ op'[w].key = k
      BY DEF AccountsAgree
    <2>1. <<"account", k>> \in Rows
      BY RowOf
    <2>2. CASE <<"account", k>> \notin DOMAIN staged[r]
      <3>1. db'[<<"account", k>>] = db[<<"account", k>>]
        BY <1>4, <2>1, <2>2
      <3>2. AccountsAgree
        BY DEF IInv, GlobalInv
      <3>3. \E w \in Requests : Accepted(w, inv) /\ op[w].key = k
        BY <3>1, <3>2 DEF AccountsAgree
      <3> QED BY <1>2, <1>6, <3>3
    <2>3. CASE <<"account", k>> \in DOMAIN staged[r]
      <3>1. db'[<<"account", k>>] = staged[r][<<"account", k>>]
        BY <1>4, <2>3
      <3>2. op[r].kind = "accept" /\ k = op[r].key /\ db'[<<"account", k>>].via = op[r].invitation
        BY <1>1, <2>3, <3>1, StagedAtCommit
      <3> QED BY <1>2, <1>6, <3>2
    <2> QED BY <2>2, <2>3
  <1>11. \A k \in Keys : db'[<<"denied", k>>] = db[<<"denied", k>>]
    BY <1>1, <1>4, RowOf, StagedAtCommit
  <1>12. DenialsAgree'
    <2>1. DenialsAgree
      BY DEF IInv, GlobalInv
    <2>2. \A w \in Requests : answer[w] = "denied" => op[w].key \in Keys
      BY <2>1, OpShape DEF IInv, LocalInv, DenialsAgree
    <2>3. \A w \in Requests : answer'[w] = "denied" =>
              op'[w].kind = "accept" /\ db'[<<"denied", op'[w].key>>] # None
      BY <1>2, <1>5, <1>11, <2>1, <2>2 DEF DenialsAgree
    <2>4. ASSUME NEW k \in Keys, db'[<<"denied", k>>] # None
          PROVE  \E v \in Requests :
                    /\ answer'[v] = "denied" /\ op'[v].kind = "accept" /\ op'[v].key = k
                    /\ \E w \in Requests : Accepted(w, op[v].invitation)' /\ op'[w].key # k
      <3>1. PICK v \in Requests :
               /\ answer[v] = "denied" /\ op[v].kind = "accept" /\ op[v].key = k
               /\ \E w \in Requests : Accepted(w, op[v].invitation) /\ op[w].key # k
        BY <1>11, <2>1, <2>4 DEF DenialsAgree
      <3> QED BY <1>2, <1>5, <1>6, <3>1
    <2> QED BY <2>3, <2>4 DEF DenialsAgree
  <1>13. TokensAgree'
    <2>1. \A w \in Requests : answer[w] = "ok" /\ op[w].kind = "oidc" =>
              op[w].token \in Tokens /\ db[<<"token", op[w].token>>] # None
      BY OpShape DEF IInv, LocalInv, GlobalInv, TokensAgree
    <2>2. op[r].kind = "oidc" =>
              /\ op[r].token \in Tokens /\ <<"token", op[r].token>> \in DOMAIN staged[r]
              /\ db[<<"token", op[r].token>>] = None
      BY <1>1, <1>2, <1>3, OpShape DEF TokenHolds
    <2>3. \A t \in Tokens :
             /\ <<"token", t>> \in DOMAIN staged[r] => db'[<<"token", t>>] # None
             /\ <<"token", t>> \notin DOMAIN staged[r] => db'[<<"token", t>>] = db[<<"token", t>>]
      <3> SUFFICES ASSUME NEW t \in Tokens
                   PROVE  /\ <<"token", t>> \in DOMAIN staged[r] => db'[<<"token", t>>] # None
                          /\ <<"token", t>> \notin DOMAIN staged[r] =>
                                db'[<<"token", t>>] = db[<<"token", t>>]
        OBVIOUS
      <3>1. <<"token", t>> \in Rows
        BY RowOf
      <3>2. <<"token", t>> \in DOMAIN staged[r] => staged[r][<<"token", t>>] # None
        BY <1>1, StagedAtCommit
      <3>3. CASE <<"token", t>> \in DOMAIN staged[r]
        BY <1>4, <3>2, <3>3
      <3>4. CASE <<"token", t>> \notin DOMAIN staged[r]
        BY <1>4, <3>1, <3>4
      <3> QED BY <3>3, <3>4
    <2>4. \A w \in Requests : answer'[w] = "ok" /\ op[w].kind = "oidc" => db'[<<"token", op[w].token>>] # None
      BY <1>5, <2>1, <2>2, <2>3
    <2>5. \A q, w \in Requests :
            answer'[q] = "ok" /\ answer'[w] = "ok" /\ op[q].kind = "oidc" /\ op[w].kind = "oidc"
              /\ op[q].token = op[w].token => q = w
      <3>1. TokensAgree
        BY DEF IInv, GlobalInv
      <3> QED BY <1>5, <2>1, <2>2, <3>1 DEF TokensAgree
    <2> QED BY <1>2, <2>4, <2>5 DEF TokensAgree
  <1>14. GlobalInv'
    BY <1>2, <1>4, <1>9, <1>10, <1>12, <1>13 DEF GlobalInv
  <1>15. HistoryGrows
    BY <1>2, <1>6, <1>7, <1>11 DEF HistoryGrows
  <1>16. ASSUME NEW q \in Requests \ {r} PROVE LocalInv(q)'
    <2>1. ASSUME op[q].kind = "accept", pc[q] \in {"bind", "commit"}
          PROVE  \A w \in Requests : ~Accepted(w, op[q].invitation)'
      <3>1. /\ \A w \in Requests : ~Accepted(w, op[q].invitation)
            /\ <<"invitation", op[q].invitation>> \in DOMAIN staged[q]
        BY <2>1 DEF IInv, LocalInv, ClaimHolds
      <3>2. ~(op[r].kind = "accept" /\ op[r].invitation = op[q].invitation)
        BY <1>1, <1>3, <3>1 DEF ClaimHolds, IInv, RowsDisjoint
      <3>3. \A w \in Requests : ~(op[w].kind = "accept" /\ op[w].invitation = op[q].invitation
                                  /\ answer'[w] = "ok")
        BY <1>5, <3>1, <3>2 DEF Accepted
      <3> QED BY <1>2, <3>3 DEF Accepted
    <2> QED BY <1>2, <1>4, <1>15, <2>1, OthersStay
  <1> QED BY <1>2, <1>14, <1>16 DEF IInv
-----------------------------------------------------------------------------
(* The beginning of the system, and of a request. *)

LEMMA InitInv == Init => IInv
  <1> SUFFICES ASSUME Init PROVE IInv
    OBVIOUS
  <1>1. \A r \in Requests : /\ staged[r] = Nothing /\ op[r] = None /\ pc[r] = "idle"
                            /\ answer[r] = "none"
    BY DEF Init
  <1>2. Shapes
    BY DEF Init, Shapes
  <1>3. DOMAIN Nothing = {}
    BY DEF Nothing
  <1>4. RowsDisjoint /\ \A r \in Requests : LocalInv(r)
    BY <1>1, <1>3 DEF RowsDisjoint, LocalInv, Stages, Answers
  <1>5. /\ DOMAIN db = Rows
        /\ \A row \in DOMAIN StartRows : row \in Rows /\ db[row] = StartRows[row]
        /\ \A row \in Rows \ DOMAIN StartRows : db[row] = None
    <2>1. DOMAIN StartRows \subseteq Rows
      BY EnrolmentAssumption
    <2>2. db = Over(StartRows, [row \in Rows |-> None])
      BY DEF Init
    <2> QED BY <2>1, <2>2 DEF Over
  <1>6. DbTyped
    BY <1>5, EnrolmentAssumption DEF DbTyped
  <1>7. \A inv : \A w \in Requests : ~Accepted(w, inv)
    BY <1>1 DEF Accepted
  <1>8. InvitationsAgree
    <2> SUFFICES ASSUME NEW inv \in Invitations, db[<<"invitation", inv>>] # None
                 PROVE  WasMade(inv) /\ db[<<"invitation", inv>>].by = None
      BY <1>7 DEF InvitationsAgree
    <2>1. <<"invitation", inv>> \in DOMAIN StartRows
      BY <1>5, RowOf
    <2> QED BY <1>5, <2>1, EnrolmentAssumption DEF WasMade
  <1>9. AccountsAgree
    <2> SUFFICES ASSUME NEW k \in Keys, db[<<"account", k>>] # None
                 PROVE  db[<<"account", k>>].via = None
      BY EnrolmentAssumption DEF AccountsAgree
    <2>1. <<"account", k>> \in DOMAIN StartRows
      BY <1>5, RowOf
    <2> QED BY <1>5, <2>1, EnrolmentAssumption
  <1>10. \A k \in Keys : db[<<"denied", k>>] = None
    <2> SUFFICES ASSUME NEW k \in Keys PROVE <<"denied", k>> \notin DOMAIN StartRows
      BY <1>5, RowOf
    <2>1. \A row \in DOMAIN StartRows : row[1] # "denied"
      BY EnrolmentAssumption
    <2> QED BY <2>1
  <1>11. DenialsAgree /\ TokensAgree /\ NewInvitations
    BY <1>1, <1>10 DEF DenialsAgree, TokensAgree, NewInvitations
  <1> QED BY <1>2, <1>4, <1>6, <1>8, <1>9, <1>11 DEF IInv, GlobalInv

(* What begins has staged nothing, and has read a row that is there. *)
LEMMA BeginInv ==
    ASSUME IInv, NEW r \in Requests, NEW o \in Ops, Begin(r, o)
    PROVE  IInv'
  <1>1. /\ pc[r] = "idle" /\ op' = [op EXCEPT ![r] = o] /\ db' = db /\ staged' = staged
        /\ IsNew(o) /\ answer[r] = "none" /\ DOMAIN staged[r] = {} /\ op[r] = None
        /\ Shapes
    BY DEF Begin, IInv, LocalInv
  <1>2. /\ o # None
        /\ o.kind \in {"invite", "accept", "login", "oidc", "setRole", "logout", "delete"}
        /\ o.kind = "accept" => o.invitation \in Invitations /\ o.key \in Keys
        /\ o.kind = "login" => o.account \in Keys
        /\ o.kind \in {"setRole", "logout"} => o.key \in Keys
    BY OpShape
  <1>3. /\ op'[r] = o /\ \A q \in Requests \ {r} : op'[q] = op[q] /\ staged'[q] = staged[q]
        /\ Shapes'
    BY <1>1 DEF Begin, Shapes
  <1>4. \A q \in Requests \ {r} : pc'[q] = pc[q] /\ saw'[q] = saw[q] /\ answer'[q] = answer[q]
    BY <1>1 DEF Begin, Shapes
  <1>5. /\ \/ /\ IsAuthentic(o) /\ saw'[r] = db[AuthRow(o)] /\ answer'[r] = "none"
              /\ pc'[r] = IF o.kind \in {"invite", "delete"} THEN "write" ELSE "denylist"
           \/ pc'[r] = "done" /\ answer'[r] = "rejected"
    BY <1>1 DEF Begin, Shapes
  <1>6. \A w \in Requests : /\ answer'[w] = "ok" <=> answer[w] = "ok"
                            /\ answer'[w] = "denied" <=> answer[w] = "denied"
                            /\ answer[w] # "none" => op'[w] = op[w]
    BY <1>1, <1>3, <1>4, <1>5
  <1>7. \A inv : \A w \in Requests : Accepted(w, inv)' <=> Accepted(w, inv)
    BY <1>6 DEF Accepted
  <1>8. \A inv : WasMade(inv)' <=> WasMade(inv)
    BY <1>6 DEF WasMade
  <1>9. \A inv : \A w \in Requests : Accepted(w, inv) => op'[w] = op[w]
    BY <1>6 DEF Accepted
  <1>10. GlobalInv'
    <2>1. DbTyped'
      BY <1>1 DEF IInv, GlobalInv, DbTyped
    <2>2. NewInvitations'
      <3>1. \A q \in Requests \ {r} :
               o.kind = "invite" /\ op[q].kind = "invite" /\ pc[q] # "idle" =>
                  o.invitation # op[q].invitation
        <4> SUFFICES ASSUME NEW q \in Requests \ {r}, o.kind = "invite", op[q].kind = "invite",
                            pc[q] # "idle", o.invitation = op[q].invitation
                     PROVE  FALSE
          OBVIOUS
        <4>1. op[q] \in Ops
          BY DEF IInv, LocalInv
        <4>2. op[q] = o
          BY <4>1, NewInvitationsDiffer
        <4> QED BY <1>1, <4>2 DEF IsNew
      <3>2. NewInvitations
        BY DEF IInv, GlobalInv
      <3> QED BY <1>3, <1>4, <3>1, <3>2 DEF NewInvitations
    <2>3. InvitationsAgree'
      <3>1. InvitationsAgree
        BY DEF IInv, GlobalInv
      <3>2. \A inv : \A w \in Requests : Accepted(w, inv)' =>
                Accepted(w, inv) /\ op'[w].key = op[w].key
        BY <1>7, <1>9
      <3> SUFFICES ASSUME NEW inv \in Invitations
                   PROVE  LET row == db'[<<"invitation", inv>>] IN
                          /\ \A q, w \in Requests : Accepted(q, inv)' /\ Accepted(w, inv)' => q = w
                          /\ \A w \in Requests : Accepted(w, inv)' =>
                                WasMade(inv)' /\ (row # None => row.by = op'[w].key)
                          /\ row # None => WasMade(inv)'
                          /\ row # None /\ row.by # None =>
                                \E w \in Requests : Accepted(w, inv)' /\ op'[w].key = row.by
        BY DEF InvitationsAgree
      <3>3. \A w \in Requests : /\ Accepted(w, inv)' <=> Accepted(w, inv)
                                /\ Accepted(w, inv) => op'[w].key = op[w].key
        BY <1>7, <1>9
      <3>4. (WasMade(inv)' <=> WasMade(inv)) /\ db' = db
        BY <1>1, <1>8
      <3> QED BY <3>1, <3>3, <3>4 DEF InvitationsAgree
    <2>4. AccountsAgree'
      <3>1. AccountsAgree
        BY DEF IInv, GlobalInv
      <3> QED BY <1>1, <1>7, <1>9, <3>1 DEF AccountsAgree
    <2>5. DenialsAgree'
      <3>1. DenialsAgree
        BY DEF IInv, GlobalInv
      <3>2. \A w \in Requests : answer'[w] = "denied" =>
                op'[w].kind = "accept" /\ db'[<<"denied", op'[w].key>>] # None
        BY <1>1, <1>6, <3>1 DEF DenialsAgree
      <3>3. ASSUME NEW k \in Keys, db'[<<"denied", k>>] # None
            PROVE  \E v \in Requests :
                      /\ answer'[v] = "denied" /\ op'[v].kind = "accept" /\ op'[v].key = k
                      /\ \E inv : inv = op'[v].invitation
                                  /\ \E w \in Requests : Accepted(w, inv)' /\ op'[w].key # k
        <4>1. PICK v \in Requests :
                 /\ answer[v] = "denied" /\ op[v].kind = "accept" /\ op[v].key = k
                 /\ \E w \in Requests : Accepted(w, op[v].invitation) /\ op[w].key # k
          BY <1>1, <3>1, <3>3 DEF DenialsAgree
        <4>2. PICK w \in Requests : Accepted(w, op[v].invitation) /\ op[w].key # k
          BY <4>1
        <4>3. op'[v] = op[v] /\ op'[w] = op[w] /\ answer'[v] = "denied"
          BY <1>6, <1>9, <4>1, <4>2
        <4>4. Accepted(w, op[v].invitation)'
          BY <1>6, <4>2, <4>3 DEF Accepted
        <4> QED BY <4>1, <4>2, <4>3, <4>4
      <3> QED BY <3>2, <3>3 DEF DenialsAgree
    <2>6. TokensAgree'
      <3>1. TokensAgree
        BY DEF IInv, GlobalInv
      <3> QED BY <1>1, <1>6, <3>1 DEF TokensAgree
    <2> QED BY <2>1, <2>2, <2>3, <2>4, <2>5, <2>6 DEF GlobalInv
  <1>11. RowsDisjoint'
    BY <1>1 DEF IInv, RowsDisjoint
  <1>12. HistoryGrows
    BY <1>1, <1>7, <1>8, <1>9 DEF HistoryGrows
  <1>13. ASSUME NEW q \in Requests \ {r} PROVE LocalInv(q)'
    <2>1. Untouched(q)
      BY <1>3, <1>4 DEF Untouched
    <2>2. op[q].kind = "accept" /\ pc[q] \in {"bind", "commit"} =>
               \A w \in Requests : ~Accepted(w, op[q].invitation)
      BY DEF IInv, LocalInv, ClaimHolds
    <2>3. op[q].kind = "accept" /\ pc[q] \in {"bind", "commit"} =>
               \A w \in Requests : ~Accepted(w, op[q].invitation)'
      <3> SUFFICES ASSUME op[q].kind = "accept", pc[q] \in {"bind", "commit"},
                          NEW w \in Requests, Accepted(w, op[q].invitation)'
                   PROVE  FALSE
        OBVIOUS
      <3>1. op'[q] = op[q] /\ answer[w] = "ok" /\ op'[w] = op[w]
        BY <1>6, <2>1 DEF Accepted, Untouched
      <3> QED BY <2>2, <3>1 DEF Accepted
    <2> QED BY <1>1, <1>12, <2>1, <2>3, OthersStay
  <1>14. LocalInv(r)'
    <2>1. CASE pc'[r] = "done"
      BY <1>1, <1>2, <1>3, <1>5, <2>1 DEF LocalInv, Stages, Answers
    <2>2. CASE pc'[r] # "done"
      <3>1. /\ IsAuthentic(o) /\ saw'[r] = db[AuthRow(o)] /\ answer'[r] = "none"
            /\ pc'[r] = IF o.kind \in {"invite", "delete"} THEN "write" ELSE "denylist"
        BY <1>5, <2>2
      <3>2. o.kind \in {"accept", "login", "setRole", "logout"} =>
               saw'[r] # None /\ saw'[r] = db[AuthRow(o)] /\ AuthRow(o) \in Rows
        BY <1>2, <3>1, RowOf DEF IsAuthentic, AuthRow
      <3>3. SawTyped(r)'
        <4>1. o.kind \in {"accept", "login", "setRole", "logout"} => saw'[r] \in Values(AuthRow(o)[1])
          BY <3>2 DEF IInv, GlobalInv, DbTyped
        <4>2. CASE o.kind = "accept"
          BY <1>3, <4>1, <4>2, ValuesOf DEF SawTyped, AuthRow
        <4>3. CASE o.kind = "login"
          BY <1>3, <4>1, <4>3, ValuesOf DEF SawTyped, AuthRow
        <4>4. CASE o.kind \in {"setRole", "logout"}
          BY <1>3, <4>1, <4>4, ValuesOf DEF SawTyped, AuthRow
        <4>5. CASE o.kind \notin {"accept", "login", "setRole", "logout"}
          BY <1>3, <4>5 DEF SawTyped
        <4> QED BY <4>2, <4>3, <4>4, <4>5
      <3>4. ClaimHolds(r)'
        <4> SUFFICES ASSUME o.kind = "accept" PROVE ClaimHolds(r)'
          BY <1>3 DEF ClaimHolds
        <4>1. saw'[r] = db[<<"invitation", o.invitation>>] /\ saw'[r] # None
          BY <3>2 DEF AuthRow
        <4>2. WasMade(o.invitation)
          BY <1>2, <4>1 DEF IInv, GlobalInv, InvitationsAgree
        <4>3. saw'[r].by # None =>
                \E w \in Requests : Accepted(w, o.invitation) /\ op[w].key = saw'[r].by
          BY <1>2, <4>1 DEF IInv, GlobalInv, InvitationsAgree
        <4>4. saw'[r].by # None =>
                \E w \in Requests : Accepted(w, o.invitation)' /\ op'[w].key = saw'[r].by
          BY <1>6, <4>3 DEF Accepted
        <4>5. WasMade(o.invitation)'
          BY <1>6, <4>2 DEF WasMade
        <4> QED BY <1>3, <3>1, <4>4, <4>5 DEF ClaimHolds
      <3>5. TokenHolds(r)' /\ SessionsNarrow(r)' /\ StagedTyped(r)'
        BY <1>1, <1>3, <3>1 DEF TokenHolds, SessionsNarrow, StagedTyped
      <3>6. pc'[r] \in StagesOf(o.kind) /\ pc'[r] \in Stages
        BY <1>2, <3>1 DEF StagesOf, Stages
      <3> QED BY <1>3, <3>1, <3>3, <3>4, <3>5, <3>6 DEF LocalInv, Answers
    <2> QED BY <2>1, <2>2
  <1> QED BY <1>3, <1>10, <1>11, <1>13, <1>14 DEF IInv

LEMMA ExpireInv == IInv /\ (\E inv \in Invitations : Expire(inv)) => IInv'
  <1> SUFFICES ASSUME IInv, UNCHANGED <<db, staged, op, pc, saw, answer>> PROVE IInv'
    BY DEF Expire
  <1>1. Shapes' /\ RowsDisjoint'
    BY DEF IInv, Shapes, RowsDisjoint
  <1>2. GlobalInv'
    BY DEF IInv, GlobalInv, DbTyped, NewInvitations, InvitationsAgree, AccountsAgree, DenialsAgree,
           TokensAgree, Accepted, WasMade
  <1>3. \A r \in Requests : LocalInv(r)'
    BY DEF IInv, LocalInv, StagedTyped, StagedBy, StagedByAccept, StagedByInvite, StagedByDelete,
           SawTyped, ClaimHolds, TokenHolds, SessionsNarrow, Accepted, WasMade
  <1> QED BY <1>1, <1>2, <1>3 DEF IInv
-----------------------------------------------------------------------------
(* The statements of a request. *)

LEMMA RaiseInv ==
    ASSUME IInv, NEW r \in Requests, pc[r] \notin {"idle", "done"},
           NEW what \in {"again", "refused", "rejected", "failed"}, Raise(r, what)
    PROVE  IInv'
  <1>1. EndOf(r, what) /\ db' = db
    BY DEF Raise, EndOf, Answers
  <1>2. DOMAIN db = Rows
    BY DEF IInv, GlobalInv, DbTyped
  <1> QED BY <1>1, <1>2, QuietEnd

LEMMA CommitNothing ==
    ASSUME IInv, NEW r \in Requests, pc[r] \notin {"idle", "done"}, DOMAIN staged[r] = {},
           NEW what \in {"again", "refused", "rejected", "failed"}, Commit(r, what)
    PROVE  IInv'
  <1>1. EndOf(r, what) /\ db' = Over(staged[r], db)
    BY DEF Commit, EndOf, Answers
  <1>2. DOMAIN db' = Rows /\ \A row \in Rows : db'[row] = db[row]
    BY <1>1, CommitWrites DEF DbTyped
  <1> QED BY <1>1, <1>2, QuietEnd

(* What a request at work has: the parts of its invariant. *)
LEMMA AtWork ==
    ASSUME IInv, NEW r \in Requests, pc[r] \notin {"idle", "done"}
    PROVE  /\ op[r] \in Ops /\ pc[r] \in StagesOf(op[r].kind)
           /\ StagedTyped(r) /\ SawTyped(r) /\ ClaimHolds(r) /\ TokenHolds(r) /\ SessionsNarrow(r)
           /\ op[r].kind \in {"invite", "accept", "login", "oidc", "setRole", "logout", "delete"}
           /\ answer[r] = "none"
           /\ DbTyped /\ InvitationsAgree
  <1>1. LocalInv(r) /\ DbTyped /\ InvitationsAgree
    BY DEF IInv, GlobalInv
  <1>2. op[r] \in Ops
    BY <1>1 DEF LocalInv
  <1> QED BY <1>1, <1>2, OpShape DEF LocalInv

(* Until its first write a request has staged nothing. *)
LEMMA NothingStaged ==
    ASSUME IInv, NEW r \in Requests,
           pc[r] \in {"denylist", "denylist2", "claim", "lost", "deny"}
              \/ (pc[r] = "write" /\ op[r].kind # "delete"),
           op[r].kind # "oidc"
    PROVE  DOMAIN staged[r] = {}
  <1>1. /\ pc[r] \in StagesOf(op[r].kind) /\ StagedTyped(r)
        /\ op[r].kind \in {"invite", "accept", "login", "oidc", "setRole", "logout", "delete"}
    BY AtWork
  <1>2. op[r].kind # "delete"
    BY <1>1 DEF StagesOf
  <1>3. \A row \in DOMAIN staged[r] : StagedBy(r, row)
    BY <1>1 DEF StagedTyped
  <1>4. CASE op[r].kind = "accept"
    BY <1>3, <1>4 DEF StagedBy, StagedByAccept
  <1>5. CASE op[r].kind = "invite"
    BY <1>3, <1>5 DEF StagedBy, StagedByInvite
  <1>6. CASE op[r].kind \in {"login", "setRole", "logout"}
    BY <1>3, <1>6 DEF StagedBy
  <1> QED BY <1>1, <1>2, <1>4, <1>5, <1>6

(* What a statement must keep for its own request. *)
LEMMA StatementLocal ==
    ASSUME IInv, NEW r \in Requests, StatementOf(r), pc'[r] \in StagesOf(op[r].kind),
           StagedTyped(r)', ClaimHolds(r)', TokenHolds(r)', SessionsNarrow(r)'
    PROVE  IInv'
  <1>1. /\ op' = op /\ saw' = saw /\ answer' = answer /\ pc[r] \notin {"idle", "done"}
        /\ pc'[r] \in Stages \ {"idle", "done"}
    BY DEF StatementOf, IInv, Shapes
  <1>2. LocalInv(r)
    BY DEF IInv
  <1>3. SawTyped(r)'
    BY <1>1, <1>2 DEF LocalInv, SawTyped
  <1>4. LocalInv(r)'
    BY <1>1, <1>2, <1>3 DEF LocalInv
  <1> QED BY <1>4, StatementInv

(* A statement that reads. *)
LEMMA ReadInv ==
    ASSUME IInv, NEW r \in Requests, pc[r] \notin {"idle", "done"},
           NEW stage \in StagesOf(op[r].kind), Next_(r, stage),
           \A row \in DOMAIN staged[r] : StagedBy(r, row)',
           ClaimHolds(r)', TokenHolds(r)'
    PROVE  IInv'
  <1>1. /\ pc'[r] = stage /\ UNCHANGED <<db, staged, op, saw, answer, expired>>
        /\ pc' = [pc EXCEPT ![r] = stage]
    BY DEF Next_, Go, IInv, Shapes
  <1>2. stage \in Stages \ {"idle", "done"}
    BY AtWork DEF StagesOf, Stages
  <1>3. StatementOf(r)
    BY <1>1, <1>2 DEF StatementOf
  <1>4. StagedTyped(r)' /\ SessionsNarrow(r)'
    BY <1>1, AtWork DEF StagedTyped, SessionsNarrow, Narrows
  <1> QED BY <1>1, <1>3, <1>4, StatementLocal

(* A statement that writes some rows. *)
LEMMA WriteFacts ==
    ASSUME IInv, NEW r \in Requests, pc[r] \notin {"idle", "done"},
           NEW stage \in StagesOf(op[r].kind), NEW values, Write(r, values), Go(r, stage),
           UNCHANGED <<db, op, saw, answer, expired>>
    PROVE  /\ StatementOf(r) /\ pc'[r] = stage
           /\ DOMAIN staged'[r] = DOMAIN values \cup DOMAIN staged[r]
           /\ \A row \in DOMAIN values : staged'[r][row] = values[row]
           /\ \A row \in DOMAIN staged[r] \ DOMAIN values : staged'[r][row] = staged[r][row]
  <1>1. stage \in Stages \ {"idle", "done"}
    BY AtWork DEF StagesOf, Stages
  <1>2. pc' = [pc EXCEPT ![r] = stage] /\ pc'[r] = stage
    BY DEF Go, IInv, Shapes
  <1>3. StatementOf(r)
    BY <1>1, <1>2 DEF StatementOf
  <1>4. staged'[r] = Over(values, staged[r])
    BY DEF Write, IInv, Shapes
  <1> QED BY <1>2, <1>3, <1>4 DEF Over

(* The insert of a row that the database did not have. *)
LEMMA InsertFacts ==
    ASSUME IInv, NEW r \in Requests, pc[r] \notin {"idle", "done"}, op[r].kind # "delete",
           NEW stage \in StagesOf(op[r].kind), NEW row \in Rows, NEW value \in Values(row[1]),
           Insert(r, row, value, stage)
    PROVE  /\ StatementOf(r) /\ pc'[r] = stage
           /\ UNCHANGED <<db, op, saw, answer, expired>>
           /\ row \notin DOMAIN staged[r] /\ db[row] = None /\ value # None
           /\ DOMAIN staged'[r] = {row} \cup DOMAIN staged[r]
           /\ staged'[r][row] = value
           /\ \A x \in DOMAIN staged[r] : staged'[r][x] = staged[r][x]
           /\ SessionsNarrow(r)'
  <1>1. Write(r, Just(row, value)) /\ Go(r, stage) /\ UNCHANGED <<db, op, saw, answer, expired>>
        /\ Read(r, row) = None
    BY DEF Insert
  <1>2. row \notin DOMAIN staged[r] /\ db[row] = None
    BY <1>1, AtWork DEF Read, StagedTyped
  <1>3. DOMAIN Just(row, value) = {row} /\ Just(row, value)[row] = value
    BY JustOne
  <1>4. /\ StatementOf(r) /\ pc'[r] = stage
        /\ DOMAIN staged'[r] = {row} \cup DOMAIN staged[r]
        /\ staged'[r][row] = value
        /\ \A x \in DOMAIN staged[r] : staged'[r][x] = staged[r][x]
    BY <1>1, <1>2, <1>3, WriteFacts
  <1>5. value # None
    BY EnrolmentAssumption
  <1>6. SessionsNarrow(r)'
    BY <1>1, <1>2, <1>4, AtWork DEF SessionsNarrow, Narrows
  <1> QED BY <1>1, <1>2, <1>4, <1>5, <1>6

(* What it has staged stays typed when one row more is. *)
LEMMA StagedMore ==
    ASSUME IInv, NEW r \in Requests, pc[r] \notin {"idle", "done"}, op' = op,
           NEW row \in Rows,
           DOMAIN staged'[r] = {row} \cup DOMAIN staged[r],
           staged'[r][row] \in Values(row[1]), staged'[r][row] # None,
           \A x \in DOMAIN staged[r] : x # row => staged'[r][x] = staged[r][x],
           \A x \in DOMAIN staged'[r] : StagedBy(r, x)'
    PROVE  StagedTyped(r)'
  <1>1. StagedTyped(r)
    BY AtWork
  <1> QED BY <1>1 DEF StagedTyped

LEMMA CheckDenylistInv ==
    ASSUME IInv, NEW r \in Requests, CheckDenylist(r) PROVE IInv'
  <1>1. pc[r] \in {"denylist", "denylist2"} /\ pc[r] \notin {"idle", "done"}
    BY DEF CheckDenylist
  <1>2. CASE Raise(r, "rejected")
    BY <1>1, <1>2, RaiseInv
  <1>3. CASE Next_(r, IF op[r].kind = "login" /\ pc[r] = "denylist" THEN "denylist2" ELSE "write")
    <2> DEFINE stage == IF op[r].kind = "login" /\ pc[r] = "denylist" THEN "denylist2" ELSE "write"
    <2>1. pc'[r] = stage /\ UNCHANGED <<db, staged, op, saw, answer>>
      BY <1>3 DEF Next_, Go, IInv, Shapes
    <2>2. stage \in StagesOf(op[r].kind)
      BY <1>1, AtWork DEF StagesOf
    <2>3. \A row \in DOMAIN staged[r] : StagedBy(r, row)'
      <3>1. CASE op[r].kind # "oidc"
        BY <1>1, <3>1, NothingStaged
      <3>2. CASE op[r].kind = "oidc"
        BY <1>1, <2>1, <3>2, AtWork DEF StagedTyped, StagedBy
      <3> QED BY <3>1, <3>2
    <2>4. ClaimHolds(r)' /\ TokenHolds(r)'
      <3>1. ClaimHolds(r)
        BY <1>1, AtWork
      <3>2. \A inv : \A w \in Requests : Accepted(w, inv)' <=> Accepted(w, inv)
        BY <2>1 DEF Accepted
      <3>3. \A inv : WasMade(inv)' <=> WasMade(inv)
        BY <2>1 DEF WasMade
      <3> QED BY <1>1, <2>1, <3>1, <3>2, <3>3 DEF ClaimHolds, TokenHolds
    <2> QED BY <1>1, <1>3, <2>2, <2>3, <2>4, ReadInv
  <1> QED BY <1>2, <1>3 DEF CheckDenylist
LEMMA SameHistory ==
    ASSUME op' = op, answer' = answer
    PROVE  /\ \A inv : \A w \in Requests : Accepted(w, inv)' <=> Accepted(w, inv)
           /\ \A inv : WasMade(inv)' <=> WasMade(inv)
  BY DEF Accepted, WasMade

(* The statements of an acceptance that read: what they have read of the     *)
(* invitation says who accepted it.                                         *)
LEMMA AcceptReads ==
    ASSUME IInv, NEW r \in Requests, op[r].kind = "accept",
           pc[r] \in {"write", "claim", "lost"},
           NEW stage \in {"lost", "claim", "deny"}, Next_(r, stage),
           stage = "deny" => \E w \in Requests : Accepted(w, op[r].invitation) /\ op[w].key # op[r].key
    PROVE  IInv'
  <1>1. pc'[r] = stage /\ UNCHANGED <<db, staged, op, saw, answer>>
    BY DEF Next_, Go, IInv, Shapes
  <1>2. stage \in StagesOf(op[r].kind)
    BY DEF StagesOf
  <1>3. DOMAIN staged[r] = {}
    BY NothingStaged
  <1>4. ClaimHolds(r)' /\ TokenHolds(r)'
    <2>1. ClaimHolds(r)
      BY AtWork
    <2> QED BY <1>1, <2>1, SameHistory DEF ClaimHolds, TokenHolds
  <1> QED BY <1>2, <1>3, <1>4, ReadInv

LEMMA ReadInvitationInv ==
    ASSUME IInv, NEW r \in Requests, ReadInvitation(r) PROVE IInv'
  <1>1. pc[r] = "write" /\ op[r].kind = "accept" /\ DOMAIN staged[r] = {}
    BY NothingStaged DEF ReadInvitation
  <1>2. CASE saw[r].by # None /\ AlreadyAccepted(r, saw[r])
    <2>1. CASE saw[r].by = op[r].key
      BY <1>1, <1>2, <2>1, CommitNothing DEF AlreadyAccepted
    <2>2. CASE saw[r].by # op[r].key
      <3>1. \E w \in Requests : Accepted(w, op[r].invitation) /\ op[w].key # op[r].key
        BY <1>1, <1>2, <2>2, AtWork DEF ClaimHolds
      <3> QED BY <1>1, <1>2, <2>2, <3>1, AcceptReads DEF AlreadyAccepted
    <2> QED BY <2>1, <2>2
  <1>3. CASE Next_(r, "lost")
    BY <1>1, <1>3, AcceptReads
  <1>4. CASE Next_(r, "claim")
    BY <1>1, <1>4, AcceptReads
  <1> QED BY <1>2, <1>3, <1>4 DEF ReadInvitation

(* The claim: a row that nobody has accepted, and that nobody else holds,   *)
(* is one that nobody was told to have accepted.                            *)
LEMMA ClaimInv ==
    ASSUME IInv, NEW r \in Requests, Claim(r) PROVE IInv'
  <1>1. pc[r] = "claim"
    BY DEF Claim
  <1>2. op[r].kind = "accept" /\ op[r].invitation \in Invitations /\ op[r].key \in Keys
    BY <1>1, AtWork, OpShape DEF StagesOf
  <1>3. DOMAIN staged[r] = {}
    BY <1>1, <1>2, NothingStaged
  <1>4. CASE Next_(r, "lost")
    BY <1>1, <1>2, <1>4, AcceptReads
  <1>5. CASE /\ ClaimApplies(r)
             /\ Write(r, Just(InvitationRow(r), [Read(r, InvitationRow(r)) EXCEPT !.by = op[r].key]))
             /\ Go(r, "bind")
             /\ UNCHANGED <<db, op, saw, answer, expired>>
    <2> DEFINE row == <<"invitation", op[r].invitation>>
               value == [db[row] EXCEPT !.by = op[r].key]
    <2>1. row \in Rows /\ InvitationRow(r) = row /\ Read(r, row) = db[row]
      BY <1>2, <1>3, RowOf DEF InvitationRow, Read
    <2>2. db[row] # None /\ db[row].by = None /\ db[row] \in InvitationRows
      <3>1. db[row] \in Values("invitation") \cup {None}
        BY <1>1, <2>1, AtWork DEF DbTyped
      <3> QED BY <1>5, <2>1, <3>1, ValuesOf DEF ClaimApplies
    <2>3. value \in InvitationRows /\ value.by = op[r].key
      BY <1>2, <2>2 DEF InvitationRows
    <2>4. value \in Values(row[1]) /\ value # None
      BY <2>1, <2>3, ValuesOf, EnrolmentAssumption
    <2>5. Write(r, Just(row, value)) /\ DOMAIN Just(row, value) = {row} /\ Just(row, value)[row] = value
      BY <1>5, <2>1, JustOne
    <2>6. /\ StatementOf(r) /\ pc'[r] = "bind"
          /\ DOMAIN staged'[r] = {row} /\ staged'[r][row] = value
      <3>1. "bind" \in StagesOf(op[r].kind)
        BY <1>2 DEF StagesOf
      <3> HIDE DEF row, value
      <3> QED BY <1>1, <1>3, <1>5, <2>5, <3>1, WriteFacts
    <2>7. StagedTyped(r)'
      <3>1. \A x \in DOMAIN staged'[r] : StagedBy(r, x)'
        BY <1>2, <1>5, <2>3, <2>4, <2>6 DEF StagedBy, StagedByAccept
      <3> QED BY <1>1, <1>3, <1>5, <2>1, <2>4, <2>6, <3>1, StagedMore
    <2>8. \A w \in Requests : ~Accepted(w, op[r].invitation)
      <3> SUFFICES ASSUME NEW w \in Requests, Accepted(w, op[r].invitation) PROVE FALSE
        OBVIOUS
      <3>1. op[w].key = None
        BY <1>1, <1>2, <2>2, AtWork DEF InvitationsAgree
      <3>2. op[w] \in Ops /\ op[w].kind = "accept"
        BY DEF IInv, LocalInv, Accepted
      <3> QED BY <3>1, <3>2, OpShape, EnrolmentAssumption
    <2>9. ClaimHolds(r)' /\ TokenHolds(r)'
      <3>1. ClaimHolds(r)
        BY <1>1, AtWork
      <3> QED BY <1>2, <1>5, <2>6, <2>8, <3>1, SameHistory DEF ClaimHolds, TokenHolds
    <2>10. SessionsNarrow(r)'
      BY <2>6 DEF SessionsNarrow
    <2>11. pc'[r] \in StagesOf(op[r].kind)
      BY <1>2, <2>6 DEF StagesOf
    <2> QED BY <2>6, <2>7, <2>9, <2>10, <2>11, StatementLocal
  <1> QED BY <1>4, <1>5 DEF Claim

LEMMA LostInv ==
    ASSUME IInv, NEW r \in Requests, Lost(r) PROVE IInv'
  <1>1. pc[r] = "lost"
    BY DEF Lost
  <1>2. op[r].kind = "accept" /\ op[r].invitation \in Invitations /\ op[r].key \in Keys
    BY <1>1, AtWork, OpShape DEF StagesOf
  <1>3. DOMAIN staged[r] = {}
    BY <1>1, <1>2, NothingStaged
  <1> DEFINE row == db[<<"invitation", op[r].invitation>>]
  <1>4. Read(r, InvitationRow(r)) = row
    BY <1>3 DEF Read, InvitationRow
  <1>5. CASE Commit(r, "refused")
    BY <1>1, <1>3, <1>5, CommitNothing
  <1>6. CASE row # None /\ row.by # None /\ AlreadyAccepted(r, row)
    <2>1. CASE row.by = op[r].key
      BY <1>1, <1>3, <1>6, <2>1, CommitNothing DEF AlreadyAccepted
    <2>2. CASE row.by # op[r].key
      <3>1. \E w \in Requests : Accepted(w, op[r].invitation) /\ op[w].key # op[r].key
        BY <1>1, <1>2, <1>6, <2>2, AtWork DEF InvitationsAgree
      <3> QED BY <1>1, <1>2, <1>6, <2>2, <3>1, AcceptReads DEF AlreadyAccepted
    <2> QED BY <2>1, <2>2
  <1> QED BY <1>4, <1>5, <1>6 DEF Lost

LEMMA DenyInv ==
    ASSUME IInv, NEW r \in Requests, Deny(r) PROVE IInv'
  <1>1. pc[r] = "deny"
    BY DEF Deny
  <1>2. op[r].kind = "accept" /\ op[r].key \in Keys
    BY <1>1, AtWork, OpShape DEF StagesOf
  <1>3. DOMAIN staged[r] = {}
    BY <1>1, <1>2, NothingStaged
  <1> DEFINE row == <<"denied", op[r].key>>
  <1>4. row \in Rows /\ "row" \in Values(row[1]) /\ "refuse" \in StagesOf(op[r].kind)
    BY <1>2, RowOf, ValuesOf DEF StagesOf
  <1>5. CASE Insert(r, row, "row", "refuse")
    <2>1. /\ StatementOf(r) /\ pc'[r] = "refuse" /\ UNCHANGED <<db, op, saw, answer, expired>>
          /\ DOMAIN staged'[r] = {row} /\ staged'[r][row] = "row" /\ "row" # None
          /\ SessionsNarrow(r)'
      <3> HIDE DEF row
      <3> QED BY <1>1, <1>2, <1>3, <1>4, <1>5, InsertFacts
    <2>2. StagedTyped(r)'
      <3>1. \A x \in DOMAIN staged'[r] : StagedBy(r, x)'
        BY <1>2, <2>1 DEF StagedBy, StagedByAccept
      <3> QED BY <1>1, <1>3, <1>4, <2>1, <3>1, StagedMore
    <2>3. ClaimHolds(r)' /\ TokenHolds(r)'
      <3>1. ClaimHolds(r)
        BY <1>1, AtWork
      <3> QED BY <1>1, <1>2, <2>1, <3>1, SameHistory DEF ClaimHolds, TokenHolds
    <2> QED BY <1>4, <2>1, <2>2, <2>3, StatementLocal
  <1>6. CASE Read(r, row) # None /\ Next_(r, "refuse")
    <2>1. pc'[r] = "refuse" /\ UNCHANGED <<db, staged, op, saw, answer>>
      BY <1>6 DEF Next_, Go, IInv, Shapes
    <2>2. db[row] # None
      BY <1>3, <1>6 DEF Read
    <2>3. ClaimHolds(r)' /\ TokenHolds(r)'
      <3>1. ClaimHolds(r)
        BY <1>1, AtWork
      <3> QED BY <1>1, <1>2, <2>1, <2>2, <3>1, SameHistory DEF ClaimHolds, TokenHolds
    <2> QED BY <1>1, <1>3, <1>4, <1>6, <2>3, ReadInv
  <1> QED BY <1>5, <1>6 DEF Deny

LEMMA BindAccountInv ==
    ASSUME IInv, NEW r \in Requests, BindAccount(r) PROVE IInv'
  <1> DEFINE row == <<"account", op[r].key>>
             value == [of |-> saw[r].of, via |-> op[r].invitation]
  <1>1. pc[r] = "bind" /\ op[r].kind = "accept" /\ op[r].key \in Keys /\ op[r].invitation \in Invitations
    BY AtWork, OpShape DEF BindAccount
  <1>2. CASE Raise(r, "failed")
    BY <1>1, <1>2, RaiseInv
  <1>3. CASE Insert(r, row, value, "commit")
    <2>1. row \in Rows /\ value \in Values(row[1]) /\ "commit" \in StagesOf(op[r].kind)
      <3>1. saw[r] \in InvitationRows
        BY <1>1, AtWork DEF SawTyped
      <3>2. saw[r].of \in Identities
        BY <3>1 DEF InvitationRows
      <3>3. value \in AccountRows
        BY <1>1, <3>2 DEF AccountRows
      <3> QED BY <1>1, <3>3, RowOf, ValuesOf DEF StagesOf
    <2>2. /\ StatementOf(r) /\ pc'[r] = "commit" /\ UNCHANGED <<db, op, saw, answer, expired>>
          /\ DOMAIN staged'[r] = {row} \cup DOMAIN staged[r] /\ staged'[r][row] = value /\ value # None
          /\ \A x \in DOMAIN staged[r] : staged'[r][x] = staged[r][x]
          /\ SessionsNarrow(r)'
      <3> HIDE DEF row, value
      <3>1. pc[r] \notin {"idle", "done"} /\ op[r].kind # "delete"
        BY <1>1
      <3> QED BY <1>3, <2>1, <3>1, InsertFacts, SMTT(60)
    <2>3. StagedTyped(r)'
      <3>1. \A x \in DOMAIN staged[r] : StagedBy(r, x)
        BY <1>1, AtWork DEF StagedTyped
      <3>2. \A x \in DOMAIN staged'[r] : StagedBy(r, x)'
        BY <1>1, <2>2, <3>1 DEF StagedBy, StagedByAccept
      <3> QED BY <1>1, <2>1, <2>2, <3>2, StagedMore
    <2>4. ClaimHolds(r)' /\ TokenHolds(r)'
      <3>1. ClaimHolds(r)
        BY <1>1, AtWork
      <3> QED BY <1>1, <2>2, <3>1, SameHistory DEF ClaimHolds, TokenHolds
    <2> QED BY <2>1, <2>2, <2>3, <2>4, StatementLocal
  <1> QED BY <1>2, <1>3 DEF BindAccount
(* A token that the database did not have is held until the login ends. *)
LEMMA StoreTokenInv ==
    ASSUME IInv, NEW r \in Requests, StoreToken(r) PROVE IInv'
  <1> DEFINE row == <<"token", op[r].token>>
  <1>1. pc[r] = "write" /\ op[r].kind = "oidc" /\ op[r].token \in Tokens
    BY AtWork, OpShape DEF StoreToken
  <1>2. CASE Raise(r, "rejected")
    BY <1>1, <1>2, RaiseInv
  <1>3. CASE Insert(r, row, "row", "lookup")
    <2>1. row \in Rows /\ "row" \in Values(row[1]) /\ "lookup" \in StagesOf(op[r].kind)
      BY <1>1, RowOf, ValuesOf DEF StagesOf
    <2>2. /\ StatementOf(r) /\ pc'[r] = "lookup" /\ UNCHANGED <<db, op, saw, answer, expired>>
          /\ db[row] = None
          /\ DOMAIN staged'[r] = {row} \cup DOMAIN staged[r] /\ staged'[r][row] = "row" /\ "row" # None
          /\ \A x \in DOMAIN staged[r] : staged'[r][x] = staged[r][x]
          /\ SessionsNarrow(r)'
      <3>1. pc[r] \notin {"idle", "done"} /\ op[r].kind # "delete"
        BY <1>1
      <3> HIDE DEF row
      <3> QED BY <1>3, <2>1, <3>1, InsertFacts
    <2>3. StagedTyped(r)'
      <3>1. \A x \in DOMAIN staged[r] : StagedBy(r, x)
        BY <1>1, AtWork DEF StagedTyped
      <3>2. \A x \in DOMAIN staged'[r] : StagedBy(r, x)'
        BY <1>1, <2>2, <3>1 DEF StagedBy
      <3> QED BY <1>1, <2>1, <2>2, <3>2, StagedMore
    <2>4. ClaimHolds(r)' /\ TokenHolds(r)'
      BY <1>1, <2>2 DEF ClaimHolds, TokenHolds
    <2> QED BY <2>1, <2>2, <2>3, <2>4, StatementLocal
  <1> QED BY <1>2, <1>3 DEF StoreToken

LEMMA FindIdentityInv ==
    ASSUME IInv, NEW r \in Requests, FindIdentity(r) PROVE IInv'
  <1>1. pc[r] = "lookup"
    BY DEF FindIdentity
  <1>2. op[r].kind = "oidc" /\ "bind" \in StagesOf(op[r].kind)
    BY <1>1, AtWork DEF StagesOf
  <1>3. CASE Raise(r, "rejected")
    BY <1>1, <1>3, RaiseInv
  <1>4. CASE Next_(r, "bind")
    <2>1. pc'[r] = "bind" /\ UNCHANGED <<db, staged, op, saw, answer>>
      BY <1>4 DEF Next_, Go, IInv, Shapes
    <2>2. \A row \in DOMAIN staged[r] : StagedBy(r, row)'
      BY <1>1, <1>2, <2>1, AtWork DEF StagedTyped, StagedBy
    <2>3. ClaimHolds(r)' /\ TokenHolds(r)'
      BY <1>1, <1>2, <2>1, AtWork DEF ClaimHolds, TokenHolds
    <2> QED BY <1>1, <1>2, <1>4, <2>2, <2>3, ReadInv
  <1> QED BY <1>3, <1>4 DEF FindIdentity

LEMMA BindSessionInv ==
    ASSUME IInv, NEW r \in Requests, BindSession(r) PROVE IInv'
  <1> DEFINE row == <<"session", op[r].key>>
             value == NewSession(OwnerOfLogin(r))
  <1>1. /\ \/ pc[r] = "write" /\ op[r].kind = "login"
           \/ pc[r] = "bind" /\ op[r].kind = "oidc"
        /\ op[r].key \in Keys /\ pc[r] \notin {"idle", "done"}
    BY AtWork, OpShape DEF BindSession
  <1>2. CASE Raise(r, "failed")
    BY <1>1, <1>2, RaiseInv
  <1>3. CASE Insert(r, row, value, "commit")
    <2>1. row \in Rows /\ value \in Values(row[1]) /\ "commit" \in StagesOf(op[r].kind)
      <3>1. op[r].kind = "login" => saw[r].of \in Identities
        BY <1>1, AtWork DEF SawTyped, AccountRows
      <3>2. OwnerOfLogin(r) \in Identities
        BY <1>1, <3>1, AtWork, OpShape DEF OwnerOfLogin
      <3>3. value \in SessionRows
        BY <3>2 DEF SessionRows, NewSession
      <3> QED BY <1>1, <3>3, RowOf, ValuesOf DEF StagesOf
    <2>2. /\ StatementOf(r) /\ pc'[r] = "commit" /\ UNCHANGED <<db, op, saw, answer, expired>>
          /\ DOMAIN staged'[r] = {row} \cup DOMAIN staged[r] /\ staged'[r][row] = value /\ value # None
          /\ \A x \in DOMAIN staged[r] : staged'[r][x] = staged[r][x]
          /\ SessionsNarrow(r)'
      <3> HIDE DEF row, value
      <3>1. pc[r] \notin {"idle", "done"} /\ op[r].kind # "delete"
        BY <1>1
      <3> QED BY <1>3, <2>1, <3>1, InsertFacts, SMTT(60)
    <2>3. StagedTyped(r)'
      <3>1. \A x \in DOMAIN staged[r] : StagedBy(r, x)
        BY <1>1, AtWork DEF StagedTyped
      <3>2. \A x \in DOMAIN staged'[r] : StagedBy(r, x)'
        BY <1>1, <2>2, <3>1 DEF StagedBy
      <3> HIDE DEF row, value
      <3> QED BY <1>1, <2>1, <2>2, <3>2, StagedMore
    <2>4. ClaimHolds(r)' /\ TokenHolds(r)'
      <3>1. TokenHolds(r)
        BY <1>1, AtWork
      <3> QED BY <1>1, <2>2, <3>1 DEF ClaimHolds, TokenHolds
    <2> QED BY <2>1, <2>2, <2>3, <2>4, StatementLocal
  <1> QED BY <1>2, <1>3 DEF BindSession

(* An update of a session row, that keeps what is set in it. *)
LEMMA UpdateInv ==
    ASSUME IInv, NEW r \in Requests, op[r].kind \in {"setRole", "logout"}, pc[r] = "write",
           NEW value \in SessionRows, Narrows(db[SessionRow(r)], value),
           Write(r, Just(SessionRow(r), value)), Go(r, "commit"),
           UNCHANGED <<db, op, saw, answer, expired>>
    PROVE  IInv'
  <1> DEFINE row == SessionRow(r)
  <1>1. row = <<"session", op[r].key>> /\ row \in Rows /\ row[1] = "session"
    BY AtWork, OpShape, RowOf DEF SessionRow
  <1>2. DOMAIN staged[r] = {}
    BY NothingStaged
  <1>3. value \in Values(row[1]) /\ value # None
    BY <1>1, ValuesOf, EnrolmentAssumption
  <1>4. "commit" \in StagesOf(op[r].kind)
    BY DEF StagesOf
  <1>5. /\ StatementOf(r) /\ pc'[r] = "commit" /\ DOMAIN staged'[r] = {row} /\ staged'[r][row] = value
    <2>1. DOMAIN Just(row, value) = {row} /\ Just(row, value)[row] = value
      BY JustOne
    <2> HIDE DEF row
    <2> QED BY <1>2, <1>4, <2>1, WriteFacts DEF row
  <1>6. StagedTyped(r)'
    <2>1. \A x \in DOMAIN staged'[r] : StagedBy(r, x)'
      BY <1>1, <1>5 DEF StagedBy
    <2> QED BY <1>1, <1>2, <1>3, <1>5, <2>1, StagedMore
  <1>7. ClaimHolds(r)' /\ TokenHolds(r)' /\ SessionsNarrow(r)'
    BY <1>5 DEF ClaimHolds, TokenHolds, SessionsNarrow, Narrows
  <1> QED BY <1>4, <1>5, <1>6, <1>7, StatementLocal

LEMMA UpdateRoleInv ==
    ASSUME IInv, NEW r \in Requests, UpdateRole(r) PROVE IInv'
  <1>1. pc[r] = "write" /\ op[r].kind = "setRole" /\ op[r].key \in Keys /\ op[r].role \in Roles
    BY AtWork, OpShape DEF UpdateRole
  <1>2. Read(r, SessionRow(r)) = db[SessionRow(r)] /\ SessionRow(r) \in Rows
        /\ SessionRow(r)[1] = "session"
    BY <1>1, NothingStaged, RowOf DEF Read, SessionRow
  <1>3. CASE Raise(r, "rejected")
    BY <1>1, <1>3, RaiseInv
  <1>4. CASE /\ RoleApplies(r) /\ Write(r, Just(SessionRow(r), WithRole(r))) /\ Go(r, "commit")
             /\ UNCHANGED <<db, op, saw, answer, expired>>
    <2>1. db[SessionRow(r)] \in SessionRows /\ db[SessionRow(r)].role = None
      BY <1>1, <1>2, <1>4, AtWork, ValuesOf DEF DbTyped, RoleApplies
    <2>2. WithRole(r) \in SessionRows /\ Narrows(db[SessionRow(r)], WithRole(r))
      BY <1>1, <1>2, <2>1 DEF WithRole, SessionRows, Narrows
    <2> QED BY <1>1, <1>4, <2>2, UpdateInv
  <1> QED BY <1>3, <1>4 DEF UpdateRole

LEMMA EndSessionInv ==
    ASSUME IInv, NEW r \in Requests, EndSession(r) PROVE IInv'
  <1>1. pc[r] = "write" /\ op[r].kind = "logout" /\ op[r].key \in Keys /\ DOMAIN staged[r] = {}
    BY AtWork, OpShape, NothingStaged DEF EndSession
  <1>2. Read(r, SessionRow(r)) = db[SessionRow(r)] /\ SessionRow(r) \in Rows
        /\ SessionRow(r)[1] = "session"
    BY <1>1, RowOf DEF Read, SessionRow
  <1>3. CASE Commit(r, "again")
    BY <1>1, <1>3, CommitNothing
  <1>4. CASE /\ Read(r, SessionRow(r)) # None
             /\ Write(r, Just(SessionRow(r), LoggedOut(r))) /\ Go(r, "commit")
             /\ UNCHANGED <<db, op, saw, answer, expired>>
    <2>1. db[SessionRow(r)] \in SessionRows
      BY <1>1, <1>2, <1>4, AtWork, ValuesOf DEF DbTyped
    <2>2. LoggedOut(r) \in SessionRows /\ Narrows(db[SessionRow(r)], LoggedOut(r))
      BY <1>2, <2>1 DEF LoggedOut, SessionRows, Narrows
    <2> QED BY <1>1, <1>4, <2>2, UpdateInv
  <1> QED BY <1>3, <1>4 DEF EndSession

LEMMA StoreInvitationInv ==
    ASSUME IInv, NEW r \in Requests, StoreInvitation(r) PROVE IInv'
  <1> DEFINE row == <<"invitation", op[r].invitation>>
             value == [of |-> op[r].identity, by |-> None]
  <1>1. pc[r] = "write" /\ op[r].kind = "invite" /\ op[r].identity \in Identities
        /\ op[r].invitation \in Invitations /\ Insert(r, row, value, "commit")
    BY AtWork, OpShape DEF StoreInvitation, InvitationRow
  <1>2. DOMAIN staged[r] = {}
    BY <1>1, NothingStaged
  <1>3. row \in Rows /\ value \in Values(row[1]) /\ "commit" \in StagesOf(op[r].kind)
    <2>1. value \in InvitationRows
      BY <1>1 DEF InvitationRows
    <2> QED BY <1>1, <2>1, RowOf, ValuesOf DEF StagesOf
  <1>4. /\ StatementOf(r) /\ pc'[r] = "commit" /\ UNCHANGED <<db, op, saw, answer, expired>>
        /\ DOMAIN staged'[r] = {row} /\ staged'[r][row] = value /\ value # None
        /\ SessionsNarrow(r)'
    <2>1. pc[r] \notin {"idle", "done"} /\ op[r].kind # "delete" /\ Insert(r, row, value, "commit")
      BY <1>1
    <2> HIDE DEF row, value
    <2>2. /\ StatementOf(r) /\ pc'[r] = "commit" /\ UNCHANGED <<db, op, saw, answer, expired>>
          /\ DOMAIN staged'[r] = {row} \cup DOMAIN staged[r] /\ staged'[r][row] = value /\ value # None
          /\ SessionsNarrow(r)'
      BY <1>3, <2>1, InsertFacts, ZenonT(60)
    <2> QED BY <1>2, <2>2
  <1>5. StagedTyped(r)'
    <2>1. \A x \in DOMAIN staged'[r] : StagedBy(r, x)'
      BY <1>1, <1>4 DEF StagedBy, StagedByInvite
    <2> HIDE DEF row, value
    <2> QED BY <1>1, <1>2, <1>3, <1>4, <2>1, StagedMore
  <1>6. ClaimHolds(r)' /\ TokenHolds(r)'
    BY <1>1, <1>4 DEF ClaimHolds, TokenHolds
  <1> QED BY <1>3, <1>4, <1>5, <1>6, StatementLocal

(* A DELETE statement leaves None in the place of some rows. *)
LEMMA DeleteInv ==
    ASSUME IInv, NEW r \in Requests, op[r].kind = "delete", pc[r] \notin {"idle", "done"},
           NEW values, \A row \in DOMAIN values :
              /\ row \in Rows /\ row[1] \in {"account", "session", "invitation", "identity"}
              /\ values[row] = None,
           NEW stage \in StagesOf(op[r].kind), Write(r, values), Go(r, stage),
           UNCHANGED <<db, op, saw, answer, expired>>
    PROVE  IInv'
  <1>1. /\ StatementOf(r) /\ pc'[r] = stage
        /\ DOMAIN staged'[r] = DOMAIN values \cup DOMAIN staged[r]
        /\ \A row \in DOMAIN values : staged'[r][row] = values[row]
        /\ \A row \in DOMAIN staged[r] \ DOMAIN values : staged'[r][row] = staged[r][row]
    BY WriteFacts
  <1>2. \A row \in DOMAIN staged[r] :
           row \in Rows /\ row[1] \in {"account", "session", "invitation", "identity"}
              /\ staged[r][row] = None
    BY AtWork DEF StagedTyped, StagedBy, StagedByDelete
  <1>3. \A row \in DOMAIN staged'[r] :
           row \in Rows /\ row[1] \in {"account", "session", "invitation", "identity"}
              /\ staged'[r][row] = None
    BY <1>1, <1>2
  <1>4. StagedTyped(r)' /\ SessionsNarrow(r)'
    BY <1>3 DEF StagedTyped, StagedBy, StagedByDelete, SessionsNarrow, Narrows
  <1>5. ClaimHolds(r)' /\ TokenHolds(r)'
    BY DEF ClaimHolds, TokenHolds
  <1> QED BY <1>1, <1>4, <1>5, StatementLocal

LEMMA DeleteFromInv ==
    ASSUME IInv, NEW r \in Requests, NEW table \in {"account", "session", "invitation"},
           NEW stage \in {"write", "sessions", "invitations"},
           NEW next \in {"sessions", "invitations", "identity"},
           DeleteFrom(r, stage, table, next)
    PROVE  IInv'
  <1>1. op[r].kind = "delete" /\ pc[r] \notin {"idle", "done"} /\ next \in StagesOf(op[r].kind)
    BY DEF DeleteFrom, StagesOf
  <1> DEFINE values == [row \in OwnedIn(r, table) |-> None]
  <1>2. \A row \in DOMAIN values :
           /\ row \in Rows /\ row[1] \in {"account", "session", "invitation", "identity"}
           /\ values[row] = None
    BY DEF OwnedIn
  <1>3. Write(r, values) /\ Go(r, next) /\ UNCHANGED <<db, op, saw, answer, expired>>
    BY DEF DeleteFrom
  <1> HIDE DEF values
  <1> QED BY <1>1, <1>2, <1>3, DeleteInv

LEMMA DeleteIdentityInv ==
    ASSUME IInv, NEW r \in Requests, DeleteIdentity(r) PROVE IInv'
  <1>1. pc[r] = "identity"
    BY DEF DeleteIdentity
  <1>2. op[r].kind = "delete" /\ op[r].identity \in Identities /\ "commit" \in StagesOf(op[r].kind)
    BY <1>1, AtWork, OpShape DEF StagesOf
  <1> DEFINE values == Just(<<"identity", op[r].identity>>, None)
  <1>3. \A row \in DOMAIN values :
           /\ row \in Rows /\ row[1] \in {"account", "session", "invitation", "identity"}
           /\ values[row] = None
    BY <1>2, RowOf DEF Just
  <1>4. Write(r, values) /\ Go(r, "commit") /\ UNCHANGED <<db, op, saw, answer, expired>>
    BY DEF DeleteIdentity
  <1> HIDE DEF values
  <1> QED BY <1>1, <1>2, <1>3, <1>4, DeleteInv

(* Every step keeps the invariant. *)
LEMMA NextInv == IInv /\ [Next]_vars => IInv'
  <1>1. ASSUME IInv, NEW r \in Requests, Step(r) PROVE IInv'
    <2>1. CASE Refuse(r) \/ CommitOk(r)
      BY <1>1, <2>1, DenialEnd, SuccessEnd
    <2>2. CASE CheckDenylist(r) \/ ReadInvitation(r) \/ Claim(r) \/ Lost(r) \/ Deny(r) \/ BindAccount(r)
      BY <1>1, <2>2, CheckDenylistInv, ReadInvitationInv, ClaimInv, LostInv, DenyInv, BindAccountInv
    <2>3. CASE StoreToken(r) \/ FindIdentity(r) \/ BindSession(r) \/ UpdateRole(r) \/ EndSession(r)
      BY <1>1, <2>3, StoreTokenInv, FindIdentityInv, BindSessionInv, UpdateRoleInv, EndSessionInv
    <2>4. CASE StoreInvitation(r) \/ DeleteIdentity(r)
      BY <1>1, <2>4, StoreInvitationInv, DeleteIdentityInv
    <2>5. CASE DeleteAccounts(r) \/ DeleteSessions(r) \/ DeleteInvitations(r)
      BY <1>1, <2>5, DeleteFromInv DEF DeleteAccounts, DeleteSessions, DeleteInvitations
    <2>6. CASE Fail(r)
      BY <1>1, <2>6, RaiseInv DEF Fail
    <2> QED BY <1>1, <2>1, <2>2, <2>3, <2>4, <2>5, <2>6 DEF Step
  <1>2. ASSUME IInv, UNCHANGED vars PROVE IInv'
    <2>1. Shapes' /\ RowsDisjoint'
      BY <1>2 DEF vars, IInv, Shapes, RowsDisjoint
    <2>2. GlobalInv'
      BY <1>2 DEF vars, IInv, GlobalInv, DbTyped, NewInvitations, InvitationsAgree, AccountsAgree,
             DenialsAgree, TokensAgree, Accepted, WasMade
    <2>3. \A r \in Requests : LocalInv(r)'
      BY <1>2 DEF vars, IInv, LocalInv, StagedTyped, StagedBy, StagedByAccept, StagedByInvite,
             StagedByDelete, SawTyped, ClaimHolds, TokenHolds, SessionsNarrow, Accepted, WasMade
    <2> QED BY <2>1, <2>2, <2>3 DEF IInv
  <1> QED BY <1>1, <1>2, BeginInv, ExpireInv DEF Next
-----------------------------------------------------------------------------
(* What follows from the invariant. *)

LEMMA Inductive == Spec => []IInv
  BY InitInv, NextInv, PTL DEF Spec

LEMMA AtMostOne ==
    ASSUME NEW S, \A x, y \in S : x = y
    PROVE  Cardinality(S) <= 1
  <1>1. CASE S = {}
    BY <1>1, FS_EmptySet
  <1>2. CASE S # {}
    <2>1. PICK x : x \in S
      BY <1>2
    <2>2. S = {x}
      BY <2>1
    <2> QED BY <2>2, FS_Singleton
  <1> QED BY <1>1, <1>2

LEMMA OneKey == IInv => OneKeyPerInvitation
  <1> SUFFICES ASSUME IInv, NEW inv \in Invitations
               PROVE  LET winners == UNION {Answered(o, "ok") : o \in AcceptsOf(inv)}
                          accounts == {k \in Keys : /\ db[<<"account", k>>] # None
                                                    /\ db[<<"account", k>>].via = inv}
                      IN  /\ Cardinality(winners) <= 1
                          /\ Cardinality(accounts) <= 1
                          /\ \A r \in winners, k \in accounts : op[r].key = k
                          /\ db[<<"invitation", inv>>] # None =>
                                \A k \in accounts : db[<<"invitation", inv>>].by = k
    BY DEF OneKeyPerInvitation
  <1> DEFINE winners == UNION {Answered(o, "ok") : o \in AcceptsOf(inv)}
             accounts == {k \in Keys : /\ db[<<"account", k>>] # None
                                       /\ db[<<"account", k>>].via = inv}
  <1>1. InvitationsAgree /\ AccountsAgree
    BY DEF IInv, GlobalInv
  <1>2. \A r \in winners : r \in Requests /\ Accepted(r, inv)
    BY DEF Answered, AcceptsOf, Accepted
  <1>3. \A k \in accounts : \E r \in Requests : Accepted(r, inv) /\ op[r].key = k
    BY <1>1 DEF AccountsAgree
  <1>4. \A q, r \in Requests : Accepted(q, inv) /\ Accepted(r, inv) => q = r
    BY <1>1 DEF InvitationsAgree
  <1>5. db[<<"invitation", inv>>] # None =>
            \A r \in Requests : Accepted(r, inv) => db[<<"invitation", inv>>].by = op[r].key
    BY <1>1 DEF InvitationsAgree
  <1> HIDE DEF winners, accounts
  <1>6. Cardinality(winners) <= 1 /\ Cardinality(accounts) <= 1
    BY <1>2, <1>3, <1>4, AtMostOne
  <1>7. /\ \A r \in winners, k \in accounts : op[r].key = k
        /\ db[<<"invitation", inv>>] # None => \A k \in accounts : db[<<"invitation", inv>>].by = k
    BY <1>2, <1>3, <1>4, <1>5
  <1> QED BY <1>6, <1>7 DEF winners, accounts

LEMMA OnlyLosers == IInv => OnlyLosersAreDenied
  <1> SUFFICES ASSUME IInv PROVE OnlyLosersAreDenied
    OBVIOUS
  <1>1. DenialsAgree /\ InvitationsAgree
    BY DEF IInv, GlobalInv
  <1>2. \A r \in Requests : answer[r] = "denied" => db[<<"denied", op[r].key>>] # None
    BY <1>1 DEF DenialsAgree
  <1>3. ASSUME NEW k \in Keys, db[<<"denied", k>>] # None
        PROVE  \E inv \in Invitations :
                  /\ Answered(Accept(inv, k), "denied") # {}
                  /\ Answered(Accept(inv, k), "ok") = {}
                  /\ \E o \in AcceptsOf(inv) : o.key # k /\ Answered(o, "ok") # {}
    <2>1. PICK r \in Requests :
             /\ answer[r] = "denied" /\ op[r].kind = "accept" /\ op[r].key = k
             /\ \E w \in Requests : Accepted(w, op[r].invitation) /\ op[w].key # k
      BY <1>1, <1>3 DEF DenialsAgree
    <2>2. PICK w \in Requests : Accepted(w, op[r].invitation) /\ op[w].key # k
      BY <2>1
    <2>3. op[r] \in Ops /\ op[w] \in Ops
      BY <2>1, <2>2 DEF IInv, LocalInv, Accepted
    <2>4. op[r].invitation \in Invitations /\ op[r] = Accept(op[r].invitation, k)
      BY <2>1, <2>3, OpShape
    <2>5. r \in Answered(Accept(op[r].invitation, k), "denied")
      BY <2>1, <2>4 DEF Answered
    <2>6. op[w] \in AcceptsOf(op[r].invitation) /\ w \in Answered(op[w], "ok")
      BY <2>2, <2>3 DEF AcceptsOf, Answered, Accepted
    <2>7. Answered(Accept(op[r].invitation, k), "ok") = {}
      <3> SUFFICES ASSUME NEW q \in Answered(Accept(op[r].invitation, k), "ok") PROVE FALSE
        OBVIOUS
      <3>1. q \in Requests /\ answer[q] = "ok" /\ op[q] = op[r]
        BY <2>4 DEF Answered
      <3>2. Accepted(q, op[r].invitation) /\ op[q].key = k
        BY <2>1, <3>1 DEF Accepted
      <3> QED BY <1>1, <2>2, <2>4, <3>1, <3>2 DEF InvitationsAgree
    <2> QED BY <2>2, <2>4, <2>5, <2>6, <2>7
  <1> QED BY <1>2, <1>3 DEF OnlyLosersAreDenied

LEMMA OneLogin == IInv => TokenLogsInOnce
  <1> SUFFICES ASSUME IInv, NEW t \in Tokens
               PROVE  Cardinality({r \in Requests : op[r] # None /\ op[r].kind = "oidc"
                                       /\ op[r].token = t /\ answer[r] = "ok"}) <= 1
    BY DEF TokenLogsInOnce
  <1> DEFINE S == {r \in Requests : op[r] # None /\ op[r].kind = "oidc"
                                       /\ op[r].token = t /\ answer[r] = "ok"}
  <1>1. TokensAgree
    BY DEF IInv, GlobalInv
  <1>2. \A q, r \in S : q = r
    BY <1>1 DEF TokensAgree
  <1> HIDE DEF S
  <1>3. Cardinality(S) <= 1
    BY <1>2, AtMostOne
  <1> QED BY <1>3 DEF S

(* Whatever is sent twice, or at the same time, or fails between two         *)
(* statements: an invitation binds one key, only a key that lost one is on   *)
(* the denylist, and an id token makes one session.                         *)
THEOREM WhatProvesCountsOnce == Spec => []ProofsCountOnce
  <1>1. IInv => ProofsCountOnce
    BY OneKey, OnlyLosers, OneLogin DEF ProofsCountOnce
  <1> QED BY Inductive, <1>1, PTL

(* The database only changes by a commit. *)
LEMMA CommitsChangeRows ==
    ASSUME [Next]_vars
    PROVE  \/ db' = db
           \/ \E r \in Requests : pc[r] \notin {"idle", "done"} /\ db' = Over(staged[r], db)
  <1>1. ASSUME NEW r \in Requests, NEW what, Commit(r, what), pc[r] \notin {"idle", "done"}
        PROVE  \E q \in Requests : pc[q] \notin {"idle", "done"} /\ db' = Over(staged[q], db)
    BY <1>1 DEF Commit
  <1>2. ASSUME NEW r \in Requests, Step(r)
        PROVE  \/ db' = db
               \/ \E q \in Requests : pc[q] \notin {"idle", "done"} /\ db' = Over(staged[q], db)
    <2>1. CASE CheckDenylist(r) \/ Claim(r) \/ Deny(r) \/ Fail(r)
      BY <2>1 DEF CheckDenylist, Claim, Deny, Fail, Raise, Next_, Insert
    <2>2. CASE ReadInvitation(r) \/ Lost(r)
      BY <1>1, <2>2 DEF ReadInvitation, Lost, AlreadyAccepted, Next_
    <2>3. CASE Refuse(r) \/ CommitOk(r)
      BY <1>1, <2>3 DEF Refuse, CommitOk
    <2>4. CASE BindAccount(r) \/ StoreToken(r) \/ FindIdentity(r) \/ BindSession(r)
      BY <2>4 DEF BindAccount, StoreToken, FindIdentity, BindSession, Raise, Next_, Insert
    <2>5. CASE UpdateRole(r) \/ StoreInvitation(r)
      BY <2>5 DEF UpdateRole, StoreInvitation, Raise, Insert
    <2>6. CASE EndSession(r)
      BY <1>1, <2>6 DEF EndSession
    <2>7. CASE DeleteAccounts(r) \/ DeleteSessions(r) \/ DeleteInvitations(r) \/ DeleteIdentity(r)
      BY <2>7 DEF DeleteAccounts, DeleteSessions, DeleteInvitations, DeleteIdentity, DeleteFrom
    <2> QED BY <1>2, <2>1, <2>2, <2>3, <2>4, <2>5, <2>6, <2>7 DEF Step
  <1> QED BY <1>2 DEF Next, Begin, Expire, vars

(* Two updates of one session at a time never undo each other: a session     *)
(* keeps its owner, the role it was given first, and its end.               *)
THEOREM SessionsKeepWhatIsSet == Spec => SessionsOnlyNarrow
  <1>1. IInv /\ [Next]_vars =>
          [ \A s \in Keys :
              LET old == db[<<"session", s>>]
                  new == db'[<<"session", s>>]
              IN  (old # None /\ new # None) =>
                      /\ new.of = old.of
                      /\ old.role # None => new.role = old.role
                      /\ old.out => new.out ]_vars
    <2> SUFFICES ASSUME IInv, [Next]_vars, NEW s \in Keys
                 PROVE  Narrows(db[<<"session", s>>], db'[<<"session", s>>])
      BY DEF Narrows
    <2>1. <<"session", s>> \in Rows
      BY RowOf
    <2>2. CASE db' = db
      BY <2>2 DEF Narrows
    <2>3. ASSUME NEW r \in Requests, pc[r] \notin {"idle", "done"}, db' = Over(staged[r], db)
          PROVE  Narrows(db[<<"session", s>>], db'[<<"session", s>>])
      <3>1. SessionsNarrow(r)
        BY <2>3, AtWork
      <3>2. /\ \A row \in DOMAIN staged[r] : db'[row] = staged[r][row]
            /\ \A row \in Rows \ DOMAIN staged[r] : db'[row] = db[row]
        BY <2>3, CommitWrites
      <3>3. CASE <<"session", s>> \in DOMAIN staged[r]
        BY <3>1, <3>2, <3>3 DEF SessionsNarrow
      <3>4. CASE <<"session", s>> \notin DOMAIN staged[r]
        <4>1. db'[<<"session", s>>] = db[<<"session", s>>]
          BY <2>1, <3>2, <3>4
        <4> QED BY <4>1 DEF Narrows
      <3> QED BY <3>3, <3>4
    <2> QED BY <2>2, <2>3, CommitsChangeRows
  <1> QED BY InitInv, NextInv, <1>1, PTL DEF Spec, SessionsOnlyNarrow
=============================================================================
