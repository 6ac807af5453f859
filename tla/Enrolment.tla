------------------------------ MODULE Enrolment ------------------------------
(***************************************************************************)
(* How an identity gets its keys and sessions, and loses them:              *)
(* invitations, account keys, the denylist, logins (by account key and by   *)
(* OIDC), the role of a session, logout, and the deletion of an identity    *)
(* (api/endpoints: auth_http_sig, auth_oidc, session, identity; api/model:   *)
(* identity, identity_invitation_key, denylist; api/signature.py).          *)
(*                                                                         *)
(* Every request is one transaction of several statements.  The database    *)
(* is READ COMMITTED (db.py) and has no foreign keys (app_db.py): a         *)
(* statement sees what is committed when it runs and what its own request    *)
(* wrote; a write waits while another open transaction has written the row, *)
(* and so does the insert of a key that another open transaction inserts.   *)
(* One statement is one step.                                               *)
(*                                                                         *)
(* A row that is not there has the value None.  No code sets is_revoked, so *)
(* the tests on it are left out; so are roles' members and the grants that  *)
(* let an administrator invite and delete (another part of the system).     *)
(***************************************************************************)
EXTENDS Naturals, FiniteSets

CONSTANTS Requests,
          Identities,
          Invitations,
          Keys,        \* the thumbprints of account keys and session keys
          Roles,
          Tokens,      \* the nonces of OIDC logins
          Ops,         \* what the requests may ask for
          StartRows,   \* the rows that are there at the start, with their values
          None

Rows ==
    ({"identity"} \X Identities) \cup ({"invitation"} \X Invitations)
        \cup ({"account", "session", "denied"} \X Keys) \cup ({"token"} \X Tokens)

(* What a request asks for. *)
Invite(i, inv) == [kind |-> "invite", identity |-> i, invitation |-> inv]
Accept(inv, k) == [kind |-> "accept", invitation |-> inv, key |-> k]
Login(k, s) == [kind |-> "login", account |-> k, key |-> s]
OidcLogin(i, t, s) == [kind |-> "oidc", identity |-> i, token |-> t, key |-> s]
SetRole(s, role) == [kind |-> "setRole", key |-> s, role |-> role]
Logout(s) == [kind |-> "logout", key |-> s]
Delete(i) == [kind |-> "delete", identity |-> i]

(* What the rows of a table hold. *)
InvitationRows == [of : Identities, by : Keys \cup {None}]
AccountRows == [of : Identities, via : Invitations \cup {None}]
SessionRows == [of : Identities, role : Roles \cup {None}, out : BOOLEAN]

Values(table) ==
    CASE table = "invitation" -> InvitationRows
      [] table = "account" -> AccountRows
      [] table = "session" -> SessionRows
      [] OTHER -> {"row"}

(* At the start some identities are there, with keys and sessions, and with *)
(* invitations that nobody has accepted yet; nobody has been denied, and no *)
(* id token was used.  An invitation that is made is a new random key, so   *)
(* it is none of those and no two requests make the same one.               *)
ASSUME EnrolmentAssumption ==
    /\ None \notin Keys \cup Roles \cup Invitations \cup Ops
    /\ \A row \in Rows : None \notin Values(row[1])
    /\ Ops \subseteq
           {Invite(i, inv) : i \in Identities, inv \in Invitations}
               \cup {Accept(inv, k) : inv \in Invitations, k \in Keys}
               \cup {Login(k, s) : k \in Keys, s \in Keys}
               \cup {OidcLogin(i, t, s) : i \in Identities, t \in Tokens, s \in Keys}
               \cup {SetRole(s, role) : s \in Keys, role \in Roles}
               \cup {Logout(s) : s \in Keys}
               \cup {Delete(i) : i \in Identities}
    /\ DOMAIN StartRows \subseteq Rows
    /\ \A row \in DOMAIN StartRows :
          /\ row[1] \notin {"denied", "token"}
          /\ StartRows[row] \in Values(row[1])
          /\ row[1] = "invitation" => StartRows[row].by = None
          /\ row[1] = "account" => StartRows[row].via = None
    /\ \A o, other \in Ops :
          o.kind = "invite" =>
             /\ <<"invitation", o.invitation>> \notin DOMAIN StartRows
             /\ other.kind = "invite" /\ other.invitation = o.invitation => other = o

VARIABLES
    db,        \* the committed rows
    staged,    \* the rows that the open transaction of each request has written
    op,        \* what each request asks for
    pc,        \* its next statement
    saw,       \* the row that it read to authenticate
    answer,    \* what it was answered
    expired    \* the invitations whose time is over

vars == <<db, staged, op, pc, saw, answer, expired>>

Answers == {"none", "ok", "again", "refused", "denied", "rejected", "failed"}

(* No row, one row, and rows that take the place of others. *)
Nothing == [row \in {} |-> None]
Just(row, value) == [x \in {row} |-> value]
Over(new, old) ==
    [row \in DOMAIN new \cup DOMAIN old |-> IF row \in DOMAIN new THEN new[row] ELSE old[row]]

Init ==
    /\ db = Over(StartRows, [row \in Rows |-> None])
    /\ staged = [r \in Requests |-> Nothing]
    /\ op = [r \in Requests |-> None]
    /\ pc = [r \in Requests |-> "idle"]
    /\ saw = [r \in Requests |-> None]
    /\ answer = [r \in Requests |-> "none"]
    /\ expired = {}

-----------------------------------------------------------------------------
(* The database. *)

Read(r, row) == IF row \in DOMAIN staged[r] THEN staged[r][row] ELSE db[row]

IsFree(r, row) == \A other \in Requests \ {r} : row \notin DOMAIN staged[other]

(* One statement writes the rows of `values`, once no one else holds them.  *)
Write(r, values) ==
    /\ \A row \in DOMAIN values : IsFree(r, row)
    /\ staged' = [staged EXCEPT ![r] = Over(values, @)]

Go(r, stage) == pc' = [pc EXCEPT ![r] = stage]

Insert(r, row, value, next) ==
    /\ IsFree(r, row)
    /\ Read(r, row) = None
    /\ Write(r, Just(row, value))
    /\ Go(r, next)
    /\ UNCHANGED <<db, op, saw, answer, expired>>

(* The request ends: its transaction commits, or is rolled back. *)
Finish(r, what) ==
    /\ pc' = [pc EXCEPT ![r] = "done"]
    /\ answer' = [answer EXCEPT ![r] = what]
    /\ staged' = [staged EXCEPT ![r] = Nothing]
    /\ UNCHANGED <<op, saw, expired>>

Commit(r, what) == Finish(r, what) /\ db' = Over(staged[r], db)

Raise(r, what) == Finish(r, what) /\ UNCHANGED db

(* The request reads and goes on. *)
Next_(r, stage) == Go(r, stage) /\ UNCHANGED <<db, staged, op, saw, answer, expired>>

-----------------------------------------------------------------------------
(* Authentication: the dependency of the endpoint reads one row. *)

AuthRow(o) ==
    CASE o.kind = "accept" -> <<"invitation", o.invitation>>
      [] o.kind = "login" -> <<"account", o.account>>
      [] o.kind \in {"setRole", "logout"} -> <<"session", o.key>>
      [] o.kind \in {"invite", "delete"} -> <<"identity", o.identity>>
      [] o.kind = "oidc" -> <<"denied", o.key>>

IsAuthentic(o) ==
    CASE o.kind = "accept" ->
           db[AuthRow(o)] # None /\ o.invitation \notin expired
      [] o.kind \in {"setRole", "logout"} ->
           db[AuthRow(o)] # None /\ ~db[AuthRow(o)].out
      [] o.kind = "oidc" -> TRUE
      [] OTHER -> db[AuthRow(o)] # None

(* An invitation is a new random key: no two requests make the same one.    *)
IsNew(o) == o.kind = "invite" => o \notin {op[r] : r \in Requests}

Begin(r, o) ==
    /\ pc[r] = "idle"
    /\ IsNew(o)
    /\ op' = [op EXCEPT ![r] = o]
    /\ IF IsAuthentic(o)
       THEN /\ saw' = [saw EXCEPT ![r] = db[AuthRow(o)]]
            /\ pc' = [pc EXCEPT ![r] = IF o.kind \in {"invite", "delete"} THEN "write" ELSE "denylist"]
            /\ UNCHANGED answer
       ELSE /\ pc' = [pc EXCEPT ![r] = "done"]
            /\ answer' = [answer EXCEPT ![r] = "rejected"]
            /\ UNCHANGED saw
    /\ UNCHANGED <<db, staged, expired>>

(* enforce_not_denied: for a login, of the account key, then of the session *)
(* key; otherwise of the one key of the request.                            *)
KeysToCheck(r) == IF op[r].kind = "login" /\ pc[r] = "denylist" THEN {op[r].account} ELSE {op[r].key}

CheckDenylist(r) ==
    /\ pc[r] \in {"denylist", "denylist2"}
    /\ IF \E k \in KeysToCheck(r) : Read(r, <<"denied", k>>) # None
       THEN Raise(r, "rejected")
       ELSE Next_(r, IF op[r].kind = "login" /\ pc[r] = "denylist" THEN "denylist2" ELSE "write")

-----------------------------------------------------------------------------
(* accept_invitation_endpoint *)

InvitationRow(r) == <<"invitation", op[r].invitation>>

(* _already_accepted: a retry with the key that accepted is answered again; *)
(* any other key goes to the denylist, in a transaction that commits.       *)
AlreadyAccepted(r, row) ==
    IF row.by = op[r].key THEN Commit(r, "again") ELSE Next_(r, "deny")

ReadInvitation(r) ==
    LET row == Read(r, InvitationRow(r)) IN
    /\ pc[r] = "write" /\ op[r].kind = "accept"
    /\ \/ saw[r].by # None /\ AlreadyAccepted(r, saw[r])
       \/ saw[r].by = None /\ (row = None \/ op[r].invitation \in expired) /\ Next_(r, "lost")
       \/ saw[r].by = None /\ row # None /\ op[r].invitation \notin expired /\ Next_(r, "claim")

(* The update that applies only if nobody has accepted. *)
ClaimApplies(r) ==
    Read(r, InvitationRow(r)) # None /\ Read(r, InvitationRow(r)).by = None

Claim(r) ==
    /\ pc[r] = "claim"
    /\ IsFree(r, InvitationRow(r))
    /\ IF ClaimApplies(r)
       THEN /\ Write(r, Just(InvitationRow(r), [Read(r, InvitationRow(r)) EXCEPT !.by = op[r].key]))
            /\ Go(r, "bind")
            /\ UNCHANGED <<db, op, saw, answer, expired>>
       ELSE Next_(r, "lost")

Lost(r) ==
    LET row == Read(r, InvitationRow(r)) IN
    /\ pc[r] = "lost"
    /\ IF row # None /\ row.by # None THEN AlreadyAccepted(r, row) ELSE Commit(r, "refused")

(* denylist.create: the insert of a key that is there already is no error.  *)
Deny(r) ==
    /\ pc[r] = "deny"
    /\ IsFree(r, <<"denied", op[r].key>>)
    /\ IF Read(r, <<"denied", op[r].key>>) = None
       THEN Insert(r, <<"denied", op[r].key>>, "row", "refuse")
       ELSE Next_(r, "refuse")

(* The refusal is returned, not raised: raising would roll the entry back.  *)
Refuse_Raised(r) == pc[r] = "refuse" /\ Raise(r, "denied")

Refuse(r) == pc[r] = "refuse" /\ Commit(r, "denied")

(* The new account key.  Somebody else's row with the same key: a failure.  *)
BindAccount(r) ==
    LET row == <<"account", op[r].key>> IN
    /\ pc[r] = "bind" /\ op[r].kind = "accept"
    /\ \/ Insert(r, row, [of |-> saw[r].of, via |-> op[r].invitation], "commit")
       \/ IsFree(r, row) /\ Read(r, row) # None /\ Raise(r, "failed")

-----------------------------------------------------------------------------
(* login_endpoint and oidc_login_endpoint *)

NewSession(i) == [of |-> i, role |-> None, out |-> FALSE]

(* Each id token logs in once: its nonce is stored, and is unique. *)
StoreToken(r) ==
    LET row == <<"token", op[r].token>> IN
    /\ pc[r] = "write" /\ op[r].kind = "oidc"
    /\ \/ Insert(r, row, "row", "lookup")
       \/ IsFree(r, row) /\ Read(r, row) # None /\ Raise(r, "rejected")

FindIdentity(r) ==
    /\ pc[r] = "lookup"
    /\ IF Read(r, <<"identity", op[r].identity>>) = None
       THEN Raise(r, "rejected")
       ELSE Next_(r, "bind")

OwnerOfLogin(r) == IF op[r].kind = "oidc" THEN op[r].identity ELSE saw[r].of

BindSession(r) ==
    LET row == <<"session", op[r].key>> IN
    /\ \/ pc[r] = "write" /\ op[r].kind = "login"
       \/ pc[r] = "bind" /\ op[r].kind = "oidc"
    /\ \/ Insert(r, row, NewSession(OwnerOfLogin(r)), "commit")
       \/ IsFree(r, row) /\ Read(r, row) # None /\ Raise(r, "failed")

-----------------------------------------------------------------------------
(* update_session_self and logout_session_self *)

SessionRow(r) == <<"session", op[r].key>>

RoleApplies(r) ==
    Read(r, SessionRow(r)) # None /\ Read(r, SessionRow(r)).role = None

(* The columns that an update sets; the row keeps the others as they are    *)
(* when the update runs, not as the request read them before.               *)
WithRole_WholeRow(r) == [saw[r] EXCEPT !.role = op[r].role]

WithRole(r) == [Read(r, SessionRow(r)) EXCEPT !.role = op[r].role]

UpdateRole(r) ==
    /\ pc[r] = "write" /\ op[r].kind = "setRole"
    /\ \/ saw[r].role # None /\ Raise(r, "rejected")
       \/ /\ saw[r].role = None
          /\ IsFree(r, SessionRow(r))
          /\ IF RoleApplies(r)
             THEN /\ Write(r, Just(SessionRow(r), WithRole(r)))
                  /\ Go(r, "commit")
                  /\ UNCHANGED <<db, op, saw, answer, expired>>
             ELSE Raise(r, "rejected")

LoggedOut(r) == [Read(r, SessionRow(r)) EXCEPT !.out = TRUE]

EndSession(r) ==
    LET row == Read(r, SessionRow(r)) IN
    /\ pc[r] = "write" /\ op[r].kind = "logout"
    /\ IsFree(r, SessionRow(r))
    /\ IF row # None /\ ~row.out
       THEN /\ Write(r, Just(SessionRow(r), LoggedOut(r)))
            /\ Go(r, "commit")
            /\ UNCHANGED <<db, op, saw, answer, expired>>
       ELSE Commit(r, "again")

-----------------------------------------------------------------------------
(* invite_endpoint and delete_endpoint *)

StoreInvitation(r) ==
    /\ pc[r] = "write" /\ op[r].kind = "invite"
    /\ Insert(r, InvitationRow(r), [of |-> op[r].identity, by |-> None], "commit")

(* One DELETE statement per table: the rows of the identity that are there  *)
(* when the statement runs.                                                 *)
OwnedIn(r, table) ==
    {row \in Rows : row[1] = table /\ Read(r, row) # None /\ Read(r, row).of = op[r].identity}

DeleteFrom(r, stage, table, next) ==
    /\ pc[r] = stage /\ op[r].kind = "delete"
    /\ Write(r, [row \in OwnedIn(r, table) |-> None])
    /\ Go(r, next)
    /\ UNCHANGED <<db, op, saw, answer, expired>>

DeleteAccounts(r) == DeleteFrom(r, "write", "account", "sessions")
DeleteSessions(r) == DeleteFrom(r, "sessions", "session", "invitations")

DeleteInvitations(r) == DeleteFrom(r, "invitations", "invitation", "identity")

DeleteIdentity(r) ==
    /\ pc[r] = "identity"
    /\ Write(r, Just(<<"identity", op[r].identity>>, None))
    /\ Go(r, "commit")
    /\ UNCHANGED <<db, op, saw, answer, expired>>

-----------------------------------------------------------------------------
CommitOk(r) == pc[r] = "commit" /\ Commit(r, "ok")

(* A deadlock victim, a commit that fails, a server that stops. *)
Fail(r) == pc[r] \notin {"idle", "done"} /\ Raise(r, "failed")

Expire(inv) ==
    /\ inv \notin expired
    /\ expired' = expired \cup {inv}
    /\ UNCHANGED <<db, staged, op, pc, saw, answer>>

Step(r) ==
    \/ CheckDenylist(r)
    \/ ReadInvitation(r) \/ Claim(r) \/ Lost(r) \/ Deny(r) \/ Refuse(r) \/ BindAccount(r)
    \/ StoreToken(r) \/ FindIdentity(r) \/ BindSession(r)
    \/ UpdateRole(r) \/ EndSession(r)
    \/ StoreInvitation(r)
    \/ DeleteAccounts(r) \/ DeleteSessions(r) \/ DeleteInvitations(r) \/ DeleteIdentity(r)
    \/ CommitOk(r)
    \/ Fail(r)

Next ==
    \/ \E r \in Requests : Step(r)
    \/ \E r \in Requests, o \in Ops : Begin(r, o)
    \/ \E inv \in Invitations : Expire(inv)

Spec == Init /\ [][Next]_vars

-----------------------------------------------------------------------------
(* Properties. *)

TypeOK ==
    /\ DOMAIN db = Rows
    /\ \A r \in Requests :
          /\ DOMAIN staged[r] \subseteq Rows
          /\ op[r] \in Ops \cup {None}
          /\ answer[r] \in Answers
          /\ (pc[r] = "done") = (answer[r] # "none")
          /\ pc[r] \in {"idle", "done"} => staged[r] = Nothing
          /\ \A other \in Requests \ {r} : DOMAIN staged[r] \cap DOMAIN staged[other] = {}
    /\ expired \subseteq Invitations

Answered(o, what) == {r \in Requests : op[r] = o /\ answer[r] = what}
AcceptsOf(inv) == {o \in Ops : o.kind = "accept" /\ o.invitation = inv}

(* Of all the requests that accept an invitation, one gets its key bound:   *)
(* the accepted keys, the account rows made with the invitation and the key *)
(* in its row agree (identity_invitation_key.accept: "of two concurrent     *)
(* callers only one gets True").                                            *)
OneKeyPerInvitation ==
    \A inv \in Invitations :
        LET winners == UNION {Answered(o, "ok") : o \in AcceptsOf(inv)}
            accounts == {k \in Keys : /\ db[<<"account", k>>] # None
                                      /\ db[<<"account", k>>].via = inv}
        IN  /\ Cardinality(winners) <= 1
            /\ Cardinality(accounts) <= 1
            /\ \A r \in winners, k \in accounts : op[r].key = k
            /\ db[<<"invitation", inv>>] # None =>
                  \A k \in accounts : db[<<"invitation", inv>>].by = k

(* The denylist holds the losers and nobody else.  A key that was told that *)
(* somebody else accepted first is on it (_already_accepted returns its     *)
(* response for that, it does not raise), and no retry ever gets its own    *)
(* key denied: a key on it lost an invitation to another key.               *)
OnlyLosersAreDenied ==
    /\ \A r \in Requests : answer[r] = "denied" => db[<<"denied", op[r].key>>] # None
    /\ \A k \in Keys : db[<<"denied", k>>] # None =>
          \E inv \in Invitations :
              /\ Answered(Accept(inv, k), "denied") # {}
              /\ Answered(Accept(inv, k), "ok") = {}
              /\ \E o \in AcceptsOf(inv) : o.key # k /\ Answered(o, "ok") # {}

(* One id token makes one session (oidc_login_endpoint). *)
TokenLogsInOnce ==
    \A t \in Tokens :
        Cardinality({r \in Requests : op[r] # None /\ op[r].kind = "oidc"
                                       /\ op[r].token = t /\ answer[r] = "ok"}) <= 1

(* The role of a session is set once, by the one request that is told so    *)
(* and audited, and a session that is logged out never comes back           *)
(* (update_session_self, logout_session_self).                              *)
SessionsOnlyNarrow ==
    [][ \A s \in Keys :
          LET old == db[<<"session", s>>]
              new == db'[<<"session", s>>]
          IN  (old # None /\ new # None) =>
                  /\ new.of = old.of
                  /\ old.role # None => new.role = old.role
                  /\ old.out => new.out ]_vars

(* "Its keys and sessions go at once: the next request signed with one of    *)
(* them is a 401" (identity.delete): no account key and no session is       *)
(* left for an identity that is not there.                                  *)
KeysGoWithTheIdentity ==
    \A row \in Rows :
        (row[1] \in {"account", "session"} /\ db[row] # None) =>
            db[<<"identity", db[row].of>>] # None

(* What proves who somebody is counts once, whatever is sent twice or at    *)
(* the same time: an invitation for one key, a refusal for those who lost   *)
(* it, an id token for one session (accept_endpoint, oidc_login_endpoint).  *)
ProofsCountOnce == OneKeyPerInvitation /\ OnlyLosersAreDenied /\ TokenLogsInOnce
=============================================================================
