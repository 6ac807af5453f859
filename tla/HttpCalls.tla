----------------------------- MODULE HttpCalls -----------------------------
(***************************************************************************)
(* One call of a client, and what it takes to get an answer                 *)
(* (provablyfine_client/http_session.py; _ManagedSession of the bastion     *)
(* commands, cli/pf/bastion_cli.py).                                        *)
(*                                                                         *)
(* A request is signed with a fresh nonce.  When the server closes a        *)
(* connection that was kept open, the same signed request is sent once      *)
(* more, for nobody knows whether the first one was handled; when the       *)
(* database is busy the request is signed anew and sent again, for as long  *)
(* as its time allows; and when the session has ended, a managed session    *)
(* logs in and makes the call once more.  On the other side the server      *)
(* looks at the session, then at the nonce, and only then runs the request. *)
(***************************************************************************)
EXTENDS Naturals

CONSTANTS Callers,        \* the calls
          Managed,        \* those made through a managed session
          MaxSignatures,  \* bound: signatures made
          MaxFaults       \* bound: connections dropped, sessions ended, restarts

VARIABLES
    at,        \* per call: "new", "signing" anew, "waiting", "done"
    mine,      \* per call: the request that it waits for
    outcome,   \* per call: how it ended
    renewed,   \* per call: it has logged in after an expiry
    made,      \* signatures made; each has a nonce of its own
    session,   \* the session of the client
    live,      \* the server accepts that session
    wire,      \* requests on their way, or being handled
    answer,    \* per call: the answer to that request
    seen,      \* the nonces that the server rejects
    ran,       \* the requests that the server has run and committed
    dropped,   \* per call: one of its connections was dropped (history)
    restarted, \* the server was restarted (history)
    forgot,    \* and within the second of a signature that it had seen (history)
    faults

callVars == <<at, mine, outcome, renewed>>
serverVars == <<seen, ran>>
historyVars == <<dropped, restarted, forgot>>
vars == <<callVars, made, session, live, wire, answer, serverVars, historyVars, faults>>

Nothing == [call |-> CHOOSE c \in Callers : TRUE, nonce |-> 0, again |-> FALSE, session |-> 0]

Init ==
    /\ at = [c \in Callers |-> "new"]
    /\ mine = [c \in Callers |-> Nothing]
    /\ outcome = [c \in Callers |-> "none"]
    /\ renewed = [c \in Callers |-> FALSE]
    /\ made = 0 /\ session = 1 /\ live = TRUE
    /\ wire = {} /\ seen = {} /\ ran = {}
    /\ answer = [c \in Callers |-> "none"]
    /\ dropped = [c \in Callers |-> FALSE]
    /\ restarted = FALSE /\ forgot = FALSE /\ faults = 0

-----------------------------------------------------------------------------
(* The client. *)

(* A retry that sends the request it has signed before. *)
NonceFor_SignedOnce(c) == IF mine[c].nonce = 0 THEN made + 1 ELSE mine[c].nonce

NonceFor(c) == made + 1

(* A call keeps to the session that it began with. *)
SessionFor(c) == IF at[c] = "new" THEN session ELSE mine[c].session

Sign(c) ==
    /\ at[c] \in {"new", "signing"}
    /\ made < MaxSignatures
    /\ mine' = [mine EXCEPT ![c] = [call |-> c, nonce |-> NonceFor(c), again |-> FALSE,
                                    session |-> SessionFor(c)]]
    /\ made' = made + 1
    /\ wire' = wire \cup {mine'[c]}
    /\ answer' = [answer EXCEPT ![c] = "none"]
    /\ at' = [at EXCEPT ![c] = "waiting"]
    /\ UNCHANGED <<outcome, renewed, session, live, serverVars, historyVars, faults>>

Finish(c, result) ==
    /\ at' = [at EXCEPT ![c] = "done"]
    /\ outcome' = [outcome EXCEPT ![c] = result]

(* The server has closed the connection, with the request unread or while   *)
(* it was handled.  The request goes out on a new connection, but only once. *)
Resend(c) ==
    /\ at[c] = "waiting"
    /\ faults < MaxFaults
    /\ faults' = faults + 1
    /\ dropped' = [dropped EXCEPT ![c] = TRUE]
    /\ answer' = [answer EXCEPT ![c] = "none"]
    /\ \E kept \in {wire, wire \ {mine[c]}} :
           IF mine[c].again
           THEN /\ Finish(c, "unreachable")
                /\ wire' = kept
                /\ UNCHANGED mine
           ELSE /\ mine' = [mine EXCEPT ![c].again = TRUE]
                /\ wire' = kept \cup {mine'[c]}
                /\ UNCHANGED <<at, outcome>>
    /\ UNCHANGED <<renewed, made, session, live, serverVars, restarted, forgot>>

(* No answer within the time of the call, or no connection at all. *)
GiveUp(c) ==
    /\ at[c] = "waiting"
    /\ Finish(c, "timeout")
    /\ UNCHANGED <<mine, renewed, made, session, live, wire, answer, serverVars,
                   historyVars, faults>>

Has(c, what) == at[c] = "waiting" /\ answer[c] = what

(* 503 with Retry-After, and time left for another try; without, the call   *)
(* ends with that answer.                                                   *)
TryAgain(c) ==
    /\ Has(c, "busy")
    /\ at' = [at EXCEPT ![c] = "signing"]
    /\ UNCHANGED <<mine, outcome, renewed, made, session, live, wire, answer, serverVars,
                   historyVars, faults>>

(* A 401 that says the session is over.  login.ensure_session logs in, if   *)
(* nobody else has done so before, and the call begins again.               *)
MayRenew(c) == c \in Managed /\ ~renewed[c]

Renew(c) ==
    /\ Has(c, "ended")
    /\ MayRenew(c)
    /\ renewed' = [renewed EXCEPT ![c] = TRUE]
    /\ session' = IF live THEN session ELSE session + 1
    /\ live' = TRUE
    /\ at' = [at EXCEPT ![c] = "new"]
    /\ UNCHANGED <<mine, outcome, made, wire, answer, serverVars, historyVars, faults>>

Receive(c) ==
    /\ at[c] = "waiting" /\ answer[c] # "none"
    /\ answer[c] = "ended" => ~MayRenew(c)
    /\ Finish(c, answer[c])
    /\ UNCHANGED <<mine, renewed, made, session, live, wire, answer, serverVars,
                   historyVars, faults>>

-----------------------------------------------------------------------------
(* The server. *)

SessionIsLive(q) == q.session = session /\ live

Rejects(q) == q.nonce \in seen

(* What a request gets: the write lock of the database may be busy before   *)
(* anything is looked at; a rejected handler and a busy commit are rolled   *)
(* back, and the nonce stays used.  The answer goes to the connection of    *)
(* the request, which may be gone.                                          *)
Handle(q) ==
    /\ q \in wire
    /\ wire' = wire \ {q}
    /\ \E is \in {"ok", "refused", "busy", "unread", "ended", "replayed"} :
           /\ is # "unread" =>
                  /\ (is = "ended") = ~SessionIsLive(q)
                  /\ is # "ended" => (is = "replayed") = Rejects(q)
           /\ answer' = IF q = mine[q.call]
                        THEN [answer EXCEPT ![q.call] = IF is = "unread" THEN "busy" ELSE is]
                        ELSE answer
           /\ seen' = IF is \in {"ok", "refused", "busy"} THEN seen \cup {q.nonce} ELSE seen
           /\ ran' = IF is = "ok" THEN ran \cup {q} ELSE ran
    /\ UNCHANGED <<callVars, made, session, live, historyVars, faults>>

EndSession ==
    /\ live /\ faults < MaxFaults
    /\ live' = FALSE /\ faults' = faults + 1
    /\ UNCHANGED <<callVars, made, session, wire, answer, serverVars, historyVars>>

(* The nonces are in memory.  Whatever was signed before the start is       *)
(* rejected, but what was signed within the permitted skew of it is not.    *)
Restart ==
    /\ faults < MaxFaults
    /\ faults' = faults + 1 /\ restarted' = TRUE
    /\ \/ seen' = 1 .. made /\ UNCHANGED forgot
       \/ seen' = {} /\ forgot' = TRUE
    /\ UNCHANGED <<callVars, made, session, live, wire, answer, ran, dropped>>

Next ==
    \/ \E c \in Callers :
           Sign(c) \/ Resend(c) \/ GiveUp(c) \/ TryAgain(c) \/ Renew(c) \/ Receive(c)
    \/ \E q \in wire : Handle(q)
    \/ EndSession \/ Restart

Spec == Init /\ [][Next]_vars

-----------------------------------------------------------------------------
(* One signed request is run once, however often it was sent, unless a      *)
(* restart made the server forget its nonce.  And no call is run twice but  *)
(* one whose connection was dropped: a busy server or an ended session      *)
(* alone never lead to a second run.                                        *)
RunsOnce ==
    \A p, q \in ran : p # q /\ p.call = q.call =>
        dropped[p.call] /\ (p.nonce = q.nonce => forgot)

(* What the caller is told is so: the call was run, or it was not.  Only    *)
(* when a connection was dropped may a refusal hide a run, and only then,   *)
(* or after a restart, is a call rejected as its own replay.                *)
CallersAreToldTheTruth ==
    \A c \in Callers :
        LET wasRun == \E q \in ran : q.call = c
        IN  /\ outcome[c] = "ok" => wasRun
            /\ outcome[c] \in {"refused", "busy", "ended"} /\ wasRun => dropped[c]
            /\ outcome[c] = "replayed" => dropped[c] \/ restarted

CallsAreExact == RunsOnce /\ CallersAreToldTheTruth

(* "So the request cannot be executed twice, even if the first attempt did  *)
(* reach the server" (http_session.py, _send).                              *)
NeverTwice == \A p, q \in ran : p.call = q.call => p = q
=============================================================================
