-------------------------- MODULE BastionRegistrar --------------------------
(***************************************************************************)
(* pf bastion register (cli/pf/bastion_cli.py): the task that asks the     *)
(* server for the bastions of this host and keeps one client for each, the *)
(* clients with their control links, the session that all of them call     *)
(* with, and the visitors that come in through a bastion                   *)
(* (bastion_visitor.py).                                                   *)
(*                                                                         *)
(* Everything here runs on one event loop: a step is what a task does      *)
(* between two awaits.  A task that is cancelled goes on until it is       *)
(* resumed, and a client that carries tunnels only ends when these have    *)
(* ended.                                                                  *)
(*                                                                         *)
(* The times of the backoff and of the polls are left out: a wait ends     *)
(* some time, except that SlowClosing = FALSE says that a cancelled client *)
(* ends within a poll interval.                                            *)
(*                                                                         *)
(* The tunnels that a client carries are those of RelayTunnels; here they  *)
(* are one, conns.                                                         *)
(***************************************************************************)
EXTENDS RelayTunnels

CONSTANTS
    Bastions,
    Clients,        \* bound: the clients that exist at a time
    Absent,
    SlowClosing,    \* a cancelled client may take longer than a poll interval
    LateClock,      \* the clock of the host may be behind the server's
    MaxChanges, MaxFaults, MaxExpiries      \* bounds

ASSUME RegistrarAssumption ==
    /\ Absent \notin Bastions \cup Clients
    /\ "registrar" \notin Clients
    /\ SlowClosing \in BOOLEAN /\ LateClock \in BOOLEAN

VARIABLES
    listed,         \* the server: the bastions that match this host
    main,           \* the registrar: "asks", "applies", "waits", "closes", "over"
    reply,          \* the last list that it received
    active,         \* active_tasks: bastion -> the client, or Absent
    stop,           \* stop_event
    of,             \* client -> its bastion, or Absent when there is no such task
    client,         \* client -> where it is
    cancelled,      \* the clients that were cancelled
    conns,          \* the clients that carry a tunnel
    control,        \* the clients whose control link holds
    proxy,          \* the bastion: the client registered under the host's name
    call,           \* per caller: what its call to the server is doing
    sc, conf,       \* _ManagedSession.sc and the config: the session they hold
    dead, noticed,  \* sessions up to this number are expired: to the server, to the host
    guest,          \* per bastion: where its visitor is
    changes, faults \* counters

registry == <<main, reply, active, stop>>
clientVars == <<of, client, cancelled, conns, control>>
sessionVars == <<call, sc, conf, dead, noticed>>
outside == <<listed, proxy, guest, changes, faults>>

registrarVars == <<listed, main, reply, active, stop, of, client, cancelled, conns, control,
                  proxy, call, sc, conf, dead, noticed, guest, changes, faults>>

Registrar == "registrar"
Callers == Clients \cup {Registrar}

RegistrarInit ==
    /\ listed \in SUBSET Bastions
    /\ main = "asks" /\ reply = {} /\ stop = FALSE
    /\ active = [b \in Bastions |-> Absent] /\ proxy = [b \in Bastions |-> Absent]
    /\ of = [i \in Clients |-> Absent] /\ client = [i \in Clients |-> "none"]
    /\ cancelled = {} /\ conns = {} /\ control = {}
    /\ call = [p \in Callers |-> IF p = Registrar THEN "sent" ELSE "none"]
    /\ sc = 1 /\ conf = 1 /\ dead = 0 /\ noticed = 0
    /\ guest = [b \in Bastions |-> "away"]
    /\ changes = 0 /\ faults = 0

ClientTasks == {i \in Clients : of[i] # Absent}

Fault == faults < MaxFaults /\ faults' = faults + 1

-----------------------------------------------------------------------------
(* The session.  Logins at the same time give keys that expire together:   *)
(* they count as one session here.                                         *)

Expire ==
    /\ dead < MaxExpiries /\ dead < conf
    /\ dead' = conf
    /\ noticed' = IF LateClock THEN noticed ELSE conf
    /\ UNCHANGED <<registry, clientVars, call, sc, conf, outside>>

HostNotices ==
    /\ noticed < dead
    /\ noticed' = dead
    /\ UNCHANGED <<registry, clientVars, call, sc, conf, dead, outside>>

(* Where a caller goes on when its call is over.                           *)
Returns(p, ok) ==
    IF p = Registrar
    THEN /\ main' = IF ok THEN "applies" ELSE "waits"
         /\ reply' = IF ok THEN listed ELSE reply
         /\ client' = client
    ELSE /\ client' = [client EXCEPT ![p] = IF ok THEN "connecting" ELSE "backoff"]
         /\ UNCHANGED <<main, reply>>

(* The server takes the call, or says that the session is expired.  The    *)
(* first time the caller renews the session, the second time it gives up.  *)
Answered(p) ==
    /\ call[p] \in {"sent", "again"} /\ p \notin cancelled
    /\ IF sc > dead
       THEN call' = [call EXCEPT ![p] = "none"] /\ Returns(p, TRUE)
       ELSE IF call[p] = "sent"
       THEN call' = [call EXCEPT ![p] = "renews"] /\ UNCHANGED <<main, reply, client>>
       ELSE call' = [call EXCEPT ![p] = "none"] /\ Returns(p, FALSE)
    /\ UNCHANGED <<active, stop, of, cancelled, conns, control, sc, conf, dead, noticed, outside>>

(* The login of ensure_session: nothing, when the host takes the session   *)
(* for valid.                                                              *)
Renewed_Never == conf

Renewed == IF conf > noticed THEN conf ELSE dead + 1

Renew(p) ==
    /\ call[p] = "renews" /\ p \notin cancelled
    /\ conf' = Renewed /\ sc' = conf'
    /\ call' = [call EXCEPT ![p] = "again"]
    /\ UNCHANGED <<registry, clientVars, dead, noticed, outside>>

(* The server is not reached, or refuses; the login fails.                 *)
CallFails(p) ==
    /\ call[p] # "none" /\ p \notin cancelled /\ Fault
    /\ call' = [call EXCEPT ![p] = "none"] /\ Returns(p, FALSE)
    /\ UNCHANGED <<active, stop, of, cancelled, conns, control, sc, conf, dead, noticed,
                   listed, proxy, guest, changes>>

-----------------------------------------------------------------------------
(* The registrar.                                                          *)

Dropped(bs) == {active[b] : b \in bs} \ {Absent}

(* Clients of bastions that are gone are cancelled and forgotten at once;  *)
(* a bastion without a client gets one, with the url that it has now.      *)
NeedsClient(b) == b \in reply /\ active[b] = Absent

NewClients == {b \in Bastions : NeedsClient(b)}

Apply ==
    /\ main = "applies"
    /\ Cardinality(NewClients) <= Cardinality(Clients \ ClientTasks)
    /\ \E new \in [NewClients -> Clients \ ClientTasks] :
          /\ \A b, d \in NewClients : b # d => new[b] # new[d]
          /\ active' = [b \in Bastions |->
                IF b \in NewClients THEN new[b] ELSE IF b \in reply THEN active[b] ELSE Absent]
          /\ of' = [i \in Clients |->
                IF \E b \in NewClients : new[b] = i THEN CHOOSE b \in NewClients : new[b] = i ELSE of[i]]
          /\ client' = [i \in Clients |-> IF \E b \in NewClients : new[b] = i THEN "token" ELSE client[i]]
          /\ call' = [p \in Callers |-> IF \E b \in NewClients : new[b] = p THEN "sent" ELSE call[p]]
    /\ cancelled' = cancelled \cup Dropped(Bastions \ reply)
    /\ main' = "waits" /\ reply' = {}
    /\ UNCHANGED <<stop, conns, control, sc, conf, dead, noticed, outside>>

Poll ==
    /\ main = "waits" /\ ~stop
    /\ SlowClosing \/ cancelled = {}
    /\ main' = "asks" /\ call' = [call EXCEPT ![Registrar] = "sent"]
    /\ UNCHANGED <<reply, active, stop, clientVars, sc, conf, dead, noticed, outside>>

Signal ==
    /\ ~stop /\ stop' = TRUE
    /\ UNCHANGED <<main, reply, active, clientVars, sessionVars, outside>>

(* The end: the clients in active_tasks are cancelled and awaited; those   *)
(* that are left are cancelled by asyncio.run.                             *)
Leave ==
    /\ main = "waits" /\ stop
    /\ main' = "closes"
    /\ cancelled' = cancelled \cup Dropped(Bastions)
    /\ UNCHANGED <<reply, active, stop, of, client, conns, control, sessionVars, outside>>

Over ==
    /\ main = "closes" /\ \A b \in Bastions : active[b] = Absent
    /\ main' = "over"
    /\ cancelled' = ClientTasks
    /\ UNCHANGED <<reply, active, stop, of, client, conns, control, sessionVars, outside>>

-----------------------------------------------------------------------------
(* A client.                                                               *)

(* A registration outlives its link until the bastion notices (external).  *)
Stale == "stale"

LeftBehind(i) == [b \in Bastions |-> IF proxy[b] = i THEN Stale ELSE proxy[b]]

(* The transport and the login at the bastion, for which frps asks the     *)
(* server (endpoints/frps.py).                                             *)
Connect(i) ==
    /\ client[i] = "connecting" /\ i \notin cancelled
    /\ \/ client' = [client EXCEPT ![i] = "proxying"] /\ control' = control \cup {i} /\ UNCHANGED faults
       \/ client' = [client EXCEPT ![i] = "backoff"] /\ control' = control /\ Fault
    /\ UNCHANGED <<registry, of, cancelled, conns, sessionVars, listed, proxy, guest, changes>>

(* The bastion registers a name once (external); the answer comes later.   *)
Registered(i) ==
    /\ client[i] = "proxying" /\ i \notin cancelled
    /\ IF proxy[of[i]] = Absent
       THEN client' = [client EXCEPT ![i] = "up"] /\ proxy' = [proxy EXCEPT ![of[i]] = i]
       ELSE client' = [client EXCEPT ![i] = "closing"] /\ UNCHANGED proxy
    /\ UNCHANGED <<registry, of, cancelled, conns, control, sessionVars, listed, guest, changes, faults>>

LinkBreaks(i) ==
    /\ i \in control /\ Fault
    /\ control' = control \ {i} /\ proxy' = LeftBehind(i)
    /\ UNCHANGED <<registry, of, client, cancelled, conns, sessionVars, listed, guest, changes>>

(* No pong in time, at either end.                                         *)
Ended(i) == i \notin control \/ stop \/ i \in cancelled

Unlink(i) ==
    /\ client[i] \in {"proxying", "up"} /\ Ended(i)
    /\ client' = [client EXCEPT ![i] = "closing"]
    /\ UNCHANGED <<registry, of, cancelled, conns, control, sessionVars, outside>>

BastionForgets(b) ==
    /\ proxy[b] = Stale
    /\ proxy' = [proxy EXCEPT ![b] = Absent]
    /\ UNCHANGED <<registry, clientVars, sessionVars, listed, guest, changes, faults>>

(* The finally block of _frp_session waits for the tunnels.                *)
ConnOver(i) ==
    /\ i \in conns /\ (client[i] = "closing" \/ guest[of[i]] # "open")
    /\ conns' = conns \ {i}
    /\ guest' = [guest EXCEPT ![of[i]] = IF @ = "open" THEN "cut" ELSE @]
    /\ UNCHANGED <<registry, of, client, cancelled, control, sessionVars, listed, proxy, changes, faults>>

(* A loop that ends, or one that is cancelled, is over.                    *)
LoopOver(i) ==
    /\ client[i] = "closing" /\ i \notin conns
    /\ control' = control \ {i} /\ proxy' = LeftBehind(i)
    /\ client' = [client EXCEPT ![i] = IF i \in cancelled THEN "over" ELSE "backoff"]
    /\ UNCHANGED <<registry, of, cancelled, conns, sessionVars, listed, guest, changes, faults>>

Retry(i) ==
    /\ client[i] = "backoff" /\ i \notin cancelled
    /\ IF stop
       THEN client' = [client EXCEPT ![i] = "over"] /\ call' = call
       ELSE client' = [client EXCEPT ![i] = "token"] /\ call' = [call EXCEPT ![i] = "sent"]
    /\ UNCHANGED <<registry, of, cancelled, conns, control, sc, conf, dead, noticed, outside>>

Cancelled(i) ==
    /\ i \in cancelled /\ client[i] \in {"token", "connecting", "backoff"}
    /\ client' = [client EXCEPT ![i] = "over"] /\ call' = [call EXCEPT ![i] = "none"]
    /\ UNCHANGED <<registry, of, cancelled, conns, control, sc, conf, dead, noticed, outside>>

(* done_callback: it pops the bastion, whoever is its client by now.       *)
Done(i) ==
    /\ client[i] = "over"
    /\ active' = [active EXCEPT ![of[i]] = Absent]
    /\ of' = [of EXCEPT ![i] = Absent] /\ client' = [client EXCEPT ![i] = "none"]
    /\ cancelled' = cancelled \ {i}
    /\ UNCHANGED <<main, reply, stop, conns, control, sessionVars, outside>>

-----------------------------------------------------------------------------
(* The world: the bastions that match, and visitors.                       *)

Relist ==
    /\ changes < MaxChanges /\ changes' = changes + 1
    /\ \E b \in Bastions : listed' = (listed \ {b}) \cup ({b} \ listed)
    /\ UNCHANGED <<registry, clientVars, sessionVars, proxy, guest, faults>>

(* open_tunnel: the bastion says that the host is not registered, or asks  *)
(* its client for a work connection, which spawn_work_conn opens.          *)
Visit(b) ==
    /\ guest[b] = "away"
    /\ LET i == proxy[b] IN
       IF i \in control /\ client[i] = "up" /\ i \notin cancelled /\ ~stop
       THEN conns' = conns \cup {i} /\ guest' = [guest EXCEPT ![b] = "open"]
       ELSE conns' = conns /\ guest' = [guest EXCEPT ![b] = "refused"]
    /\ UNCHANGED <<registry, of, client, cancelled, control, sessionVars, listed, proxy, changes, faults>>

(* connect_async: ssh closes its side, or its output is aborted because    *)
(* the tunnel is cut, upon which ssh ends.                                 *)
VisitorLeaves(b) ==
    /\ guest[b] \in {"open", "cut", "refused"}
    /\ guest' = [guest EXCEPT ![b] = "gone"]
    /\ UNCHANGED <<registry, clientVars, sessionVars, listed, proxy, changes, faults>>

ClientStep(i) ==
    \/ Answered(i) \/ Renew(i) \/ Connect(i) \/ Registered(i) \/ Unlink(i) \/ ConnOver(i)
    \/ LoopOver(i) \/ Retry(i) \/ Cancelled(i) \/ Done(i)

RegistrarStep == Answered(Registrar) \/ Renew(Registrar) \/ Apply \/ Poll \/ Leave \/ Over

RegistrarNext ==
    \/ RegistrarStep
    \/ \E i \in Clients : ClientStep(i) \/ LinkBreaks(i)
    \/ \E p \in Callers : CallFails(p)
    \/ \E b \in Bastions : BastionForgets(b) \/ Visit(b) \/ VisitorLeaves(b)
    \/ Expire \/ HostNotices \/ Signal \/ Relist

RegistrarSpec == RegistrarInit /\ [][RegistrarNext]_registrarVars

(* The event loop resumes every task, calls return, heartbeats time out at *)
(* both ends and a clock gets where the other one was.                     *)
RegistrarFairSpec ==
    /\ RegistrarSpec
    /\ WF_registrarVars(RegistrarStep) /\ WF_registrarVars(HostNotices)
    /\ \A i \in Clients : WF_registrarVars(ClientStep(i))
    /\ \A b \in Bastions : WF_registrarVars(BastionForgets(b))
-----------------------------------------------------------------------------
(* Every client that was not cancelled is the one in active_tasks, so that *)
(* no bastion has two and none is out of reach when its bastion goes.      *)
ClientsAreTracked == \A i \in ClientTasks \ cancelled : active[of[i]] = i

(* "pf bastion register" keeps the host reachable: once the list, the      *)
(* network and the session are quiet, a listed bastion routes to a client  *)
(* that answers, and one that is not listed, or any when the program is    *)
(* told to stop, has neither a client nor a registration.                  *)
IsServed(b) == \E i \in control : proxy[b] = i /\ client[i] = "up"

IsLeft(b) == proxy[b] = Absent /\ \A i \in ClientTasks : of[i] # b

FollowsTheList ==
    \A b \in Bastions :
        /\ <>[](b \in listed /\ ~stop) => <>[]IsServed(b)
        /\ <>[](b \notin listed \/ stop) => <>[]IsLeft(b)

(* _ManagedSession "re-logs automatically when the session key expires": a *)
(* call that is sent again has a session that the server takes, if none    *)
(* expires meanwhile.                                                      *)
RenewalHelps == \A p \in Callers : call[p] = "again" /\ dead <= 1 => sc > dead

(* A tunnel per token and a report of each end, and a client per bastion.  *)
TunnelsAndClientsAreTracked == OneTunnelOneReport /\ ClientsAreTracked
=============================================================================
