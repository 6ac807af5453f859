---------------------------- MODULE TrustedKeys ----------------------------
(* How the server that a bastion asks trusts the token of a host: the keys *)
(* that a tenant publishes, and the cache of them that the lookups of all  *)
(* the threads of the server share (api/jwt_validator.py TrustedKeys, the  *)
(* frps plugin, the JWKS endpoint).                                        *)
(*                                                                         *)
(* An issuer is a tenant. The cache has an entry per issuer; an entry has  *)
(* a client (PyJWKClient) that keeps the last set it fetched for a while.  *)
(* The client fetches without a lock, so the answers of two threads are    *)
(* kept in the order in which they end. A key of a tenant signs from the   *)
(* second it is published, so a set that is kept may miss it: the lookup   *)
(* then fetches anew, but not too often.                                   *)
(*                                                                         *)
(* The shape of an issuer, the signature, audience and purpose of a token  *)
(* are left out: a token is one that a tenant made for the bastion to      *)
(* register its host, or has a kid of nobody.                              *)
EXTENDS Naturals, Sequences, FiniteSets, SequencesExt

CONSTANTS
    Issuers, Threads, None,
    Leavers,    \* the issuers whose tenant may be disabled
    Keys,       \* keys: [iss, from, until, created], as rotate_oidc made them
    Grace,      \* oidc_key_grace_period
    Ttl,        \* how long a token is valid
    Lifespan,   \* of a set that a client keeps
    MinForced,  \* _min_forced_refresh_interval
    MaxIssuers, \* _max_cached_issuers
    MaxDelay,   \* how long a fetch takes at most
    MaxEntries, MaxFails, MaxDate

VARIABLES
    date,       \* of all clocks
    offAt,      \* per issuer: when its tenant was disabled, or None
    cached,     \* _client_by_iss: the entries, oldest first: [iss, id]
    forcedAt,   \* per entry: last_forced_refresh
    kept,       \* per entry: what its client keeps: [keys, at], or None
    made,       \* entries made so far
    job,        \* per thread: its lookup
    fails

vars == <<date, offAt, cached, forcedAt, kept, made, job, fails>>

Entries == 1 .. MaxEntries

Idle == [pc |-> "idle", token |-> None, entry |-> None, forced |-> FALSE, begun |-> 0, answer |-> {}]

Published(iss) == {k \in Keys : k.iss = iss /\ k.from <= date /\ date < k.until + Grace}

(* get_private_key: the newest of the keys that are valid.                 *)
Signs(k, d) ==
    /\ k.from <= d /\ d < k.until
    /\ \A l \in Keys : l.iss = k.iss /\ l.from <= d /\ d < l.until => l.created <= k.created

IsOn(iss) == offAt[iss] = None

(* The tokens that a tenant has made while it was enabled and that are     *)
(* still valid, and one of nobody.                                         *)
Tokens ==
    LET MadeAt(k, d) == date < d + Ttl /\ Signs(k, d) /\ (IsOn(k.iss) \/ d <= offAt[k.iss])
    IN  [iss : Issuers, key : {None}]
            \union {[iss |-> k.iss, key |-> k] : k \in {l \in Keys : \E d \in 0 .. date : MadeAt(l, d)}}

Cached(iss) == {i \in DOMAIN cached : cached[i].iss = iss}

EntryOf(iss) == cached[CHOOSE i \in Cached(iss) : TRUE].id

------------------------------------------------------------------------------
(* The client's own cache of a set.                                        *)
Fresh(e) == kept[e] # None /\ date <= kept[e].at + Lifespan

Busy == {"making", "missed", "fetching", "answered"}

(* match_kid, in the set that the thread has in its hands.                 *)
Match(job0, set) ==
    IF job0.token.key \in set
    THEN [Idle EXCEPT !.pc = "accepted", !.token = job0.token]
    ELSE [job0 EXCEPT !.pc = "missed", !.answer = {}, !.begun = 0]

(* A thread that has its entry reads the set, or fetches it.               *)
Ask(token, e) ==
    LET asking == [Idle EXCEPT !.pc = "fetching", !.token = token, !.entry = e, !.begun = date]
    IN  IF Fresh(e) THEN Match(asking, kept[e].keys) ELSE asking

(* lookup, in a worker thread. A tenant that has an entry is not looked up *)
(* in the registry again.                                                  *)
Lookup(t, token) ==
    /\ job[t].pc \notin Busy
    /\ Cached(token.iss) # {} \/ made + Cardinality({u \in Threads : job[u].pc = "making"}) < MaxEntries
    /\ job' = [job EXCEPT ![t] =
                  IF Cached(token.iss) # {} THEN Ask(token, EntryOf(token.iss))
                  ELSE IF IsOn(token.iss) THEN [Idle EXCEPT !.token = token, !.pc = "making"] ELSE Idle]
    /\ UNCHANGED <<date, offAt, cached, forcedAt, kept, made, fails>>

(* _get_or_create_entry, under the lock. The oldest entry makes room.      *)
GetOrCreate(t) ==
    LET iss == job[t].token.iss
        more == Append(cached, [iss |-> iss, id |-> made + 1])
    IN
    /\ job[t].pc = "making"
    /\ IF Cached(iss) # {}
       THEN /\ job' = [job EXCEPT ![t] = Ask(job[t].token, EntryOf(iss))]
            /\ UNCHANGED <<cached, forcedAt, made>>
       ELSE /\ made' = made + 1
            /\ cached' = IF Len(more) > MaxIssuers THEN Tail(more) ELSE more
            /\ forcedAt' = [forcedAt EXCEPT ![made'] = date]
            /\ job' = [job EXCEPT ![t] = Ask(job[t].token, made')]
    /\ UNCHANGED <<date, offAt, kept, fails>>

(* The JWKS endpoint answers for a tenant that is enabled.                 *)
Serve(t) ==
    LET iss == job[t].token.iss IN
    /\ job[t].pc = "fetching"
    /\ job' = [job EXCEPT ![t].pc = "answered", ![t].answer = IF IsOn(iss) THEN Published(iss) ELSE None]
    /\ UNCHANGED <<date, offAt, cached, forcedAt, kept, made, fails>>

LoseAnswer(t) ==
    /\ job[t].pc = "fetching" /\ fails < MaxFails
    /\ job' = [job EXCEPT ![t].pc = "answered", ![t].answer = None]
    /\ fails' = fails + 1
    /\ UNCHANGED <<date, offAt, cached, forcedAt, kept, made>>

(* The client keeps the answer from now on; without one, it keeps nothing. *)
(* The plugin takes a token whose key is found.                            *)
EndFetch(t) ==
    LET answer == job[t].answer IN
    /\ job[t].pc = "answered"
    /\ kept' = [kept EXCEPT ![job[t].entry] = IF answer = None THEN None ELSE [keys |-> answer, at |-> date]]
    /\ job' = [job EXCEPT ![t] = Match(@, IF answer = None THEN {} ELSE answer)]
    /\ UNCHANGED <<date, offAt, cached, forcedAt, made, fails>>

Allowed_Never(e) == FALSE

(* _allow_forced_refresh: under the lock, who wins stamps before it asks.  *)
Allowed(e) == date >= forcedAt[e] + MinForced

Force(t) ==
    /\ job[t].pc = "missed" /\ ~job[t].forced /\ Allowed(job[t].entry)
    /\ forcedAt' = [forcedAt EXCEPT ![job[t].entry] = date]
    /\ job' = [job EXCEPT ![t].pc = "fetching", ![t].forced = TRUE, ![t].begun = date]
    /\ UNCHANGED <<date, offAt, cached, kept, made, fails>>

Refuse(t) ==
    /\ job[t].pc = "missed" /\ (job[t].forced \/ ~Allowed(job[t].entry))
    /\ job' = [job EXCEPT ![t].pc = "refused", ![t].forced = FALSE]
    /\ UNCHANGED <<date, offAt, cached, forcedAt, kept, made, fails>>

ThreadStep(t) ==
    GetOrCreate(t) \/ Serve(t) \/ LoseAnswer(t) \/ EndFetch(t) \/ Force(t) \/ Refuse(t)

------------------------------------------------------------------------------
Disable(iss) ==
    /\ IsOn(iss)
    /\ offAt' = [offAt EXCEPT ![iss] = date]
    /\ UNCHANGED <<date, cached, forcedAt, kept, made, job, fails>>

(* A fetch ends in time, and a thread is not suspended between two steps   *)
(* that wait for nothing. A verdict is of its second.                      *)
Tick ==
    /\ date < MaxDate
    /\ \A t \in Threads :
         /\ job[t].pc # "making" /\ job[t].pc # "missed"
         /\ job[t].pc \in {"fetching", "answered"} => date < job[t].begun + MaxDelay
    /\ date' = date + 1
    /\ job' = [t \in Threads |-> IF job[t].pc \in {"fetching", "answered"} THEN job[t] ELSE Idle]
    /\ UNCHANGED <<offAt, cached, forcedAt, kept, made, fails>>

Init ==
    /\ date = 0
    /\ offAt = [i \in Issuers |-> None]
    /\ cached = <<>>
    /\ forcedAt = [e \in Entries |-> 0] /\ kept = [e \in Entries |-> None]
    /\ made = 0
    /\ job = [t \in Threads |-> Idle]
    /\ fails = 0

Next ==
    \/ \E t \in Threads : (\E token \in Tokens : Lookup(t, token)) \/ ThreadStep(t)
    \/ \E i \in Leavers : Disable(i)
    \/ Tick

Spec == Init /\ [][Next]_vars

------------------------------------------------------------------------------
TypeOK ==
    /\ date \in 0 .. MaxDate /\ made \in 0 .. MaxEntries /\ fails \in 0 .. MaxFails
    /\ \A i \in DOMAIN cached : cached[i].iss \in Issuers /\ cached[i].id \in 1 .. made
    /\ Len(cached) <= MaxIssuers
    /\ \A t \in Threads : job[t].entry \in Entries \union {None}

(* "The floor holds under a race": of the threads that miss a key in the   *)
(* same set one fetches it anew, and nobody else before that has ended     *)
(* (_allow_forced_refresh).                                                *)
OneForcedFetch ==
    \A t, u \in Threads :
        /\ job[t].forced /\ job[t].pc \in {"fetching", "answered"}
        /\ job[u].forced /\ job[u].pc \in {"fetching", "answered"}
        /\ job[t].entry = job[u].entry
        => t = u

(* A key that signs is found, though the sets that are kept miss it: once  *)
(* it has been published for the time of a fetch and of the floor, a token *)
(* of a tenant that is enabled is refused only by a lookup that another's  *)
(* forced fetch of just now overtook, not for as long as the floor. As     *)
(* long as no fetch fails (lookup, _allow_forced_refresh).                 *)
FindsPublishedKeys ==
    \A t \in Threads :
        /\ job[t].pc = "refused" /\ job[t].token.key # None /\ fails = 0
        /\ IsOn(job[t].token.iss) /\ date >= job[t].token.key.from + MaxDelay + MinForced
        /\ job[t].token.key \in Published(job[t].token.iss)
        => date <= forcedAt[job[t].entry] + MaxDelay

(* A new key is found, and the tenant is not asked for it by every thread at *)
(* once: the floor of forced fetches serves both (lookup).                   *)
KeysAreFound == OneForcedFetch /\ FindsPublishedKeys
==============================================================================
