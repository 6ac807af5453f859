--------------------------- MODULE RequestChecks ---------------------------
(***************************************************************************)
(* What decides whether a request counts, side by side: the nonces that    *)
(* the server has seen (NonceStore), the calls of its clients, which sign   *)
(* anew or send again (HttpCalls), and the keys that it finds for the      *)
(* tokens of hosts (TrustedKeys).  They share the threads and no state.    *)
(***************************************************************************)
EXTENDS NonceStore, FiniteSets

CONSTANTS Issuers, None, Leavers, Keys, Grace, Ttl, Lifespan, MinForced, MaxIssuers,
    MaxDelay, MaxEntries, MaxFails, MaxDate
CONSTANTS Callers, Managed, MaxSignatures, MaxFaults

(* Keys are records, None is none of the values, and a fetch takes less     *)
(* time than the floor of forced fetches.  PyJWKClient waits for as long as *)
(* the floor before it fails: what takes all of that is left out.           *)
ASSUME KeysAssumption ==
    /\ \A k \in Keys : k.iss \in Issuers /\ k.from \in Nat /\ k.until \in Nat /\ k.created \in Nat
    /\ Grace \in Nat /\ Ttl \in Nat /\ Lifespan \in Nat /\ MinForced \in Nat /\ MaxIssuers \in Nat
    /\ MaxDelay \in Nat /\ MaxEntries \in Nat /\ MaxFails \in Nat /\ MaxDate \in Nat
    /\ IsFiniteSet(Threads) /\ Leavers \subseteq Issuers
    /\ None \notin Nat /\ None \notin Keys /\ None \notin [keys : SUBSET Keys, at : Nat]
    /\ \A set \in SUBSET Keys : set # None
    /\ MaxDelay < MinForced

VARIABLES date, offAt, cached, forcedAt, kept, entries, job, fails

VARIABLES at, mine, outcome, renewed, made, session, live, wire, answer,
    rejected, ran, dropped, restarted, forgot, faults

Trusted == INSTANCE TrustedKeys WITH made <- entries

trustedVars == <<date, offAt, cached, forcedAt, kept, entries, job, fails>>

Http == INSTANCE HttpCalls WITH seen <- rejected

httpVars == <<at, mine, outcome, renewed, made, session, live, wire, answer,
              rejected, ran, dropped, restarted, forgot, faults>>

(* A new key is found, and the tenant is not asked for it by every thread at *)
(* once: the floor of forced fetches serves both (TrustedKeys.lookup).       *)
KeysAreFound == Trusted!KeysAreFound

(* What the server ran, and what the caller is told of it (http_session).    *)
CallsAreExact == Http!CallsAreExact
=============================================================================
