----------------------------- MODULE HostTrust -----------------------------
(***************************************************************************)
(* What the hosts hold of the signing keys, while the keys rotate.         *)
(*                                                                         *)
(* A host keeps two copies.  Its own certificate is signed by the host key *)
(* that signs when it asks, and clients check it against the host keys     *)
(* that the server publishes when they connect.  Its file of trusted user  *)
(* keys is what the server publishes when the host asks, and sshd checks   *)
(* user certificates against it.  Both are only as good as the last        *)
(* `pf openssh host-refresh`, which gets one and then the other.           *)
(*                                                                         *)
(* Host keys and user keys rotate by the same algorithm in two tables.     *)
(* Each property below is about one of the two, and `keys` stands for the  *)
(* table that it is about.                                                 *)
(***************************************************************************)
EXTENDS KeyRotation

CONSTANTS
    Hosts,
    RefreshEvery,   \* the timer of the hosts: both copies are never older
    HostLifetime    \* host_certificate_lifetime

ASSUME HostAssumption == RefreshEvery \in Nat /\ HostLifetime \in Nat

VARIABLES
    cert,       \* per host: the certificates installed, none or one
    trusted,    \* per host: the user keys in the file
    refreshed   \* per host: when the file was fetched, Never before host-init

hostVars == <<cert, trusted, refreshed>>
vars == <<rotationVars, hostVars>>

Never == -1
Certs == [signer : Keys, made : Nat, until : Nat]

TypeOK ==
    /\ RotationTypeOK
    /\ cert \in [Hosts -> SUBSET Certs]
    /\ trusted \in [Hosts -> SUBSET Keys]
    /\ refreshed \in [Hosts -> Nat \cup {Never}]

Init ==
    /\ RotationInit
    /\ cert = [h \in Hosts |-> {}]
    /\ trusted = [h \in Hosts |-> {}]
    /\ refreshed = [h \in Hosts |-> Never]

(* First half of a refresh, and of host-init: the server signs with the    *)
(* first of the keys that may sign.  Without one the request fails and the *)
(* host keeps what it has.                                                 *)
Certify(h) ==
    /\ \E k \in Signers :
           cert' = [cert EXCEPT ![h] =
                        {[signer |-> k, made |-> now, until |-> now + HostLifetime]}]
    /\ UNCHANGED <<rotationVars, trusted, refreshed>>

(* Second half: the file is replaced by what is published now.             *)
FetchTrusted_SignersOnly(h) ==
    /\ cert[h] # {}
    /\ trusted' = [trusted EXCEPT ![h] = Signers]
    /\ refreshed' = [refreshed EXCEPT ![h] = now]
    /\ UNCHANGED <<rotationVars, cert>>

FetchTrusted(h) ==
    /\ cert[h] # {}
    /\ trusted' = [trusted EXCEPT ![h] = Published]
    /\ refreshed' = [refreshed EXCEPT ![h] = now]
    /\ UNCHANGED <<rotationVars, cert>>

(* What the timers of the hosts are trusted with.                          *)
HostsOnSchedule(t) ==
    \A h \in Hosts :
        /\ refreshed[h] # Never => t <= refreshed[h] + RefreshEvery
        /\ \A c \in cert[h] : t <= c.made + RefreshEvery

Next ==
    \/ RotationNext /\ HostsOnSchedule(now') /\ UNCHANGED hostVars
    \/ \E h \in Hosts : Certify(h) \/ FetchTrusted(h)

Spec == Init /\ [][Next]_vars

-----------------------------------------------------------------------------
(* A host that has been set up and whose timer runs accepts every user     *)
(* certificate that the server signs now: the key is in the file, although *)
(* the file is a copy of what was published a while ago.                   *)
UserSignersTrusted ==
    \A h \in Hosts : refreshed[h] # Never => Signers \subseteq trusted[h]

(* A certificate that a host presents, and that says of itself that it is  *)
(* still valid, is accepted by a client: its signer is among the published *)
(* host keys, which `pf ssh` fetches for every connection.                 *)
HostCertificateVerifies ==
    \A h \in Hosts : refreshed[h] # Never =>
        \A c \in cert[h] : c.until > now => c.signer \in Published
=============================================================================
