---------------------------- MODULE SerialNumbers ----------------------------
(***************************************************************************)
(* The serial numbers of certificates (api/model/signing_key.py, and the    *)
(* two endpoints of api/endpoints/ssh.py that sign).                        *)
(*                                                                         *)
(* A request reads the counter of its signing key and moves it with an      *)
(* UPDATE that names the value it read; when another request was faster     *)
(* the update changes no row, and it reads again, a few times.  The         *)
(* certificates, their audit entries and the moved counter are committed    *)
(* together, or not at all.                                                 *)
(*                                                                         *)
(* The database is Postgres or MariaDB with READ COMMITTED: an updated row  *)
(* is locked until the commit, and an update that waits for that lock       *)
(* looks at the row again when it gets it.  The writers of SQLite queue,    *)
(* which only removes interleavings.                                        *)
(***************************************************************************)
EXTENDS Naturals

CONSTANTS Signings,    \* requests for certificates, each runs once
          SigningKeys, \* the keys, of users and of hosts
          Nobody,      \* holds a row lock that is free
          MaxBatch,    \* bound: the public keys in one request
          Attempts     \* _SERIAL_ATTEMPTS

ASSUME SerialAssumption ==
    /\ MaxBatch \in Nat
    /\ Attempts \in Nat \ {0}
    /\ Nobody \notin Signings
    /\ SigningKeys # {}

VARIABLES
    stage,   \* how far each request is
    signer,  \* the key that signs for it
    count,   \* how many certificates it asks for
    tries,   \* how often it has read the counter
    first,   \* the number it read last
    serial,  \* per key: the counter as committed, the next number
    holder,  \* per key: the request whose open transaction has moved it
    issued,  \* the committed certificates, as the audit log lists them
    moves,   \* per key: how often the counter was moved (history)
    since    \* per request: moves when it first read (history)

requestVars == <<stage, signer, count, tries, first, since>>
serialVars == <<requestVars, serial, holder, issued, moves>>

Stages == {"idle", "reading", "updating", "signing", "done", "refused", "failed"}
Certificates == [signer : SigningKeys, serial : Nat, by : Signings]

SerialTypeOK ==
    /\ stage \in [Signings -> Stages]
    /\ signer \in [Signings -> SigningKeys]
    /\ count \in [Signings -> 0 .. MaxBatch]
    /\ tries \in [Signings -> 0 .. Attempts]
    /\ first \in [Signings -> Nat]
    /\ since \in [Signings -> Nat]
    /\ serial \in [SigningKeys -> Nat \ {0}]
    /\ holder \in [SigningKeys -> Signings \cup {Nobody}]
    /\ moves \in [SigningKeys -> Nat]
    /\ issued \subseteq Certificates

AnySigner == CHOOSE k \in SigningKeys : TRUE

(* signing_key.create: the first number is 1. *)
SerialInit ==
    /\ stage = [r \in Signings |-> "idle"]
    /\ signer = [r \in Signings |-> AnySigner]
    /\ count = [r \in Signings |-> 0]
    /\ tries = [r \in Signings |-> 0]
    /\ first = [r \in Signings |-> 0]
    /\ since = [r \in Signings |-> 0]
    /\ serial = [k \in SigningKeys |-> 1]
    /\ holder = [k \in SigningKeys |-> Nobody]
    /\ moves = [k \in SigningKeys |-> 0]
    /\ issued = {}

-----------------------------------------------------------------------------
(* A user certificate needs one number, a host as many as it has keys. *)
Ask(r, k, n) ==
    /\ stage[r] = "idle"
    /\ stage' = [stage EXCEPT ![r] = "reading"]
    /\ signer' = [signer EXCEPT ![r] = k]
    /\ count' = [count EXCEPT ![r] = n]
    /\ since' = [since EXCEPT ![r] = moves[k]]
    /\ UNCHANGED <<tries, first, serial, holder, issued, moves>>

(* Without keys there is nothing to reserve. *)
ReadCounter(r) ==
    /\ stage[r] = "reading"
    /\ first' = [first EXCEPT ![r] = serial[signer[r]]]
    /\ tries' = [tries EXCEPT ![r] = @ + 1]
    /\ stage' = [stage EXCEPT ![r] = IF count[r] = 0 THEN "signing" ELSE "updating"]
    /\ UNCHANGED <<signer, count, since, serial, holder, issued, moves>>

(* UPDATE without the number in its WHERE, as after a plain read.            *)
StillFirst_Unchecked(r) == TRUE

StillFirst(r) == serial[signer[r]] = first[r]

(* The row has the number and nobody else has moved it: its lock is taken.  *)
Reserve(r) ==
    /\ stage[r] = "updating"
    /\ holder[signer[r]] = Nobody
    /\ StillFirst(r)
    /\ holder' = [holder EXCEPT ![signer[r]] = r]
    /\ stage' = [stage EXCEPT ![r] = "signing"]
    /\ UNCHANGED <<signer, count, tries, first, since, serial, issued, moves>>

(* The update changed no row.  After the last attempt the request gets 409. *)
Miss(r) ==
    /\ stage[r] = "updating"
    /\ ~StillFirst(r)
    /\ stage' = [stage EXCEPT ![r] = IF tries[r] = Attempts THEN "refused" ELSE "reading"]
    /\ UNCHANGED <<signer, count, tries, first, since, serial, holder, issued, moves>>

Unlock(r) == [k \in SigningKeys |-> IF holder[k] = r THEN Nobody ELSE holder[k]]

(* The certificates take consecutive numbers, from the first on.             *)
Signed(r) ==
    {[signer |-> signer[r], serial |-> n, by |-> r] : n \in first[r] .. first[r] + count[r] - 1}

Issue(r) ==
    /\ stage[r] = "signing"
    /\ stage' = [stage EXCEPT ![r] = "done"]
    /\ issued' = issued \cup Signed(r)
    /\ serial' = [k \in SigningKeys |-> IF holder[k] = r THEN first[r] + count[r] ELSE serial[k]]
    /\ moves' = [k \in SigningKeys |-> IF holder[k] = r THEN moves[k] + 1 ELSE moves[k]]
    /\ holder' = Unlock(r)
    /\ UNCHANGED <<signer, count, tries, first, since>>

(* 403 for a capability that is missing, which comes after the reservation, *)
(* or any error: the transaction is rolled back.                            *)
Abort(r) ==
    /\ stage[r] \in {"reading", "updating", "signing"}
    /\ stage' = [stage EXCEPT ![r] = "failed"]
    /\ holder' = Unlock(r)
    /\ UNCHANGED <<signer, count, tries, first, since, serial, issued, moves>>

SerialNext ==
    \E r \in Signings :
        \/ \E k \in SigningKeys, n \in 0 .. MaxBatch : Ask(r, k, n)
        \/ ReadCounter(r) \/ Reserve(r) \/ Miss(r) \/ Issue(r) \/ Abort(r)

(* All requests have their answer. *)
Answered ==
    /\ \A r \in Signings : stage[r] \in {"done", "refused", "failed"}
    /\ UNCHANGED serialVars

SerialSpec == SerialInit /\ [][SerialNext]_serialVars

-----------------------------------------------------------------------------
(* No two certificates of a key have the same number ("A serial number is   *)
(* never handed out twice", signing_key.py).                                *)
NoNumberTwice ==
    \A c, d \in issued : c.signer = d.signer /\ c.serial = d.serial => c = d

(* The audit log has a certificate for every number below the counter, and  *)
(* for no other: requests that failed or were refused leave no hole.        *)
NumbersAreAudited ==
    /\ \A c \in issued : c.serial \in 1 .. serial[c.signer] - 1
    /\ \A k \in SigningKeys : \A n \in 1 .. serial[k] - 1 :
           \E c \in issued : c.signer = k /\ c.serial = n

(* A request is refused only when others, as many as it had attempts, got   *)
(* certificates of the same key meanwhile.                                  *)
RefusedOnlyInACrowd ==
    \A r \in Signings : stage[r] = "refused" => moves[signer[r]] >= since[r] + Attempts

SerialsAreExact == NoNumberTwice /\ NumbersAreAudited /\ RefusedOnlyInACrowd
=============================================================================
