---------------------------- MODULE MCNonceStore ----------------------------
(* Small instances of what RequestChecks has side by side.                 *)
EXTENDS RequestChecks, TLC

CONSTANTS n1, n2     \* two nonces
CONSTANTS i1, i2     \* two issuers

VARIABLES part       \* the module that is at work

TwoNonces == {n1, n2}

(* n1 is signed when the server starts; n2 a second later, or, for a client  *)
(* that signs a request anew with the same nonce, another second later.      *)
ThreeSignatures == {[nonce |-> n1, created |-> 1],
                    [nonce |-> n2, created |-> 2],
                    [nonce |-> n2, created |-> 3]}

(* i1 rotates its key; i2 has none, and takes the place of i1 in the cache.  *)
TenantKeys == {[iss |-> i1, from |-> 0, until |-> 2, created |-> 0],
               [iss |-> i1, from |-> 1, until |-> 9, created |-> 1]}

TwoIssuers == {i1, i2}
OneLeaver == {i1}

(* Threads are told apart by what they do only.                              *)
Alike == Permutations(Threads)

MCInit == part \in {"nonces", "keys", "calls"} /\ Init /\ Trusted!Init /\ Http!Init

(* When nothing is left to do for them, the calls rest. *)
CallsAreOver == UNCHANGED httpVars

MCNext ==
    /\ UNCHANGED part
    /\ \/ part = "nonces" /\ Next /\ UNCHANGED <<trustedVars, httpVars>>
       \/ part = "keys" /\ Trusted!Next /\ UNCHANGED <<vars, httpVars>>
       \/ part = "calls" /\ (Http!Next \/ CallsAreOver) /\ UNCHANGED <<vars, trustedVars>>

MCSpec == MCInit /\ [][MCNext]_<<part, vars, trustedVars, httpVars>>
=============================================================================
