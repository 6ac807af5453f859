----------------------------- MODULE NonceStore -----------------------------
(***************************************************************************)
(* Verification of request signatures and the store that rejects replayed   *)
(* ones (api/signature.py: verify, NonceStore).                             *)
(*                                                                         *)
(* Every verification of one server process shares one store: a dict from   *)
(* (key id, nonce) to an expiry date, kept in the order of insertion.  A    *)
(* verification may run on the event loop (the verify_* dependencies) or on  *)
(* a worker thread (accept_invitation_endpoint and login_endpoint are plain *)
(* functions), so two of them interleave wherever the interpreter may       *)
(* switch threads.  In _expire that is after the call of next() and at the  *)
(* jump back of the loop; the comparison with the `del`, and the membership *)
(* test with the insertion, have no call between them and run as one step.  *)
(*                                                                         *)
(* Whoever holds a request may send it again, at any time, also to a server *)
(* that has been restarted in between.  The clock of the server never goes  *)
(* back; the clocks of the clients are arbitrary.                           *)
(***************************************************************************)
EXTENDS Integers, Sequences

CONSTANTS Nonces,      \* the pairs of a key id and a nonce
          Signatures,  \* the requests that were signed: a nonce and a created date
          Threads,     \* the threads of the server that run verify
          Window,      \* FRESHNESS_WINDOW_SECONDS
          Skew,        \* MAX_FUTURE_SKEW_SECONDS
          StartClock,  \* the date on which the first process starts
          MaxClock     \* bound: the last date

ASSUME NonceAssumption ==
    /\ Signatures # {}
    /\ Signatures \subseteq [nonce : Nonces, created : Nat]
    /\ Window \in Nat
    /\ Skew \in Nat
    /\ StartClock \in Nat

VARIABLES
    clock,       \* time.time() of the server, in seconds
    startedAt,   \* when this process made its store
    seen,        \* the dict: expiry date of each nonce that is remembered
    order,       \* the nonces of the dict, oldest insertion first
    pc,          \* how far each thread is with its verification
    what,        \* the signature that it verifies
    now,         \* the date that it read when it began
    oldest,      \* the nonce that it found at the front of the dict
    used,        \* signatures that this process has accepted
    usedBefore   \* signatures that earlier processes have accepted

vars == <<clock, startedAt, seen, order, pc, what, now, oldest, used, usedBefore>>

PcStates == {"idle", "looping", "judging", "checking", "accepted", "replayed", "crashed"}

AnySignature == CHOOSE s \in Signatures : TRUE

Init ==
    /\ clock = StartClock
    /\ startedAt = clock
    /\ seen = [n \in {} |-> 0]
    /\ order = <<>>
    /\ pc = [t \in Threads |-> "idle"]
    /\ what = [t \in Threads |-> AnySignature]
    /\ now = [t \in Threads |-> clock]
    /\ oldest = [t \in Threads |-> AnySignature.nonce]
    /\ used = {}
    /\ usedBefore = {}

-----------------------------------------------------------------------------
(* The freshness checks of verify, before any cryptography. *)
IsFresh(s, date) ==
    /\ s.created <= date + Skew
    /\ date - s.created <= Window

ExpiryOf(s) == s.created + Window

IsStale_AtExpiry(n, date) == seen[n] <= date

IsStale(n, date) == seen[n] < date

(* A request arrives, its dates are fine and its signature verifies; a      *)
(* thread goes on to the store.  A request that fails before has no effect. *)
Verify(t, s) ==
    /\ pc[t] \in {"idle", "accepted", "replayed", "crashed"}
    /\ IsFresh(s, clock)
    /\ pc' = [pc EXCEPT ![t] = "looping"]
    /\ what' = [what EXCEPT ![t] = s]
    /\ now' = [now EXCEPT ![t] = clock]
    /\ UNCHANGED <<clock, startedAt, seen, order, oldest, used, usedBefore>>

(* `while self._seen: oldest = next(iter(self._seen))` *)
Peek(t) ==
    /\ pc[t] = "looping"
    /\ \/ /\ order = <<>>
          /\ pc' = [pc EXCEPT ![t] = "checking"]
          /\ UNCHANGED oldest
       \/ /\ order # <<>>
          /\ pc' = [pc EXCEPT ![t] = "judging"]
          /\ oldest' = [oldest EXCEPT ![t] = Head(order)]
    /\ UNCHANGED <<clock, startedAt, seen, order, what, now, used, usedBefore>>

(* `del self._seen[n]` *)
Forget(n) ==
    /\ seen' = [m \in DOMAIN seen \ {n} |-> seen[m]]
    /\ order' = SelectSeq(order, LAMBDA m : m # n)

(* The rest of the loop: the nonce that was at the front is forgotten if it *)
(* is stale.  Another thread may have forgotten it since: a KeyError.       *)
Judge(t) ==
    /\ pc[t] = "judging"
    /\ \/ /\ oldest[t] \notin DOMAIN seen
          /\ pc' = [pc EXCEPT ![t] = "crashed"]
          /\ UNCHANGED <<seen, order>>
       \/ /\ oldest[t] \in DOMAIN seen
          /\ IsStale(oldest[t], now[t])
          /\ Forget(oldest[t])
          /\ pc' = [pc EXCEPT ![t] = "looping"]
       \/ /\ oldest[t] \in DOMAIN seen
          /\ ~IsStale(oldest[t], now[t])
          /\ pc' = [pc EXCEPT ![t] = "checking"]
          /\ UNCHANGED <<seen, order>>
    /\ UNCHANGED <<clock, startedAt, what, now, oldest, used, usedBefore>>

Predates_Never(s) == FALSE

Predates_AtStart(s) == s.created <= startedAt

Predates(s) == s.created < startedAt

(* The end of check_and_add. *)
CheckAndAdd(t) ==
    LET s == what[t] IN
    /\ pc[t] = "checking"
    /\ \/ /\ Predates(s) \/ s.nonce \in DOMAIN seen
          /\ pc' = [pc EXCEPT ![t] = "replayed"]
          /\ UNCHANGED <<seen, order, used>>
       \/ /\ ~Predates(s) /\ s.nonce \notin DOMAIN seen
          /\ seen' = [m \in DOMAIN seen \cup {s.nonce} |->
                         IF m = s.nonce THEN ExpiryOf(s) ELSE seen[m]]
          /\ order' = Append(order, s.nonce)
          /\ used' = used \cup {s}
          /\ pc' = [pc EXCEPT ![t] = "accepted"]
    /\ UNCHANGED <<clock, startedAt, what, now, oldest, usedBefore>>

(* The process stops, at any point, and a new one starts. *)
Restart ==
    /\ startedAt' = clock
    /\ seen' = [n \in {} |-> 0]
    /\ order' = <<>>
    /\ pc' = [t \in Threads |-> "idle"]
    /\ usedBefore' = usedBefore \cup used
    /\ used' = {}
    /\ UNCHANGED <<clock, what, now, oldest>>

Tick ==
    /\ clock < MaxClock
    /\ clock' = clock + 1
    /\ UNCHANGED <<startedAt, seen, order, pc, what, now, oldest, used, usedBefore>>

-----------------------------------------------------------------------------
ThreadStep(t) == Peek(t) \/ Judge(t) \/ CheckAndAdd(t)

Next ==
    \/ \E t \in Threads, s \in Signatures : Verify(t, s)
    \/ \E t \in Threads : ThreadStep(t)
    \/ Restart
    \/ Tick

Spec == Init /\ [][Next]_vars

-----------------------------------------------------------------------------
(* Properties. *)

TypeOK ==
    /\ clock \in Nat
    /\ startedAt \in Nat
    /\ DOMAIN seen \subseteq Nonces
    /\ \A n \in DOMAIN seen : seen[n] \in Nat
    /\ order \in Seq(Nonces)
    /\ pc \in [Threads -> PcStates]
    /\ what \in [Threads -> Signatures]
    /\ now \in [Threads -> Nat]
    /\ oldest \in [Threads -> Nonces]
    /\ used \subseteq Signatures
    /\ usedBefore \subseteq Signatures

(* A step that accepts the signature s. *)
Accepts(t, s) == pc[t] = "checking" /\ pc'[t] = "accepted" /\ what[t] = s

(* While a signature is still fresh by the clock, one process accepts it     *)
(* once, however its threads interleave in the store (NonceStore: "A nonce   *)
(* is never forgotten before verify's freshness check would independently    *)
(* reject the same signature as stale").                                     *)
AcceptedOnceWhileFresh ==
    [][ \A t \in Threads : \A s \in used :
            Accepts(t, s) => ~IsFresh(s, clock) ]_vars

(* A restart opens a replay window, but only for signatures created within   *)
(* the permitted skew of the restart (NonceStore).                           *)
RestartReplayIsNarrow ==
    [][ \A t \in Threads : \A s \in usedBefore :
            Accepts(t, s) => s.created \in startedAt .. startedAt + Skew ]_vars

(* Nobody is turned away for a replay that did not happen: a signature made  *)
(* since the start of the process is only rejected when its nonce was used.  *)
RejectsOnlyReplays ==
    \A t \in Threads : pc[t] = "replayed" =>
        \/ what[t].created < startedAt
        \/ \E s \in used : s.nonce = what[t].nonce

(* As NonceStore documents it, for all signatures: what was accepted once    *)
(* by a process is never accepted by it again.                               *)
NeverForgottenEarly ==
    [][ \A t \in Threads : \A s \in used : ~Accepts(t, s) ]_vars

(* "Raise a problem if it is not valid" (verify): a verification answers,    *)
(* it does not fail inside the store.                                        *)
AlwaysAnswers == \A t \in Threads : pc[t] # "crashed"
=============================================================================
