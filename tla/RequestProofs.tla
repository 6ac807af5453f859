---------------------------- MODULE RequestProofs ----------------------------
(***************************************************************************)
(* Proofs about signed requests: the nonce store of the server (NonceStore) *)
(* for any number of threads, any signatures, any window and skew, and      *)
(* restarts at any time; and the calls of the clients (HttpCalls) for any   *)
(* number of calls and of faults; and the cache of JWK sets (TrustedKeys)   *)
(* for any tenants, keys and times.                                         *)
(*                                                                         *)
(* NonceStore: an accepted signature stays in the dict, with its own        *)
(* expiry date, for as long as the clock has not passed that date           *)
(* (Remembered).  This survives the threads because the only step that      *)
(* removes it compares the date with `now`, which is never ahead of the     *)
(* clock (DatesInPast); what another thread does between the two halves of   *)
(* the loop does not matter.  Behind a restart, the bound on how far a       *)
(* created date may lie in the future (NotAhead) is all that is left.       *)
(*                                                                         *)
(* HttpCalls: as long as no connection of a call was dropped, one request   *)
(* of it is under way at most, the one that the call waits for, and it is   *)
(* gone from the wire once there is an answer (OneAtATime).  The first      *)
(* request that runs ends the signing, since its answer is neither "busy"   *)
(* nor "ended".                                                            *)
(*                                                                         *)
(* TrustedKeys: the set of an entry is of the issuer that the entry was      *)
(* made for, in the cache or not (OneIssuerEach), and has what was published *)
(* when the fetch of it began (AnswersAreWhole, SetsAreWhole).  What is kept *)
(* came after the last forced fetch or while that is on its way              *)
(* (SetsAreRecent); so a thread that misses a key that is old enough may     *)
(* force a fetch, or one was forced just now (MissesAreFew).                 *)
(***************************************************************************)
EXTENDS RequestChecks, FiniteSetTheorems, SequenceTheorems, TLAPS

(* The variables have their types.  The order of the dict is left out: it    *)
(* decides which nonce is judged next, and no safety property needs it.     *)
Typed ==
    /\ clock \in Nat
    /\ startedAt \in Nat
    /\ DOMAIN seen \subseteq Nonces
    /\ \A n \in DOMAIN seen : seen[n] \in Nat
    /\ pc \in [Threads -> PcStates]
    /\ what \in [Threads -> Signatures]
    /\ now \in [Threads -> Nat]
    /\ used \subseteq Signatures
    /\ usedBefore \subseteq Signatures

Busy(t) == pc[t] \in {"looping", "judging", "checking"}

DatesInPast ==
    /\ startedAt <= clock
    /\ \A t \in Threads : now[t] <= clock

NotAhead ==
    /\ \A t \in Threads : Busy(t) => what[t].created <= now[t] + Skew
    /\ \A s \in used : s.created <= clock + Skew
    /\ \A s \in usedBefore : s.created <= startedAt + Skew

Remembered ==
    \A s \in used : clock <= s.created + Window =>
        s.nonce \in DOMAIN seen /\ seen[s.nonce] = s.created + Window

EntriesWereUsed ==
    \A n \in DOMAIN seen : \E s \in used : s.nonce = n

IInv ==
    Typed /\ DatesInPast /\ NotAhead /\ Remembered /\ EntriesWereUsed /\ RejectsOnlyReplays

-----------------------------------------------------------------------------
(* A signature is a record of a nonce and a date. *)
LEMMA SignatureFields ==
    ASSUME NEW s \in Signatures
    PROVE  s.nonce \in Nonces /\ s.created \in Nat
BY NonceAssumption

(* The first process starts with an empty store.                             *)
LEMMA InitIInv == Init => IInv
<1>1. AnySignature \in Signatures
  BY NonceAssumption DEF AnySignature
<1> QED
  BY <1>1, NonceAssumption
  DEF Init, IInv, Typed, DatesInPast, NotAhead, Remembered, EntriesWereUsed,
      RejectsOnlyReplays, PcStates, Busy

(* Every step keeps the invariant: the two steps that touch the dict are     *)
(* the second half of the loop (Judge) and CheckAndAdd.                      *)
LEMMA NextIInv == IInv /\ [Next]_vars => IInv'
<1> SUFFICES ASSUME IInv, [Next]_vars PROVE IInv'
  OBVIOUS
<1> USE NonceAssumption
<1> USE DEF IInv
<1>1. ASSUME NEW t \in Threads, NEW s \in Signatures, Verify(t, s) PROVE IInv'
  BY <1>1, SignatureFields
  DEF Verify, IsFresh, Typed, DatesInPast, NotAhead, Remembered, EntriesWereUsed,
      RejectsOnlyReplays, PcStates, Busy
<1>2. ASSUME NEW t \in Threads, Peek(t) PROVE IInv'
  BY <1>2
  DEF Peek, Typed, DatesInPast, NotAhead, Remembered, EntriesWereUsed,
      RejectsOnlyReplays, PcStates, Busy
<1>3. ASSUME NEW t \in Threads, Judge(t) PROVE IInv'
  <2>1. CASE UNCHANGED <<seen, order>>
    BY <1>3, <2>1
    DEF Judge, Forget, Typed, DatesInPast, NotAhead, Remembered, EntriesWereUsed,
        RejectsOnlyReplays, PcStates, Busy
  <2>2. CASE /\ oldest[t] \in DOMAIN seen
             /\ IsStale(oldest[t], now[t])
             /\ Forget(oldest[t])
             /\ pc' = [pc EXCEPT ![t] = "looping"]
    <3>1. /\ pc[t] = "judging"
          /\ UNCHANGED <<clock, startedAt, what, now, used, usedBefore>>
      BY <1>3 DEF Judge
    <3>2. /\ DOMAIN seen' = DOMAIN seen \ {oldest[t]}
          /\ \A m \in DOMAIN seen' : seen'[m] = seen[m]
      BY <2>2 DEF Forget
    <3>3. seen[oldest[t]] < clock
      BY <2>2 DEF IsStale, Typed, DatesInPast
    <3>4. Typed'
      BY <2>2, <3>1, <3>2 DEF Typed, PcStates
    <3>5. Remembered'
      BY <3>1, <3>2, <3>3, SignatureFields DEF Remembered, Typed
    <3> QED
      BY <2>2, <3>1, <3>2, <3>4, <3>5
      DEF Typed, DatesInPast, NotAhead, EntriesWereUsed, RejectsOnlyReplays, PcStates, Busy
  <2> QED
    BY <1>3, <2>1, <2>2 DEF Judge
<1>4. ASSUME NEW t \in Threads, CheckAndAdd(t) PROVE IInv'
  <2> DEFINE s == what[t]
  <2>1. s \in Signatures /\ s.nonce \in Nonces /\ s.created \in Nat
    BY SignatureFields DEF Typed
  <2>2. pc[t] = "checking" /\ UNCHANGED <<clock, startedAt, what, now, usedBefore>>
    BY <1>4 DEF CheckAndAdd
  <2>3. CASE (Predates(s) \/ s.nonce \in DOMAIN seen) /\ pc' = [pc EXCEPT ![t] = "replayed"]
             /\ UNCHANGED <<seen, order, used>>
    BY <2>1, <2>2, <2>3
    DEF Predates, Typed, DatesInPast, NotAhead, Remembered, EntriesWereUsed,
        RejectsOnlyReplays, PcStates, Busy
  <2>4. CASE /\ ~Predates(s) /\ s.nonce \notin DOMAIN seen
             /\ seen' = [m \in DOMAIN seen \cup {s.nonce} |->
                            IF m = s.nonce THEN ExpiryOf(s) ELSE seen[m]]
             /\ used' = used \cup {s}
             /\ pc' = [pc EXCEPT ![t] = "accepted"]
    <3>1. Typed'
      BY <2>1, <2>2, <2>4 DEF Typed, PcStates, ExpiryOf
    <3>2. NotAhead'
      BY <2>1, <2>2, <2>4, SignatureFields DEF NotAhead, Busy, Typed, DatesInPast
    <3>3. Remembered'
      <4> SUFFICES ASSUME NEW u \in used', clock' <= u.created + Window
                   PROVE  u.nonce \in DOMAIN seen' /\ seen'[u.nonce] = u.created + Window
        BY DEF Remembered
      <4>1. CASE u = s
        BY <2>4, <4>1 DEF ExpiryOf
      <4>2. CASE u \in used
        <5>1. u.nonce \in DOMAIN seen /\ seen[u.nonce] = u.created + Window
          BY <2>2, <4>2 DEF Remembered
        <5> QED
          BY <2>4, <5>1
      <4> QED
        BY <2>4, <4>1, <4>2
    <3> QED
      BY <2>1, <2>2, <2>4, <3>1, <3>2, <3>3
      DEF DatesInPast, EntriesWereUsed, RejectsOnlyReplays, Typed
  <2> QED
    BY <1>4, <2>3, <2>4 DEF CheckAndAdd
<1>5. CASE Restart
  <2>1. /\ DOMAIN seen' = {} /\ used' = {} /\ usedBefore' = usedBefore \cup used
        /\ pc' = [t \in Threads |-> "idle"]
        /\ startedAt' = clock /\ UNCHANGED <<clock, what, now>>
    BY <1>5 DEF Restart
  <2>2. NotAhead'
    BY <2>1, SignatureFields DEF NotAhead, Typed, DatesInPast, Busy
  <2> QED
    BY <2>1, <2>2
    DEF Typed, DatesInPast, Remembered, EntriesWereUsed, RejectsOnlyReplays, PcStates
<1>6. CASE Tick
  BY <1>6, SignatureFields
  DEF Tick, Typed, DatesInPast, NotAhead, Remembered, EntriesWereUsed,
      RejectsOnlyReplays, Busy
<1>7. CASE UNCHANGED vars
  BY <1>7
  DEF vars, Typed, DatesInPast, NotAhead, Remembered, EntriesWereUsed,
      RejectsOnlyReplays, Busy
<1> QED
  BY <1>1, <1>2, <1>3, <1>4, <1>5, <1>6, <1>7 DEF Next, ThreadStep

(* The invariant holds in every reachable state.                             *)
LEMMA Invariant == Spec => []IInv
<1> QED
  BY InitIInv, NextIInv, PTL DEF Spec

-----------------------------------------------------------------------------
(* Only CheckAndAdd ends a verification with success.                        *)
LEMMA AcceptedByCheck ==
    ASSUME Typed, Next, NEW t \in Threads, pc[t] = "checking", pc'[t] = "accepted"
    PROVE  CheckAndAdd(t)
<1>1. ASSUME NEW u \in Threads, NEW s \in Signatures, Verify(u, s) PROVE CheckAndAdd(t)
  BY <1>1 DEF Verify, Typed
<1>2. ASSUME NEW u \in Threads, Peek(u) PROVE CheckAndAdd(t)
  BY <1>2 DEF Peek, Typed
<1>3. ASSUME NEW u \in Threads, Judge(u) PROVE CheckAndAdd(t)
  <2>1. pc[u] = "judging" /\ \E where \in PcStates \ {"accepted"} : pc' = [pc EXCEPT ![u] = where]
    BY <1>3 DEF Judge, PcStates
  <2> QED
    BY <2>1 DEF Typed
<1>4. ASSUME NEW u \in Threads, CheckAndAdd(u) PROVE CheckAndAdd(t)
  <2>1. \E where : pc' = [pc EXCEPT ![u] = where]
    BY <1>4 DEF CheckAndAdd
  <2>2. u = t
    BY <2>1 DEF Typed
  <2> QED
    BY <1>4, <2>2
<1>5. CASE Restart
  BY <1>5 DEF Restart
<1>6. CASE Tick
  BY <1>6 DEF Tick
<1> QED
  BY <1>1, <1>2, <1>3, <1>4, <1>5, <1>6 DEF Next, ThreadStep

(* In a state of the invariant no step accepts a signature for the second    *)
(* time while it is fresh.                                                   *)
LEMMA StepAcceptsOnce ==
    ASSUME IInv, Next, NEW t \in Threads, NEW s \in used, Accepts(t, s)
    PROVE  ~IsFresh(s, clock)
<1>1. CheckAndAdd(t)
  BY AcceptedByCheck DEF IInv, Accepts
<1>2. s.nonce \notin DOMAIN seen
  BY <1>1 DEF CheckAndAdd, Accepts, IInv, Typed
<1>3. s \in Signatures
  BY DEF IInv, Typed
<1> QED
  BY <1>2, <1>3, SignatureFields, NonceAssumption DEF IInv, Remembered, IsFresh, Typed

(* A step that accepts a signature of an earlier process accepts one that    *)
(* was made within the skew of the restart.                                  *)
LEMMA StepReplaysNarrowly ==
    ASSUME IInv, Next, NEW t \in Threads, NEW s \in usedBefore, Accepts(t, s)
    PROVE  s.created \in startedAt .. startedAt + Skew
<1>1. CheckAndAdd(t)
  BY AcceptedByCheck DEF IInv, Accepts
<1>2. ~Predates(s)
  BY <1>1 DEF CheckAndAdd, Accepts, IInv, Typed
<1>3. s \in Signatures
  BY DEF IInv, Typed
<1> QED
  BY <1>2, <1>3, SignatureFields, NonceAssumption DEF IInv, NotAhead, Predates, Typed

(* One process accepts a signature once while it is fresh by the clock.      *)
THEOREM NoReplayWhileFresh == Spec => AcceptedOnceWhileFresh
<1>1. IInv /\ [Next]_vars =>
        [ \A t \in Threads : \A s \in used : Accepts(t, s) => ~IsFresh(s, clock) ]_vars
  BY StepAcceptsOnce
<1> QED
  BY <1>1, Invariant, PTL DEF Spec, AcceptedOnceWhileFresh

(* After restarts only signatures made around the last one can come back.    *)
THEOREM NarrowReplayAfterRestart == Spec => RestartReplayIsNarrow
<1>1. IInv /\ [Next]_vars =>
        [ \A t \in Threads : \A s \in usedBefore :
            Accepts(t, s) => s.created \in startedAt .. startedAt + Skew ]_vars
  BY StepReplaysNarrowly
<1> QED
  BY <1>1, Invariant, PTL DEF Spec, RestartReplayIsNarrow

(* No signature made since the start is rejected unless its nonce was used.  *)
THEOREM NoFalseRejection == Spec => []RejectsOnlyReplays
<1>1. IInv => RejectsOnlyReplays
  BY DEF IInv
<1> QED
  BY <1>1, Invariant, PTL

-----------------------------------------------------------------------------
(* The calls of the clients: their store of nonces is the set `rejected`.   *)

Request == [call : Callers, nonce : Nat, again : BOOLEAN, session : Nat]

Outcomes == {"none", "ok", "refused", "busy", "ended", "replayed", "timeout", "unreachable"}

(* Types; what has been sent carries a nonce that was made.                 *)
CallsTyped ==
    /\ at \in [Callers -> {"new", "signing", "waiting", "done"}]
    /\ mine \in [Callers -> Request]
    /\ outcome \in [Callers -> Outcomes]
    /\ answer \in [Callers -> {"none", "ok", "refused", "busy", "ended", "replayed"}]
    /\ dropped \in [Callers -> BOOLEAN]
    /\ made \in Nat /\ session \in Nat
    /\ wire \subseteq Request /\ ran \subseteq Request
    /\ rejected \subseteq 1 .. made
    /\ \A q \in wire : q.nonce \in 1 .. made
    /\ \A c \in Callers : mine[c].nonce <= made

(* A nonce belongs to one call. *)
NoncesOwned ==
    /\ \A c \in Callers : at[c] = "waiting" => mine[c].nonce # 0 /\ mine[c].call = c
    /\ \A p, q \in wire : p.nonce = q.nonce => p.call = q.call
    /\ \A q \in wire, c \in Callers : mine[c].nonce = q.nonce => q.call = c
    /\ \A c, d \in Callers : mine[c].nonce = mine[d].nonce => c = d \/ mine[c].nonce = 0

(* What ran is remembered, by its nonce and by the answer. *)
RunsRemembered ==
    /\ \A q \in ran : q.nonce \in rejected \/ forgot
    /\ \A c \in Callers :
           answer[c] = "ok" \/ outcome[c] = "ok" => \E q \in ran : q.call = c

(* A call none of whose connections was dropped. *)
OneAtATime ==
    \A c \in Callers : ~dropped[c] =>
        /\ ~mine[c].again
        /\ \A q \in wire : q.call = c =>
               /\ q = mine[c] /\ answer[c] = "none" /\ at[c] \in {"waiting", "done"}
               /\ ~restarted => q.nonce \notin rejected
        /\ \A q \in ran : q.call = c =>
               q = mine[c] /\ answer[c] = "ok" /\ at[c] \in {"waiting", "done"}
        /\ answer[c] = "replayed" => restarted
        /\ outcome[c] \notin {"none", "timeout"} =>
               at[c] = "done" /\ outcome[c] = answer[c] /\ answer[c] # "none"
        /\ at[c] \in {"new", "signing"} => outcome[c] = "none"
        /\ at[c] = "waiting" => outcome[c] = "none"

CallsInv == CallsTyped /\ NoncesOwned /\ RunsRemembered /\ OneAtATime /\ Http!RunsOnce

-----------------------------------------------------------------------------
LEMMA CallsFirst == Http!Init => CallsInv
  <1> SUFFICES ASSUME Http!Init PROVE CallsInv
    OBVIOUS
  <1> USE DEF Http!Init
  <1>1. \A c \in Callers : /\ mine[c] = Http!Nothing /\ Http!Nothing \in Request
                           /\ Http!Nothing.nonce = 0 /\ ~Http!Nothing.again
    BY DEF Http!Nothing, Request
  <1>2. mine \in [Callers -> Request]
    BY <1>1
  <1> HIDE DEF Http!Nothing
  <1>3. CallsTyped
    BY <1>1, <1>2 DEF CallsTyped, Outcomes
  <1>4. NoncesOwned /\ RunsRemembered /\ OneAtATime /\ Http!RunsOnce
    BY <1>1 DEF NoncesOwned, RunsRemembered, OneAtATime, Http!RunsOnce
  <1> QED BY <1>3, <1>4 DEF CallsInv

(* The nonce is new, and nothing of this call is under way unless one of its *)
(* connections was dropped.                                                 *)
LEMMA SignInv ==
    ASSUME CallsInv, NEW c \in Callers, Http!Sign(c)
    PROVE  CallsInv'
  <1> USE DEF CallsInv
  <1> DEFINE q == [call |-> c, nonce |-> Http!NonceFor(c), again |-> FALSE, session |-> Http!SessionFor(c)]
  <1>1. q \in Request /\ q.call = c /\ q.nonce = made + 1 /\ ~q.again
    BY DEF CallsTyped, Http!NonceFor, Http!SessionFor, Request
  <1>2. /\ mine' = [mine EXCEPT ![c] = q] /\ wire' = wire \cup {mine'[c]}
        /\ answer' = [answer EXCEPT ![c] = "none"] /\ at' = [at EXCEPT ![c] = "waiting"]
        /\ made' = made + 1 /\ at[c] \in {"new", "signing"}
        /\ UNCHANGED <<outcome, session, rejected, ran, dropped, restarted, forgot>>
    BY DEF Http!Sign, Http!serverVars, Http!historyVars
  <1> HIDE DEF q
  <1>3. /\ mine'[c] = q /\ answer'[c] = "none" /\ at'[c] = "waiting" /\ wire' = wire \cup {q}
        /\ \A d \in Callers \ {c} : mine'[d] = mine[d] /\ answer'[d] = answer[d] /\ at'[d] = at[d]
    BY <1>2 DEF CallsTyped
  <1>4. CallsTyped'
    <2>1. mine' \in [Callers -> Request] /\ wire' \subseteq Request
      BY <1>1, <1>2, <1>3 DEF CallsTyped
    <2>2. made \in Nat /\ made' = made + 1
      BY <1>2 DEF CallsTyped
    <2>3. \A p \in wire' : p.nonce \in 1 .. made'
      BY <1>1, <1>3, <2>2 DEF CallsTyped
    <2>4. \A d \in Callers : mine'[d].nonce <= made'
      BY <1>1, <1>3, <2>1, <2>2 DEF CallsTyped, Request
    <2>5. rejected' \subseteq 1 .. made'
      BY <1>2, <2>2 DEF CallsTyped
    <2> QED BY <1>2, <2>1, <2>2, <2>3, <2>4, <2>5 DEF CallsTyped
  <1>5. (\A p \in wire : p.nonce < q.nonce) /\ (\A d \in Callers : mine[d].nonce < q.nonce)
        /\ q.nonce \notin rejected /\ q.nonce # 0
    BY <1>1 DEF CallsTyped, Request
  <1>6. NoncesOwned'
    <2>1. \A p \in wire : p.nonce # q.nonce
      BY <1>1, <1>5 DEF CallsTyped, Request
    <2>2. \A d \in Callers : mine[d].nonce # q.nonce
      <3> SUFFICES ASSUME NEW d \in Callers PROVE mine[d].nonce # q.nonce
        OBVIOUS
      <3>1. mine[d].nonce \in Nat
        BY DEF CallsTyped, Request
      <3> QED BY <1>1, <1>5, <3>1 DEF Request
    <2> QED BY <1>1, <1>3, <1>5, <2>1, <2>2 DEF NoncesOwned
  <1>7. RunsRemembered' /\ Http!RunsOnce'
    BY <1>2, <1>3 DEF RunsRemembered, Http!RunsOnce
  <1>8. OneAtATime'
    BY <1>1, <1>2, <1>3, <1>5 DEF OneAtATime
  <1> QED BY <1>4, <1>6, <1>7, <1>8

(* The request goes out again, with the nonce it has: one more of this call *)
(* on the wire, and a dropped connection.                                   *)
LEMMA ResendInv ==
    ASSUME CallsInv, NEW c \in Callers, Http!Resend(c)
    PROVE  CallsInv'
  <1> USE DEF CallsInv
  <1>1. /\ at[c] = "waiting" /\ dropped' = [dropped EXCEPT ![c] = TRUE]
        /\ answer' = [answer EXCEPT ![c] = "none"]
        /\ UNCHANGED <<made, session, rejected, ran, restarted, forgot>>
    BY DEF Http!Resend, Http!serverVars
  <1>2. /\ dropped'[c] /\ answer'[c] = "none"
        /\ \A d \in Callers \ {c} : dropped'[d] = dropped[d] /\ answer'[d] = answer[d]
        /\ dropped' \in [Callers -> BOOLEAN]
        /\ answer' \in [Callers -> {"none", "ok", "refused", "busy", "ended", "replayed"}]
    BY <1>1 DEF CallsTyped
  <1>3. mine[c].nonce # 0 /\ mine[c].call = c /\ mine[c].nonce \in 1 .. made
    BY <1>1 DEF NoncesOwned, CallsTyped, Request
  <1>4. PICK still \in {wire, wire \ {mine[c]}} :
           IF mine[c].again
           THEN Http!Finish(c, "unreachable") /\ wire' = still /\ UNCHANGED mine
           ELSE /\ mine' = [mine EXCEPT ![c].again = TRUE]
                /\ wire' = still \cup {mine'[c]}
                /\ UNCHANGED <<at, outcome>>
    BY DEF Http!Resend
  <1>5. still \subseteq wire
    BY <1>4
  <1>6. CASE mine[c].again
    <2>1. /\ at' = [at EXCEPT ![c] = "done"] /\ outcome' = [outcome EXCEPT ![c] = "unreachable"]
          /\ wire' \subseteq wire /\ mine' = mine
      BY <1>4, <1>5, <1>6 DEF Http!Finish
    <2>2. /\ at'[c] = "done" /\ outcome'[c] = "unreachable"
          /\ \A d \in Callers \ {c} : at'[d] = at[d] /\ outcome'[d] = outcome[d]
      BY <2>1 DEF CallsTyped
    <2>3. CallsTyped'
      BY <1>1, <1>2, <2>1 DEF CallsTyped, Outcomes
    <2>4. NoncesOwned'
      BY <2>1, <2>2 DEF NoncesOwned
    <2>5. RunsRemembered' /\ Http!RunsOnce'
      BY <1>1, <1>2, <2>2 DEF RunsRemembered, Http!RunsOnce
    <2>6. OneAtATime'
      BY <1>1, <1>2, <2>1, <2>2 DEF OneAtATime
    <2> QED BY <2>3, <2>4, <2>5, <2>6
  <1>7. CASE ~mine[c].again
    <2>1. /\ mine' = [mine EXCEPT ![c].again = TRUE] /\ wire' = still \cup {mine'[c]}
          /\ UNCHANGED <<at, outcome>>
      BY <1>4, <1>7
    <2>2. /\ mine' \in [Callers -> Request]
          /\ mine'[c].nonce = mine[c].nonce /\ mine'[c].call = c
          /\ \A d \in Callers \ {c} : mine'[d] = mine[d]
      <3>1. mine[c] \in Request
        BY DEF CallsTyped
      <3>2. /\ [mine[c] EXCEPT !.again = TRUE] \in Request
            /\ [mine[c] EXCEPT !.again = TRUE].nonce = mine[c].nonce
            /\ [mine[c] EXCEPT !.again = TRUE].call = mine[c].call
        BY <3>1 DEF Request
      <3>3. mine'[c] = [mine[c] EXCEPT !.again = TRUE]
            /\ \A d \in Callers \ {c} : mine'[d] = mine[d]
        BY <2>1 DEF CallsTyped
      <3>4. mine' \in [Callers -> Request]
        BY <2>1, <3>2 DEF CallsTyped
      <3> QED BY <1>3, <3>2, <3>3, <3>4
    <2>3. \A d \in Callers : mine'[d].nonce = mine[d].nonce
      BY <2>2
    <2>4. \A p \in wire' : p \in wire \/ p = mine'[c]
      BY <1>5, <2>1
    <2>5. CallsTyped'
      <3>1. wire' \subseteq Request /\ \A p \in wire' : p.nonce \in 1 .. made'
        BY <1>1, <1>3, <2>2, <2>4 DEF CallsTyped
      <3>2. \A d \in Callers : mine'[d].nonce <= made'
        BY <1>1, <2>3 DEF CallsTyped
      <3> QED BY <1>1, <1>2, <2>1, <2>2, <3>1, <3>2 DEF CallsTyped
    <2>6. NoncesOwned'
      <3>1. \A d \in Callers : mine[d].nonce = mine'[c].nonce => d = c
        BY <1>3, <2>2 DEF NoncesOwned
      <3>2. \A p \in wire : p.nonce = mine'[c].nonce => p.call = c
        BY <2>2 DEF NoncesOwned
      <3>3. \A d \in Callers : at'[d] = "waiting" => mine'[d].nonce # 0 /\ mine'[d].call = d
        BY <1>3, <2>1, <2>2 DEF NoncesOwned
      <3>4. \A p, q \in wire' : p.nonce = q.nonce => p.call = q.call
        BY <2>2, <2>4, <3>2 DEF NoncesOwned
      <3>5. \A q \in wire', d \in Callers : mine'[d].nonce = q.nonce => q.call = d
        BY <2>2, <2>3, <2>4, <3>1 DEF NoncesOwned
      <3>6. \A d, e \in Callers : mine'[d].nonce = mine'[e].nonce => d = e \/ mine'[d].nonce = 0
        BY <2>3 DEF NoncesOwned
      <3> QED BY <3>3, <3>4, <3>5, <3>6 DEF NoncesOwned
    <2>7. RunsRemembered' /\ Http!RunsOnce'
      BY <1>1, <1>2, <2>1 DEF RunsRemembered, Http!RunsOnce
    <2>8. OneAtATime'
      <3>1. \A d \in Callers : ~dropped'[d] => d # c /\ ~dropped[d] /\ mine'[d] = mine[d]
                                                /\ answer'[d] = answer[d]
        BY <1>2, <2>2
      <3>2. \A p \in wire' : p \in wire \/ p.call = c
        BY <2>2, <2>4
      <3> QED BY <1>1, <2>1, <3>1, <3>2 DEF OneAtATime
    <2> QED BY <2>5, <2>6, <2>7, <2>8
  <1> QED BY <1>6, <1>7

(* A call ends, by what it was answered or by its own time. *)
LEMMA EndInv ==
    ASSUME CallsInv, NEW c \in Callers, Http!GiveUp(c) \/ Http!Receive(c)
    PROVE  CallsInv'
  <1> USE DEF CallsInv
  <1>1. PICK result \in Outcomes : Http!Finish(c, result) /\ (result = "timeout" \/ result = answer[c])
                                   /\ (result = answer[c] => answer[c] # "none")
    BY DEF Http!GiveUp, Http!Receive, CallsTyped, Outcomes
  <1>2. at[c] = "waiting"
        /\ UNCHANGED <<mine, made, session, wire, answer, rejected, ran, dropped, restarted, forgot>>
    BY DEF Http!GiveUp, Http!Receive, Http!serverVars, Http!historyVars
  <1>3. /\ at'[c] = "done" /\ outcome'[c] = result
        /\ \A d \in Callers \ {c} : at'[d] = at[d] /\ outcome'[d] = outcome[d]
    BY <1>1 DEF Http!Finish, CallsTyped
  <1>4. CallsTyped'
    BY <1>1, <1>2 DEF CallsTyped, Http!Finish
  <1>5. NoncesOwned'
    BY <1>2, <1>3 DEF NoncesOwned
  <1>6. RunsRemembered' /\ Http!RunsOnce'
    BY <1>1, <1>2, <1>3 DEF RunsRemembered, Http!RunsOnce
  <1>7. OneAtATime'
    BY <1>1, <1>2, <1>3 DEF OneAtATime
  <1> QED BY <1>4, <1>5, <1>6, <1>7

(* A call is signed anew only after an answer that says it did not run.      *)
LEMMA AnewInv ==
    ASSUME CallsInv, NEW c \in Callers, Http!TryAgain(c) \/ Http!Renew(c)
    PROVE  CallsInv'
  <1> USE DEF CallsInv
  <1>1. PICK next \in {"signing", "new"} : at' = [at EXCEPT ![c] = next]
    BY DEF Http!TryAgain, Http!Renew
  <1>2. at[c] = "waiting" /\ answer[c] \in {"busy", "ended"}
        /\ UNCHANGED <<mine, outcome, made, wire, answer, rejected, ran, dropped, restarted, forgot>>
    BY DEF Http!TryAgain, Http!Renew, Http!Has, Http!serverVars, Http!historyVars
  <1>3. at'[c] = next /\ \A d \in Callers \ {c} : at'[d] = at[d]
    BY <1>1 DEF CallsTyped
  <1>4. CallsTyped'
    <2>1. session' \in Nat
      BY DEF Http!TryAgain, Http!Renew, CallsTyped
    <2> QED BY <1>1, <1>2, <2>1 DEF CallsTyped
  <1>5. NoncesOwned'
    BY <1>2, <1>3 DEF NoncesOwned
  <1>6. RunsRemembered' /\ Http!RunsOnce'
    BY <1>2 DEF RunsRemembered, Http!RunsOnce
  <1>7. OneAtATime'
    BY <1>2, <1>3 DEF OneAtATime
  <1> QED BY <1>4, <1>5, <1>6, <1>7

(* A request that runs was not seen before: what ran with its nonce ran     *)
(* before the server forgot it.                                             *)
LEMMA HandleInv ==
    ASSUME CallsInv, NEW q \in wire, Http!Handle(q)
    PROVE  CallsInv'
  <1> USE DEF CallsInv
  <1>1. q \in Request /\ q.call \in Callers /\ q.nonce \in 1 .. made
    BY DEF CallsTyped, Request
  <1>2. /\ wire' = wire \ {q}
        /\ UNCHANGED <<at, mine, outcome, made, session, dropped, restarted, forgot>>
    BY DEF Http!Handle, Http!callVars, Http!historyVars
  <1>3. PICK is \in {"ok", "refused", "busy", "unread", "ended", "replayed"} :
           /\ is # "unread" =>
                  /\ (is = "ended") = ~Http!SessionIsLive(q)
                  /\ is # "ended" => (is = "replayed") = Http!Rejects(q)
           /\ answer' = IF q = mine[q.call]
                        THEN [answer EXCEPT ![q.call] = IF is = "unread" THEN "busy" ELSE is]
                        ELSE answer
           /\ rejected' = IF is \in {"ok", "refused", "busy"} THEN rejected \cup {q.nonce} ELSE rejected
           /\ ran' = IF is = "ok" THEN ran \cup {q} ELSE ran
    BY DEF Http!Handle
  <1>4. /\ is = "ok" => q.nonce \notin rejected
        /\ is = "replayed" => q.nonce \in rejected
    BY <1>3 DEF Http!Rejects
  <1> DEFINE told == IF is = "unread" THEN "busy" ELSE is
  <1>5. told \in {"ok", "refused", "busy", "ended", "replayed"}
        /\ (told = "ok" <=> is = "ok") /\ (told = "replayed" <=> is = "replayed")
    BY <1>3
  <1>6. answer' = IF q = mine[q.call] THEN [answer EXCEPT ![q.call] = told] ELSE answer
    BY <1>3
  <1> HIDE DEF told
  <1>7. /\ q = mine[q.call] => answer'[q.call] = told
        /\ q # mine[q.call] => answer'[q.call] = answer[q.call]
        /\ \A d \in Callers \ {q.call} : answer'[d] = answer[d]
    BY <1>1, <1>6 DEF CallsTyped
  <1>8. CallsTyped'
    <2>1. answer' \in [Callers -> {"none", "ok", "refused", "busy", "ended", "replayed"}]
      BY <1>1, <1>5, <1>6 DEF CallsTyped
    <2>2. rejected' \subseteq 1 .. made /\ ran' \subseteq Request
      BY <1>1, <1>3 DEF CallsTyped
    <2> QED BY <1>2, <2>1, <2>2 DEF CallsTyped
  <1>9. NoncesOwned'
    BY <1>2 DEF NoncesOwned
  <1>10. RunsRemembered'
    <2>1. \A p \in ran' : p.nonce \in rejected' \/ forgot'
      BY <1>2, <1>3 DEF RunsRemembered
    <2>2. ASSUME NEW c \in Callers, answer'[c] = "ok" \/ outcome'[c] = "ok"
          PROVE  \E p \in ran' : p.call = c
      BY <1>2, <1>3, <1>5, <1>7, <2>2 DEF RunsRemembered
    <2> QED BY <2>1, <2>2 DEF RunsRemembered
  <1>11. Http!RunsOnce'
    <2> SUFFICES ASSUME NEW p \in ran', NEW p2 \in ran', p # p2, p.call = p2.call
                 PROVE  dropped[p.call] /\ (p.nonce = p2.nonce => forgot)
      BY <1>2 DEF Http!RunsOnce
    <2>1. CASE p \in ran /\ p2 \in ran
      BY <2>1 DEF Http!RunsOnce
    <2>2. ASSUME is = "ok", NEW r \in ran, r # q, r.call = q.call
          PROVE  dropped[q.call] /\ (r.nonce = q.nonce => forgot)
      <3>1. dropped[q.call]
        BY <1>1, <2>2 DEF OneAtATime
      <3>2. r.nonce = q.nonce => forgot
        BY <1>4, <2>2 DEF RunsRemembered
      <3> QED BY <3>1, <3>2
    <2> QED BY <1>3, <2>1, <2>2
  <1>12. OneAtATime'
    <2> SUFFICES ASSUME NEW c \in Callers, ~dropped[c]
                 PROVE  /\ ~mine[c].again
                        /\ \A p \in wire' : p.call = c =>
                               /\ p = mine[c] /\ answer'[c] = "none" /\ at[c] \in {"waiting", "done"}
                               /\ ~restarted => p.nonce \notin rejected'
                        /\ \A p \in ran' : p.call = c =>
                               p = mine[c] /\ answer'[c] = "ok" /\ at[c] \in {"waiting", "done"}
                        /\ answer'[c] = "replayed" => restarted
                        /\ outcome[c] \notin {"none", "timeout"} =>
                               at[c] = "done" /\ outcome[c] = answer'[c] /\ answer'[c] # "none"
                        /\ at[c] \in {"new", "signing"} => outcome[c] = "none"
                        /\ at[c] = "waiting" => outcome[c] = "none"
      BY <1>2 DEF OneAtATime
    <2>1. CASE q.call = c
      <3>1. q = mine[c] /\ answer[c] = "none" /\ at[c] \in {"waiting", "done"}
            /\ (~restarted => q.nonce \notin rejected)
        BY <2>1 DEF OneAtATime
      <3>2. answer'[c] = told
        BY <1>7, <2>1, <3>1
      <3>3. \A p \in wire' : p.call # c
        BY <1>2, <2>1, <3>1 DEF OneAtATime
      <3>4. \A p \in ran : p.call # c
        BY <3>1 DEF OneAtATime
      <3>5. \A p \in ran' : p.call = c => p = q /\ told = "ok"
        BY <1>3, <1>5, <3>4
      <3>6. told = "replayed" => restarted
        BY <1>4, <1>5, <3>1
      <3> QED BY <3>1, <3>2, <3>3, <3>5, <3>6 DEF OneAtATime
    <2>2. CASE q.call # c
      <3>1. answer'[c] = answer[c]
        BY <1>7, <2>2
      <3>2. \A p \in wire' : p.call = c => p \in wire /\ (p.nonce \in rejected' => p.nonce \in rejected)
        BY <1>2, <1>3, <2>2 DEF NoncesOwned
      <3>3. \A p \in ran' : p.call = c => p \in ran
        BY <1>3, <2>2
      <3> QED BY <3>1, <3>2, <3>3 DEF OneAtATime
    <2> QED BY <2>1, <2>2
  <1> QED BY <1>8, <1>9, <1>10, <1>11, <1>12

LEMMA FaultInv ==
    ASSUME CallsInv, Http!EndSession \/ Http!Restart
    PROVE  CallsInv'
  <1> USE DEF CallsInv
  <1>1. UNCHANGED <<at, mine, outcome, made, session, wire, answer, ran, dropped>>
    BY DEF Http!EndSession, Http!Restart, Http!callVars, Http!serverVars, Http!historyVars
  <1>2. \/ UNCHANGED <<rejected, restarted, forgot>>
        \/ restarted' = TRUE /\ rejected' = 1 .. made /\ forgot' = forgot
        \/ restarted' = TRUE /\ rejected' = {} /\ forgot' = TRUE
    BY DEF Http!EndSession, Http!Restart, Http!serverVars, Http!historyVars
  <1>3. CallsTyped'
    BY <1>1, <1>2 DEF CallsTyped
  <1>4. NoncesOwned'
    BY <1>1 DEF NoncesOwned
  <1>5. OneAtATime'
    BY <1>1, <1>2 DEF OneAtATime
  <1>6. RunsRemembered'
    <2>1. \A q \in ran : q.nonce \in rejected' \/ forgot'
      <3>1. (rejected' = {} /\ forgot' = TRUE) \/ (rejected \subseteq rejected' /\ forgot' = forgot)
        BY <1>2 DEF CallsTyped
      <3> QED BY <3>1 DEF RunsRemembered
    <2> QED BY <1>1, <2>1 DEF RunsRemembered
  <1>7. Http!RunsOnce'
    BY <1>1, <1>2 DEF Http!RunsOnce
  <1> QED BY <1>3, <1>4, <1>5, <1>6, <1>7

LEMMA CallsNext == CallsInv /\ [Http!Next]_Http!vars => CallsInv'
  <1> SUFFICES ASSUME CallsInv, [Http!Next]_Http!vars PROVE CallsInv'
    OBVIOUS
  <1>1. CASE UNCHANGED Http!vars
    BY <1>1 DEF Http!vars, Http!callVars, Http!serverVars, Http!historyVars, CallsInv, CallsTyped, NoncesOwned,
                RunsRemembered, OneAtATime, Http!RunsOnce
  <1> QED BY <1>1, SignInv, ResendInv, EndInv, AnewInv, HandleInv, FaultInv DEF Http!Next

(* However often a request is sent, and whatever is lost, restarted or      *)
(* expires: a signed request runs once unless its nonce was forgotten, a     *)
(* call runs twice only over a dropped connection, and what its caller is   *)
(* told of it is so.                                                        *)
THEOREM CallersKnowWhatRan == Http!Spec => []CallsAreExact
  <1>1. CallsInv => Http!CallersAreToldTheTruth
    <2> SUFFICES ASSUME CallsInv, NEW c \in Callers
                 PROVE  LET wasRun == \E q \in ran : q.call = c
                        IN  /\ outcome[c] = "ok" => wasRun
                            /\ outcome[c] \in {"refused", "busy", "ended"} /\ wasRun => dropped[c]
                            /\ outcome[c] = "replayed" => dropped[c] \/ restarted
      BY DEF Http!CallersAreToldTheTruth
    <2> QED BY DEF CallsInv, RunsRemembered, OneAtATime
  <1>2. CallsInv => CallsAreExact
    BY <1>1 DEF CallsInv, CallsAreExact, Http!CallsAreExact
  <1> QED BY CallsFirst, CallsNext, <1>2, PTL DEF Http!Spec

-----------------------------------------------------------------------------
(* The cache of JWK sets: it counts its entries in `entries`.               *)

KeySets == [keys : SUBSET Keys, at : Nat]
TokenSet == [iss : Issuers, key : Keys \cup {None}]
Jobs == [pc : Trusted!Busy \cup {"idle", "accepted", "refused"}, token : TokenSet \cup {None},
         entry : Nat \cup {None}, forced : BOOLEAN, begun : Nat, answer : (SUBSET Keys) \cup {None}]

(* A thread that has an entry in its hands, and one that fetches its set.   *)
Holds(t) == job[t].pc \in {"missed", "fetching", "answered", "refused"}
Fetches(t) == job[t].pc \in {"fetching", "answered"}
Making == {t \in Threads : job[t].pc = "making"}

KeysTyped ==
    /\ date \in Nat /\ entries \in Nat /\ fails \in Nat
    /\ offAt \in [Issuers -> Nat \cup {None}]
    /\ cached \in Seq([iss : Issuers, id : Nat])
    /\ forcedAt \in [Trusted!Entries -> Nat]
    /\ kept \in [Trusted!Entries -> KeySets \cup {None}]
    /\ job \in [Threads -> Jobs]

(* There is room for the entries that will be made. *)
EntriesFit ==
    /\ entries + Cardinality(Making) <= MaxEntries
    /\ \A i \in DOMAIN cached : cached[i].id \in 1 .. entries
    /\ \A t \in Threads :
           /\ Holds(t) => job[t].entry \in 1 .. entries
           /\ Holds(t) \/ job[t].pc = "making" => job[t].token \in TokenSet
    /\ \A e \in Trusted!Entries : e > entries => kept[e] = None

(* What an entry is for is known from the cache and from who holds it. *)
IsFor(e, iss) ==
    \/ \E i \in DOMAIN cached : cached[i] = [iss |-> iss, id |-> e]
    \/ \E t \in Threads : Holds(t) /\ job[t].entry = e /\ job[t].token.iss = iss

OneIssuerEach == \A e \in Trusted!Entries, i, j \in Issuers : IsFor(e, i) /\ IsFor(e, j) => i = j

(* Times: a fetch ends in time, nothing is kept or stamped ahead of the clock. *)
InDate ==
    /\ \A e \in Trusted!Entries : forcedAt[e] <= date /\ (kept[e] # None => kept[e].at <= date)
    /\ \A t \in Threads : Fetches(t) =>
           /\ job[t].begun <= date /\ date <= job[t].begun + MaxDelay
           /\ job[t].forced => job[t].begun <= forcedAt[job[t].entry]

(* An answer has what was published when the fetch began. *)
AnswersAreWhole ==
    \A t \in Threads : job[t].pc = "answered" /\ Trusted!IsOn(job[t].token.iss) =>
        /\ fails = 0 => job[t].answer # None
        /\ job[t].answer # None =>
               \A k \in Trusted!Published(job[t].token.iss) : k.from <= job[t].begun => k \in job[t].answer

(* A set that is kept has what was published a delay before it came. *)
SetsAreWhole ==
    \A e \in Trusted!Entries, iss \in Issuers : IsFor(e, iss) /\ kept[e] # None /\ Trusted!IsOn(iss) =>
        \A k \in Trusted!Published(iss) : k.from + MaxDelay <= kept[e].at => k \in kept[e].keys

(* A set that is kept came after the last forced fetch, unless that is still on its way. *)
SetsAreRecent ==
    \A e \in Trusted!Entries : kept[e] # None =>
        \/ kept[e].at >= forcedAt[e]
        \/ \E t \in Threads : Fetches(t) /\ job[t].entry = e /\ job[t].begun = forcedAt[e]

(* A key that has been published for a while, in the hands of t. *)
Findable(t) ==
    /\ job[t].token.key # None /\ fails = 0 /\ Trusted!IsOn(job[t].token.iss)
    /\ date >= job[t].token.key.from + MaxDelay + MinForced
    /\ job[t].token.key \in Trusted!Published(job[t].token.iss)

(* It is missed only where a fetch may be forced, or was of late. *)
MissesAreFew ==
    \A t \in Threads : job[t].pc = "missed" /\ Findable(t) =>
        \/ ~job[t].forced /\ Trusted!Allowed(job[t].entry)
        \/ date <= forcedAt[job[t].entry] + MaxDelay

KeysInv ==
    /\ KeysTyped /\ EntriesFit /\ OneIssuerEach /\ InDate /\ AnswersAreWhole /\ SetsAreWhole
    /\ SetsAreRecent /\ MissesAreFew /\ Trusted!OneForcedFetch /\ Trusted!FindsPublishedKeys

-----------------------------------------------------------------------------
LEMMA MakingIsFinite ==
    IsFiniteSet(Making) /\ Cardinality(Making) \in Nat
  BY FS_Subset, FS_CardinalityType, KeysAssumption DEF Making

LEMMA SameCardinality ==
    ASSUME NEW S
    PROVE  Trusted!Cardinality(S) = Cardinality(S)
  BY DEF Trusted!Cardinality, Cardinality

LEMMA IdleIsAJob == Trusted!Idle \in Jobs
  BY DEF Trusted!Idle, Jobs

LEMMA JobFields ==
    \A j \in Jobs :
        /\ \A place \in Trusted!Busy : [j EXCEPT !.pc = place] \in Jobs
        /\ [j EXCEPT !.pc = "missed", !.answer = {}, !.begun = 0] \in Jobs
  BY DEF Jobs, Trusted!Busy

LEMMA MatchIs ==
    ASSUME NEW j \in Jobs, NEW set, j.token \in TokenSet
    PROVE  /\ Trusted!Match(j, set) \in Jobs /\ Trusted!Match(j, set).token = j.token
           /\ Trusted!Match(j, set).pc = "accepted" \/ (Trusted!Match(j, set).pc = "missed" /\ j.token.key \notin set)
           /\ Trusted!Match(j, set).pc = "missed" =>
                  Trusted!Match(j, set).entry = j.entry /\ Trusted!Match(j, set).forced = j.forced
  <1>1. CASE j.token.key \in set
    BY <1>1, IdleIsAJob DEF Trusted!Match, Trusted!Idle, Jobs
  <1>2. CASE j.token.key \notin set
    <2>1. Trusted!Match(j, set) = [j EXCEPT !.pc = "missed", !.answer = {}, !.begun = 0]
      BY <1>2 DEF Trusted!Match
    <2>2. Trusted!Match(j, set) \in Jobs
      BY <2>1, JobFields
    <2> QED
      BY <1>2, <2>1, <2>2 DEF Jobs
  <1> QED
    BY <1>1, <1>2

(* A thread that asks for the set of an entry reads it, or begins to fetch it. *)
LEMMA AskIs ==
    ASSUME KeysTyped, NEW token \in TokenSet, NEW e \in Trusted!Entries
    PROVE  LET j == Trusted!Ask(token, e)
           IN  /\ j \in Jobs /\ j.token = token /\ j.pc \in {"accepted", "missed", "fetching"}
               /\ j.pc # "accepted" => j.entry = e /\ ~j.forced
               /\ j.pc = "fetching" => j.begun = date
               /\ j.pc = "missed" => kept[e] # None /\ token.key \notin kept[e].keys
  <1> DEFINE asking == [Trusted!Idle EXCEPT !.pc = "fetching", !.token = token, !.entry = e, !.begun = date]
  <1>1. /\ asking \in Jobs /\ asking.token = token /\ asking.entry = e /\ ~asking.forced
        /\ asking.begun = date /\ asking.pc = "fetching"
    <2>1. e \in Nat /\ date \in Nat
      BY DEF Trusted!Entries, KeysTyped
    <2>2. \A j \in Jobs :
              LET asks == [j EXCEPT !.pc = "fetching", !.token = token, !.entry = e, !.begun = date]
              IN  /\ asks \in Jobs /\ asks.token = token /\ asks.entry = e /\ asks.forced = j.forced
                  /\ asks.begun = date /\ asks.pc = "fetching"
      BY <2>1 DEF Jobs, Trusted!Busy
    <2>3. Trusted!Idle.forced = FALSE
      BY DEF Trusted!Idle
    <2> QED
      BY <2>2, <2>3, IdleIsAJob
  <1>2. Trusted!Ask(token, e) = IF Trusted!Fresh(e) THEN Trusted!Match(asking, kept[e].keys) ELSE asking
    BY DEF Trusted!Ask
  <1> HIDE DEF asking
  <1>3. CASE Trusted!Fresh(e)
    <2>1. Trusted!Ask(token, e) = Trusted!Match(asking, kept[e].keys) /\ kept[e] # None
      BY <1>2, <1>3 DEF Trusted!Fresh
    <2> QED
      BY <1>1, <2>1, MatchIs
  <1>4. CASE ~Trusted!Fresh(e)
    BY <1>1, <1>2, <1>4
  <1> QED
    BY <1>3, <1>4

LEMMA EntryOfIs ==
    ASSUME KeysInv, NEW iss \in Issuers, Trusted!Cached(iss) # {}
    PROVE  Trusted!EntryOf(iss) \in 1 .. entries /\ IsFor(Trusted!EntryOf(iss), iss)
  <1>1. PICK i \in DOMAIN cached : cached[i].iss = iss /\ Trusted!EntryOf(iss) = cached[i].id
    BY DEF Trusted!Cached, Trusted!EntryOf
  <1>2. cached[i] \in [iss : Issuers, id : Nat]
    <2>1. cached \in Seq([iss : Issuers, id : Nat]) /\ i \in 1 .. Len(cached)
      BY <1>1 DEF KeysInv, KeysTyped
    <2> QED
      BY <2>1, ElementOfSeq
  <1>3. cached[i] = [iss |-> iss, id |-> Trusted!EntryOf(iss)]
    BY <1>1, <1>2
  <1> QED
    BY <1>1, <1>3 DEF KeysInv, EntriesFit, IsFor

LEMMA MadeFits ==
    ASSUME KeysInv
    PROVE  entries <= MaxEntries /\ 1 .. entries \subseteq Trusted!Entries
  BY MakingIsFinite, KeysAssumption DEF KeysInv, KeysTyped, EntriesFit, Trusted!Entries

LEMMA KeysFirst == Trusted!Init => KeysInv
  <1> SUFFICES ASSUME Trusted!Init PROVE KeysInv
    OBVIOUS
  <1> USE DEF Trusted!Init
  <1>1. \A t \in Threads : job[t] = Trusted!Idle /\ job[t].pc = "idle"
    BY DEF Trusted!Idle
  <1>2. KeysTyped
    BY IdleIsAJob DEF KeysTyped
  <1>3. EntriesFit
    <2>1. Making = {}
      BY <1>1 DEF Making
    <2> QED
      BY <1>1, <2>1, FS_EmptySet, KeysAssumption DEF EntriesFit, Holds, Trusted!Entries
  <1>4. OneIssuerEach
    BY <1>1 DEF OneIssuerEach, IsFor, Holds
  <1>5. InDate /\ AnswersAreWhole /\ MissesAreFew /\ Trusted!OneForcedFetch /\ Trusted!FindsPublishedKeys
    BY <1>1 DEF InDate, AnswersAreWhole, MissesAreFew, Trusted!OneForcedFetch, Trusted!FindsPublishedKeys, Fetches
  <1>6. SetsAreWhole /\ SetsAreRecent
    BY DEF SetsAreWhole, SetsAreRecent
  <1> QED
    BY <1>2, <1>3, <1>4, <1>5, <1>6 DEF KeysInv

-----------------------------------------------------------------------------
(* A step of one thread. *)
Turns(t) == job' \in [Threads -> Jobs] /\ \A u \in Threads \ {t} : job'[u] = job[u]

LEMMA JobTurns ==
    ASSUME KeysTyped, NEW t \in Threads, NEW j \in Jobs, job' = [job EXCEPT ![t] = j]
    PROVE  Turns(t) /\ job'[t] = j
  BY DEF KeysTyped, Turns

(* Who makes an entry is one less, one more, or the same. *)
LEMMA MakingTurns ==
    ASSUME NEW t \in Threads, Turns(t)
    PROVE  /\ (job[t].pc = "making") = (job'[t].pc = "making") =>
                  Cardinality(Making') = Cardinality(Making)
           /\ job[t].pc # "making" /\ job'[t].pc = "making" =>
                  Cardinality(Making') = Cardinality(Making) + 1
           /\ job[t].pc = "making" /\ job'[t].pc # "making" =>
                  Cardinality(Making') = Cardinality(Making) - 1
  <1> USE DEF Turns, Making
  <1>1. IsFiniteSet(Making) /\ Cardinality(Making) \in Nat
    BY MakingIsFinite
  <1>2. CASE (job[t].pc = "making") = (job'[t].pc = "making")
    <2>1. Making' = Making
      BY <1>2
    <2> QED
      BY <1>2, <2>1
  <1>3. CASE job[t].pc # "making" /\ job'[t].pc = "making"
    <2>1. Making' = Making \cup {t} /\ t \notin Making
      BY <1>3
    <2> HIDE DEF Making
    <2> QED
      BY <1>1, <1>3, <2>1, FS_AddElement
  <1>4. CASE job[t].pc = "making" /\ job'[t].pc # "making"
    <2>1. Making' = Making \ {t} /\ t \in Making
      BY <1>4
    <2> HIDE DEF Making
    <2> QED
      BY <1>1, <1>4, <2>1, FS_RemoveElement
  <1> QED
    BY <1>2, <1>3, <1>4

LEMMA TokensAreTokens ==
    Trusted!Tokens \subseteq TokenSet
  BY KeysAssumption DEF Trusted!Tokens, TokenSet

(* A lookup that asks for a set, waits to make an entry, or ends at once. *)
Finds(t, token) ==
    /\ Turns(t) /\ UNCHANGED <<date, offAt, cached, forcedAt, kept, entries, fails>>
    /\ job[t].pc \notin {"missed", "fetching", "answered"}
    /\ \/ /\ job'[t].pc \in {"accepted", "missed", "fetching"} /\ job'[t].token = token
          /\ job'[t].pc # "accepted" =>
                 job'[t].entry \in 1 .. entries /\ IsFor(job'[t].entry, token.iss) /\ ~job'[t].forced
          /\ job'[t].pc = "fetching" => job'[t].begun = date
          /\ job'[t].pc = "missed" =>
                 kept[job'[t].entry] # None /\ token.key \notin kept[job'[t].entry].keys
       \/ /\ job[t].pc # "making" /\ job'[t].pc = "making" /\ job'[t].token = token
          /\ entries + Cardinality(Making) < MaxEntries
       \/ job'[t].pc = "idle"

(* A set that misses a published key is old, or not recent. *)
LEMMA SetsMissLittle ==
    ASSUME KeysInv, NEW e \in 1 .. entries, NEW iss \in Issuers, NEW k \in Trusted!Published(iss),
           IsFor(e, iss), Trusted!IsOn(iss), kept[e] # None, k \notin kept[e].keys,
           date >= k.from + MaxDelay + MinForced
    PROVE  Trusted!Allowed(e) \/ date <= forcedAt[e] + MaxDelay
  <1>1. KeysTyped /\ e \in Trusted!Entries /\ k.from \in Nat
    BY MadeFits, KeysAssumption DEF KeysInv, Trusted!Published
  <1>2. kept[e].at \in Nat /\ forcedAt[e] \in Nat /\ date \in Nat
    BY <1>1 DEF KeysTyped, KeySets
  <1>3. ~(k.from + MaxDelay <= kept[e].at)
    BY <1>1 DEF KeysInv, SetsAreWhole
  <1>4. CASE kept[e].at >= forcedAt[e]
    BY <1>1, <1>2, <1>3, <1>4, KeysAssumption DEF Trusted!Allowed
  <1>5. CASE \E t \in Threads : Fetches(t) /\ job[t].entry = e /\ job[t].begun = forcedAt[e]
    BY <1>5 DEF KeysInv, InDate
  <1> QED
    BY <1>1, <1>4, <1>5 DEF KeysInv, SetsAreRecent

LEMMA FindsStep ==
    ASSUME KeysInv, NEW t \in Threads, NEW token \in TokenSet, Finds(t, token)
    PROVE  KeysInv'
  <1>1. /\ KeysTyped /\ UNCHANGED <<date, offAt, cached, forcedAt, kept, entries, fails>>
        /\ job[t].pc \notin {"missed", "fetching", "answered"}
        /\ token.iss \in Issuers /\ token.key \in Keys \cup {None}
    BY DEF KeysInv, Finds, TokenSet
  <1>2. PICK j \in Jobs : j = job'[t]
    BY DEF Finds, Turns
  <1>3. /\ \/ /\ j.pc \in {"accepted", "missed", "fetching"} /\ j.token = token
              /\ j.pc # "accepted" => j.entry \in 1 .. entries /\ IsFor(j.entry, token.iss) /\ ~j.forced
              /\ j.pc = "fetching" => j.begun = date
              /\ j.pc = "missed" => kept[j.entry] # None /\ token.key \notin kept[j.entry].keys
           \/ /\ job[t].pc # "making" /\ j.pc = "making" /\ j.token = token
              /\ entries + Cardinality(Making) < MaxEntries
           \/ j.pc = "idle"
    BY <1>2 DEF Finds
  <1>4. Turns(t) /\ job'[t] = j
    BY <1>2 DEF Finds
  <1>5. KeysTyped'
    BY <1>1, <1>4 DEF KeysTyped, Turns
  <1>6. EntriesFit'
    <2>1. entries' + Cardinality(Making') <= MaxEntries
      <3>1. Cardinality(Making) \in Nat
        BY MakingIsFinite
      <3>2. \/ Cardinality(Making') \in {Cardinality(Making), Cardinality(Making) - 1}
            \/ Cardinality(Making') = Cardinality(Making) + 1 /\ entries + Cardinality(Making) < MaxEntries
        BY <1>3, <1>4, MakingTurns
      <3> QED
        BY <1>1, <3>1, <3>2, KeysAssumption DEF KeysInv, EntriesFit, KeysTyped
    <2> QED
      BY <1>1, <1>3, <1>4, <2>1 DEF KeysInv, EntriesFit, Holds, Turns
  <1>7. \A e, iss : IsFor(e, iss)' => IsFor(e, iss)
    BY <1>1, <1>3, <1>4 DEF IsFor, Holds, Turns
  <1>8. OneIssuerEach'
    BY <1>7 DEF KeysInv, OneIssuerEach, Trusted!Entries
  <1>9. InDate'
    <2>1. j.pc \in {"fetching", "answered"} => ~j.forced /\ j.begun = date
      BY <1>3
    <2>2. date \in Nat /\ date <= date + MaxDelay
      BY <1>1, KeysAssumption DEF KeysTyped
    <2> QED
      BY <1>1, <1>4, <2>1, <2>2 DEF KeysInv, InDate, Fetches, Turns
  <1>10. \A iss : Trusted!Published(iss)' = Trusted!Published(iss) /\ Trusted!IsOn(iss)' = Trusted!IsOn(iss)
    BY <1>1 DEF Trusted!Published, Trusted!IsOn
  <1>11. AnswersAreWhole'
    BY <1>1, <1>3, <1>4, <1>10 DEF KeysInv, AnswersAreWhole, Turns, Trusted!IsOn, Trusted!Published
  <1>12. SetsAreWhole'
    BY <1>1, <1>7, <1>10 DEF KeysInv, SetsAreWhole, Trusted!IsOn, Trusted!Published
  <1>13. SetsAreRecent'
    BY <1>1, <1>4 DEF KeysInv, SetsAreRecent, Fetches, Turns, Trusted!Busy
  <1>14. MissesAreFew'
    <2> SUFFICES ASSUME NEW u \in Threads, job'[u].pc = "missed", Findable(u)'
                 PROVE  \/ ~job'[u].forced /\ Trusted!Allowed(job'[u].entry)
                        \/ date <= forcedAt[job'[u].entry] + MaxDelay
      BY <1>1 DEF MissesAreFew, Trusted!Allowed
    <2>1. CASE u # t
      <3>1. job'[u] = job[u]
        BY <1>4, <2>1 DEF Turns
      <3>2. Findable(u)
        BY <1>1, <1>10, <3>1 DEF Findable, Trusted!IsOn, Trusted!Published
      <3> QED
        BY <3>1, <3>2 DEF KeysInv, MissesAreFew
    <2>2. CASE u = t
      <3>1. /\ j.pc = "missed" /\ j.entry \in 1 .. entries /\ IsFor(j.entry, token.iss) /\ ~j.forced
            /\ kept[j.entry] # None /\ token.key \notin kept[j.entry].keys /\ j.token = token
        BY <1>3, <1>4, <2>2
      <3>2. /\ token.key # None /\ Trusted!IsOn(token.iss) /\ date >= token.key.from + MaxDelay + MinForced
            /\ token.key \in Trusted!Published(token.iss)
        BY <1>1, <1>4, <2>2, <3>1 DEF Findable, Trusted!IsOn, Trusted!Published
      <3> QED
        BY <1>1, <1>4, <2>2, <3>1, <3>2, SetsMissLittle
    <2> QED
      BY <2>1, <2>2
  <1>15. Trusted!OneForcedFetch'
    BY <1>3, <1>4 DEF KeysInv, Trusted!OneForcedFetch, Turns
  <1>16. Trusted!FindsPublishedKeys'
    BY <1>1, <1>3, <1>4 DEF KeysInv, Trusted!FindsPublishedKeys, Turns, Trusted!IsOn, Trusted!Published
  <1> QED
    BY <1>5, <1>6, <1>8, <1>9, <1>11, <1>12, <1>13, <1>14, <1>15, <1>16 DEF KeysInv

LEMMA LookupFinds ==
    ASSUME KeysInv, NEW t \in Threads, NEW token \in TokenSet, Trusted!Lookup(t, token)
    PROVE  Finds(t, token)
  <1>1. /\ KeysTyped /\ UNCHANGED <<date, offAt, cached, forcedAt, kept, entries, fails>>
        /\ job[t].pc \notin Trusted!Busy /\ token.iss \in Issuers
    BY DEF KeysInv, Trusted!Lookup, TokenSet
  <1> DEFINE j == IF Trusted!Cached(token.iss) # {} THEN Trusted!Ask(token, Trusted!EntryOf(token.iss))
                  ELSE IF Trusted!IsOn(token.iss) THEN [Trusted!Idle EXCEPT !.token = token, !.pc = "making"] ELSE Trusted!Idle
  <1>2. job' = [job EXCEPT ![t] = j]
    BY DEF Trusted!Lookup
  <1>3. /\ j \in Jobs
        /\ \/ /\ j.pc \in {"accepted", "missed", "fetching"} /\ j.token = token
              /\ j.pc # "accepted" => j.entry \in 1 .. entries /\ IsFor(j.entry, token.iss) /\ ~j.forced
              /\ j.pc = "fetching" => j.begun = date
              /\ j.pc = "missed" => kept[j.entry] # None /\ token.key \notin kept[j.entry].keys
           \/ j.pc = "making" /\ j.token = token /\ entries + Cardinality(Making) < MaxEntries
           \/ j.pc = "idle"
    <2>1. CASE Trusted!Cached(token.iss) # {}
      <3>1. Trusted!EntryOf(token.iss) \in 1 .. entries /\ IsFor(Trusted!EntryOf(token.iss), token.iss)
        BY <1>1, <2>1, EntryOfIs
      <3>2. Trusted!EntryOf(token.iss) \in Trusted!Entries
        BY <3>1, MadeFits
      <3>3. j = Trusted!Ask(token, Trusted!EntryOf(token.iss))
        BY <2>1
      <3> HIDE DEF j
      <3> QED
        BY <1>1, <3>1, <3>2, <3>3, AskIs
    <2>2. CASE Trusted!Cached(token.iss) = {} /\ Trusted!IsOn(token.iss)
      <3>1. j = [Trusted!Idle EXCEPT !.token = token, !.pc = "making"]
        BY <2>2
      <3>2. \A i \in Jobs : LET making == [i EXCEPT !.token = token, !.pc = "making"]
                            IN  making \in Jobs /\ making.pc = "making" /\ making.token = token
        BY DEF Jobs, Trusted!Busy
      <3>3. entries + Cardinality(Making) < MaxEntries
        BY <2>2, SameCardinality DEF Trusted!Lookup, Making
      <3> HIDE DEF j
      <3> QED
        BY <3>1, <3>2, <3>3, IdleIsAJob
    <2>3. CASE Trusted!Cached(token.iss) = {} /\ ~Trusted!IsOn(token.iss)
      <3>1. j = Trusted!Idle
        BY <2>3
      <3> HIDE DEF j
      <3> QED
        BY <3>1, IdleIsAJob DEF Trusted!Idle
    <2> QED
      BY <2>1, <2>2, <2>3
  <1> HIDE DEF j
  <1> QED
    <2>1. Turns(t) /\ job'[t] = j
      BY <1>1, <1>2, <1>3, JobTurns
    <2>2. job[t].pc \notin {"missed", "fetching", "answered", "making"}
      BY <1>1 DEF Trusted!Busy
    <2> QED
      BY <1>1, <1>3, <2>1, <2>2 DEF Finds

(* The entry was made by another thread, or is made now: nobody holds it yet. *)
LEMMA CreateStep ==
    ASSUME KeysInv, NEW t \in Threads, Trusted!GetOrCreate(t)
    PROVE  KeysInv'
  <1>1. KeysTyped /\ job[t].pc = "making" /\ job[t].token \in TokenSet
    BY DEF KeysInv, EntriesFit, Trusted!GetOrCreate
  <1>2. PICK token \in TokenSet : token = job[t].token
    BY <1>1
  <1>3. token.iss \in Issuers /\ token.key \in Keys \cup {None}
    BY DEF TokenSet
  <1>4. CASE Trusted!Cached(token.iss) # {}
    <2>1. PICK e \in 1 .. entries : e = Trusted!EntryOf(token.iss) /\ IsFor(e, token.iss)
      BY <1>3, <1>4, EntryOfIs
    <2>2. e \in Trusted!Entries
      BY MadeFits
    <2>3. job' = [job EXCEPT ![t] = Trusted!Ask(token, e)] /\ UNCHANGED <<date, offAt, cached, forcedAt, kept, entries, fails>>
      BY <1>2, <1>4, <2>1 DEF Trusted!GetOrCreate
    <2>4. Turns(t) /\ job'[t] = Trusted!Ask(token, e)
      BY <1>1, <2>2, <2>3, AskIs, JobTurns
    <2>5. Finds(t, token)
      BY <1>1, <2>1, <2>2, <2>3, <2>4, AskIs DEF Finds
    <2> QED
      BY <2>5, FindsStep
  <1>5. CASE Trusted!Cached(token.iss) = {}
    <2> DEFINE line == [iss |-> token.iss, id |-> entries + 1]
               more == Append(cached, line)
    <2>1. /\ entries' = entries + 1 /\ UNCHANGED <<date, offAt, kept, fails>>
          /\ cached' = IF Len(more) > MaxIssuers THEN Tail(more) ELSE more
          /\ forcedAt' = [forcedAt EXCEPT ![entries + 1] = date]
          /\ job' = [job EXCEPT ![t] = Trusted!Ask(token, entries + 1)]
      BY <1>2, <1>5 DEF Trusted!GetOrCreate
    <2>2. entries + 1 \in Trusted!Entries /\ entries + 1 <= MaxEntries
      <3>1. t \in Making
        BY <1>1 DEF Making
      <3>2. Cardinality(Making) # 0
        BY <3>1, MakingIsFinite, FS_EmptySet
      <3> QED
        BY <1>1, <3>2, MakingIsFinite, KeysAssumption DEF KeysInv, EntriesFit, KeysTyped, Trusted!Entries
    <2>3. kept[entries + 1] = None
      BY <1>1, <2>2 DEF KeysInv, EntriesFit, KeysTyped
    <2>4. PICK j \in Jobs : j = Trusted!Ask(token, entries + 1)
      BY <1>1, <2>2, AskIs
    <2>5. /\ j.token = token /\ j.pc \in {"accepted", "fetching"}
          /\ j.pc = "fetching" => j.entry = entries + 1 /\ ~j.forced /\ j.begun = date
      BY <1>1, <2>2, <2>3, <2>4, AskIs
    <2>6. Turns(t) /\ job'[t] = j
      BY <1>1, <2>1, <2>4, JobTurns
    <2>7. line \in [iss : Issuers, id : Nat]
      BY <1>1, <1>3 DEF KeysTyped
    <2>8. /\ cached' \in Seq([iss : Issuers, id : Nat])
          /\ \A i \in DOMAIN cached' : cached'[i] = line \/ \E k \in DOMAIN cached : cached'[i] = cached[k]
      <3> HIDE DEF line
      <3>1. /\ more \in Seq([iss : Issuers, id : Nat]) /\ Len(more) = Len(cached) + 1
            /\ \A i \in 1 .. Len(more) : more[i] = IF i = Len(cached) + 1 THEN line ELSE cached[i]
        BY <1>1, <2>7 DEF KeysTyped
      <3>2. cached \in Seq([iss : Issuers, id : Nat]) /\ DOMAIN cached = 1 .. Len(cached) /\ Len(cached) \in Nat
        BY <1>1 DEF KeysTyped
      <3> HIDE DEF more
      <3>3. \A i \in 1 .. Len(more) : more[i] = line \/ \E k \in DOMAIN cached : more[i] = cached[k]
        BY <3>1, <3>2
      <3>4. /\ Tail(more) \in Seq([iss : Issuers, id : Nat]) /\ Len(Tail(more)) = Len(more) - 1
            /\ \A i \in 1 .. Len(Tail(more)) : Tail(more)[i] = more[i + 1]
        BY <3>1, <3>2
      <3>5. CASE cached' = more
        BY <3>1, <3>3, <3>5
      <3>6. CASE cached' = Tail(more)
        <4>1. \A i \in 1 .. Len(Tail(more)) : i + 1 \in 1 .. Len(more)
          BY <3>1, <3>2, <3>4
        <4> QED
          BY <3>3, <3>4, <3>6, <4>1
      <3> QED
        BY <2>1, <3>5, <3>6
    <2>9. \A e, iss : IsFor(e, iss)' => IsFor(e, iss) \/ (e = entries + 1 /\ iss = token.iss)
      <3> SUFFICES ASSUME NEW e, NEW iss, IsFor(e, iss)'
                   PROVE  IsFor(e, iss) \/ (e = entries + 1 /\ iss = token.iss)
        OBVIOUS
      <3>1. CASE \E i \in DOMAIN cached' : cached'[i] = [iss |-> iss, id |-> e]
        BY <2>8, <3>1 DEF IsFor
      <3>2. CASE \E u \in Threads : Holds(u)' /\ job'[u].entry = e /\ job'[u].token.iss = iss
        BY <2>5, <2>6, <3>2 DEF IsFor, Holds, Turns
      <3> QED
        BY <3>1, <3>2 DEF IsFor
    <2>10. \A e, iss : IsFor(e, iss) => e \in 1 .. entries
      BY DEF KeysInv, EntriesFit, IsFor
    <2> HIDE DEF line, more
    <2>11. KeysTyped'
      BY <1>1, <2>1, <2>2, <2>6, <2>8 DEF KeysTyped, Turns
    <2>12. EntriesFit'
      <3>1. Cardinality(Making') = Cardinality(Making) - 1
        BY <1>1, <2>5, <2>6, MakingTurns
      <3>2. entries' + Cardinality(Making') <= MaxEntries
        BY <1>1, <2>1, <3>1, MakingIsFinite, KeysAssumption DEF KeysInv, EntriesFit, KeysTyped
      <3>3. 1 .. entries' = 1 .. entries \cup {entries + 1}
        BY <1>1, <2>1 DEF KeysTyped
      <3>4. \A i \in DOMAIN cached' : cached'[i].id \in 1 .. entries'
        BY <2>8, <3>3 DEF KeysInv, EntriesFit, line
      <3>5. \A u \in Threads : Holds(u)' => job'[u].entry \in 1 .. entries'
        BY <2>5, <2>6, <3>3 DEF KeysInv, EntriesFit, Holds, Turns
      <3>6. \A u \in Threads : Holds(u)' \/ job'[u].pc = "making" => job'[u].token \in TokenSet
        BY <2>5, <2>6 DEF KeysInv, EntriesFit, Holds, Turns
      <3>7. \A e \in Trusted!Entries : e > entries' => kept'[e] = None
        BY <1>1, <2>1 DEF KeysInv, EntriesFit, KeysTyped, Trusted!Entries
      <3> QED
        BY <3>2, <3>4, <3>5, <3>6, <3>7 DEF EntriesFit
    <2>13. OneIssuerEach'
      BY <1>1, <2>9, <2>10 DEF KeysInv, OneIssuerEach, Trusted!Entries, KeysTyped
    <2>14. /\ \A e \in Trusted!Entries : e # entries + 1 => forcedAt'[e] = forcedAt[e]
           /\ forcedAt'[entries + 1] = date
      BY <1>1, <2>1, <2>2 DEF KeysTyped
    <2>15. \A u \in Threads \ {t} : Holds(u) => job[u].entry # entries + 1
      BY <1>1 DEF KeysInv, EntriesFit, KeysTyped
    <2>16. InDate'
      <3>1. \A e \in Trusted!Entries : forcedAt'[e] <= date /\ (kept'[e] # None => kept'[e].at <= date)
        BY <1>1, <2>1, <2>14 DEF KeysInv, InDate, KeysTyped
      <3>2. \A u \in Threads \ {t} : Fetches(u) => job[u].entry \in Trusted!Entries
        BY MadeFits DEF KeysInv, EntriesFit, Holds, Fetches
      <3>3. \A u \in Threads \ {t} : Fetches(u)' =>
                /\ job'[u].begun <= date /\ date <= job'[u].begun + MaxDelay
                /\ job'[u].forced => job'[u].begun <= forcedAt'[job'[u].entry]
        BY <2>6, <2>14, <2>15, <3>2 DEF KeysInv, InDate, Fetches, Holds, Turns
      <3>4. Fetches(t)' =>
                /\ job'[t].begun <= date /\ date <= job'[t].begun + MaxDelay
                /\ job'[t].forced => job'[t].begun <= forcedAt'[job'[t].entry]
        BY <1>1, <2>5, <2>6, KeysAssumption DEF Fetches, KeysTyped
      <3> QED
        BY <2>1, <3>1, <3>3, <3>4 DEF InDate
    <2>17. \A iss : Trusted!Published(iss)' = Trusted!Published(iss) /\ Trusted!IsOn(iss)' = Trusted!IsOn(iss)
      BY <2>1 DEF Trusted!Published, Trusted!IsOn
    <2>18. AnswersAreWhole'
      BY <2>1, <2>5, <2>6, <2>17 DEF KeysInv, AnswersAreWhole, Turns, Trusted!IsOn, Trusted!Published
    <2>19. SetsAreWhole'
      BY <2>1, <2>3, <2>9, <2>17 DEF KeysInv, SetsAreWhole, Trusted!IsOn, Trusted!Published
    <2>20. SetsAreRecent'
      BY <1>1, <2>1, <2>3, <2>6, <2>14 DEF KeysInv, SetsAreRecent, Fetches, Turns
    <2>21. MissesAreFew'
      <3> SUFFICES ASSUME NEW u \in Threads, job'[u].pc = "missed", Findable(u)'
                   PROVE  \/ ~job'[u].forced /\ date >= forcedAt'[job'[u].entry] + MinForced
                          \/ date <= forcedAt'[job'[u].entry] + MaxDelay
        BY <2>1 DEF MissesAreFew, Trusted!Allowed
      <3>1. u # t /\ job'[u] = job[u]
        BY <2>5, <2>6 DEF Turns
      <3>2. Findable(u)
        BY <2>1, <2>17, <3>1 DEF Findable, Trusted!IsOn, Trusted!Published
      <3>3. job[u].entry \in Trusted!Entries /\ forcedAt'[job[u].entry] = forcedAt[job[u].entry]
        BY <2>14, <2>15, <3>1, MadeFits DEF KeysInv, EntriesFit, Holds
      <3> QED
        BY <2>1, <3>1, <3>2, <3>3 DEF KeysInv, MissesAreFew, Trusted!Allowed
    <2>22. Trusted!OneForcedFetch'
      BY <2>5, <2>6 DEF KeysInv, Trusted!OneForcedFetch, Turns
    <2>23. Trusted!FindsPublishedKeys'
      <3> SUFFICES ASSUME NEW u \in Threads, job'[u].pc = "refused", Findable(u)'
                   PROVE  date <= forcedAt'[job'[u].entry] + MaxDelay
        BY <2>1 DEF Trusted!FindsPublishedKeys, Findable
      <3>1. u # t /\ job'[u] = job[u]
        BY <2>5, <2>6 DEF Turns
      <3>2. Findable(u)
        BY <2>1, <2>17, <3>1 DEF Findable, Trusted!IsOn, Trusted!Published
      <3>3. job[u].entry \in Trusted!Entries /\ forcedAt'[job[u].entry] = forcedAt[job[u].entry]
        BY <2>14, <2>15, <3>1, MadeFits DEF KeysInv, EntriesFit, Holds
      <3> QED
        BY <3>1, <3>2, <3>3 DEF KeysInv, Trusted!FindsPublishedKeys, Findable
    <2> QED
      BY <2>11, <2>12, <2>13, <2>16, <2>18, <2>19, <2>20, <2>21, <2>22, <2>23 DEF KeysInv
  <1> QED
    BY <1>4, <1>5

LEMMA AnswerTurns ==
    ASSUME KeysTyped, NEW t \in Threads, NEW got \in (SUBSET Keys) \cup {None},
           job' = [job EXCEPT ![t].pc = "answered", ![t].answer = got]
    PROVE  /\ Turns(t) /\ job'[t].pc = "answered" /\ job'[t].answer = got
           /\ job'[t].token = job[t].token /\ job'[t].entry = job[t].entry
           /\ job'[t].forced = job[t].forced /\ job'[t].begun = job[t].begun
  BY DEF KeysTyped, Turns, Jobs, Trusted!Busy

LEMMA ForceTurns ==
    ASSUME KeysTyped, NEW t \in Threads,
           job' = [job EXCEPT ![t].pc = "fetching", ![t].forced = TRUE, ![t].begun = date]
    PROVE  /\ Turns(t) /\ job'[t].pc = "fetching" /\ job'[t].forced /\ job'[t].begun = date
           /\ job'[t].token = job[t].token /\ job'[t].entry = job[t].entry
  BY ZenonT(60) DEF KeysTyped, Turns, Jobs, Trusted!Busy

LEMMA RefuseTurns ==
    ASSUME KeysTyped, NEW t \in Threads,
           job' = [job EXCEPT ![t].pc = "refused", ![t].forced = FALSE]
    PROVE  /\ Turns(t) /\ job'[t].pc = "refused" /\ ~job'[t].forced
           /\ job'[t].token = job[t].token /\ job'[t].entry = job[t].entry
  BY ZenonT(60) DEF KeysTyped, Turns, Jobs

(* A step of a thread that holds an entry before and maybe after. *)
LEMMA HolderSteps ==
    ASSUME KeysInv, NEW t \in Threads, Turns(t), Holds(t),
           job'[t].pc \in {"missed", "fetching", "answered", "refused", "accepted"},
           job'[t].pc # "accepted" => job'[t].token = job[t].token /\ job'[t].entry = job[t].entry,
           UNCHANGED <<date, offAt, cached, entries>>, fails' \in Nat, fails' >= fails,
           forcedAt' \in [Trusted!Entries -> Nat], kept' \in [Trusted!Entries -> KeySets \cup {None}],
           \A e \in Trusted!Entries : e > entries => kept'[e] = None
    PROVE  /\ KeysTyped' /\ EntriesFit' /\ OneIssuerEach'
           /\ \A e, iss : IsFor(e, iss)' => IsFor(e, iss)
           /\ \A iss : Trusted!Published(iss)' = Trusted!Published(iss) /\ Trusted!IsOn(iss)' = Trusted!IsOn(iss)
           /\ \A u \in Threads \ {t} : Findable(u)' => Findable(u)
  <1>1. KeysTyped'
    BY DEF KeysInv, KeysTyped, Turns
  <1>2. EntriesFit'
    <2>1. Cardinality(Making') = Cardinality(Making)
      BY MakingTurns DEF Holds
    <2> QED
      BY <2>1 DEF KeysInv, EntriesFit, Holds, Turns
  <1>3. \A e, iss : IsFor(e, iss)' => IsFor(e, iss)
    BY DEF IsFor, Holds, Turns
  <1>4. OneIssuerEach'
    BY <1>3 DEF KeysInv, OneIssuerEach, Trusted!Entries
  <1>5. \A iss : Trusted!Published(iss)' = Trusted!Published(iss) /\ Trusted!IsOn(iss)' = Trusted!IsOn(iss)
    BY DEF Trusted!Published, Trusted!IsOn
  <1>6. \A u \in Threads \ {t} : Findable(u)' => Findable(u)
    BY DEF Findable, Trusted!Published, Trusted!IsOn, Turns, KeysInv, KeysTyped
  <1> QED
    BY <1>1, <1>2, <1>3, <1>4, <1>5, <1>6

(* The endpoint answers, or the answer gets lost. *)
LEMMA AnswerStep ==
    ASSUME KeysInv, NEW t \in Threads, Trusted!Serve(t) \/ Trusted!LoseAnswer(t)
    PROVE  KeysInv'
  <1>1. KeysTyped /\ job[t].pc = "fetching" /\ job[t] \in Jobs
    BY DEF KeysInv, KeysTyped, Trusted!Serve, Trusted!LoseAnswer
  <1>2. /\ UNCHANGED <<date, offAt, cached, forcedAt, kept, entries>>
        /\ fails' \in Nat /\ fails' >= fails
    BY <1>1 DEF Trusted!Serve, Trusted!LoseAnswer, KeysTyped
  <1>3. PICK got \in (SUBSET Keys) \cup {None} :
            /\ job' = [job EXCEPT ![t].pc = "answered", ![t].answer = got]
            /\ fails' = 0 /\ Trusted!IsOn(job[t].token.iss) => got # None
            /\ got = None \/ got = Trusted!Published(job[t].token.iss)
    <2>1. CASE Trusted!Serve(t)
      <3>1. PICK set \in SUBSET Keys : set = Trusted!Published(job[t].token.iss)
        BY DEF Trusted!Published
      <3>2. PICK got \in (SUBSET Keys) \cup {None} :
                got = IF Trusted!IsOn(job[t].token.iss) THEN set ELSE None
        OBVIOUS
      <3>3. job' = [job EXCEPT ![t].pc = "answered", ![t].answer = got]
        BY <2>1, <3>1, <3>2, Zenon DEF Trusted!Serve
      <3>4. Trusted!IsOn(job[t].token.iss) => got # None
        BY <3>2, KeysAssumption
      <3> QED
        BY <3>1, <3>2, <3>3, <3>4
    <2>2. CASE Trusted!LoseAnswer(t)
      <3>1. fails' # 0
        BY <1>1, <2>2 DEF Trusted!LoseAnswer, KeysTyped
      <3>2. PICK got \in (SUBSET Keys) \cup {None} : got = None
        OBVIOUS
      <3>3. job' = [job EXCEPT ![t].pc = "answered", ![t].answer = got]
        BY <2>2, <3>2, Zenon DEF Trusted!LoseAnswer
      <3> QED
        BY <3>1, <3>2, <3>3
    <2> QED
      BY <2>1, <2>2
  <1>4. PICK j \in Jobs : j = job'[t]
    BY <1>1, <1>3, AnswerTurns DEF Turns
  <1>5. /\ j.pc = "answered" /\ j.answer = got /\ j.token = job[t].token
        /\ j.entry = job[t].entry /\ j.forced = job[t].forced /\ j.begun = job[t].begun
    BY <1>1, <1>3, <1>4, AnswerTurns
  <1>6. Turns(t) /\ job'[t] = j
    BY <1>1, <1>3, <1>4, AnswerTurns
  <1>7. /\ KeysTyped' /\ EntriesFit' /\ OneIssuerEach'
        /\ \A e, iss : IsFor(e, iss)' => IsFor(e, iss)
        /\ \A iss : Trusted!Published(iss)' = Trusted!Published(iss) /\ Trusted!IsOn(iss)' = Trusted!IsOn(iss)
        /\ \A u \in Threads \ {t} : Findable(u)' => Findable(u)
    <2>1. Holds(t)
      BY <1>1 DEF Holds
    <2> QED
      BY <1>1, <1>2, <1>5, <1>6, <2>1, HolderSteps DEF KeysInv, EntriesFit, KeysTyped
  <1>8. InDate'
    BY <1>1, <1>2, <1>5, <1>6 DEF KeysInv, InDate, Fetches, Turns
  <1>9. AnswersAreWhole'
    <2> SUFFICES ASSUME NEW u \in Threads, job'[u].pc = "answered", Trusted!IsOn(job'[u].token.iss)
                 PROVE  /\ fails' = 0 => job'[u].answer # None
                        /\ job'[u].answer # None => \A k \in Trusted!Published(job'[u].token.iss) :
                               k.from <= job'[u].begun => k \in job'[u].answer
      BY <1>2 DEF AnswersAreWhole, Trusted!IsOn, Trusted!Published
    <2>1. CASE u # t
      <3>1. job'[u] = job[u] /\ (fails' = 0 => fails = 0)
        BY <1>1, <1>2, <1>6, <2>1 DEF Turns, KeysTyped
      <3> QED
        BY <3>1 DEF KeysInv, AnswersAreWhole
    <2>2. CASE u = t
      BY <1>3, <1>5, <1>6, <2>2
    <2> QED
      BY <2>1, <2>2
  <1>10. SetsAreWhole'
    BY <1>2, <1>7 DEF KeysInv, SetsAreWhole, Trusted!IsOn, Trusted!Published
  <1>11. SetsAreRecent'
    BY <1>1, <1>2, <1>5, <1>6 DEF KeysInv, SetsAreRecent, Fetches, Turns
  <1>12. MissesAreFew' /\ Trusted!FindsPublishedKeys'
    <2>1. MissesAreFew'
      BY <1>2, <1>5, <1>6, <1>7 DEF KeysInv, MissesAreFew, Trusted!Allowed, Turns
    <2>2. \A u \in Threads : job'[u].pc = "refused" /\ Findable(u)' =>
              date <= forcedAt[job'[u].entry] + MaxDelay
      BY <1>5, <1>6, <1>7 DEF KeysInv, Trusted!FindsPublishedKeys, Findable, Turns
    <2> QED
      BY <1>2, <2>1, <2>2 DEF Trusted!FindsPublishedKeys, Findable
  <1>13. Trusted!OneForcedFetch'
    BY <1>1, <1>5, <1>6 DEF KeysInv, Trusted!OneForcedFetch, Turns
  <1> QED
    BY <1>7, <1>8, <1>9, <1>10, <1>11, <1>12, <1>13 DEF KeysInv
(* The answer is kept, and looked into. *)
LEMMA EndFetchStep ==
    ASSUME KeysInv, NEW t \in Threads, Trusted!EndFetch(t)
    PROVE  KeysInv'
  <1>1. /\ KeysTyped /\ job[t].pc = "answered" /\ job[t] \in Jobs
        /\ UNCHANGED <<date, offAt, cached, forcedAt, entries, fails>>
    BY DEF KeysInv, KeysTyped, Trusted!EndFetch
  <1>2. /\ job[t].entry \in 1 .. entries /\ job[t].entry \in Trusted!Entries /\ job[t].token \in TokenSet
        /\ Holds(t) /\ IsFor(job[t].entry, job[t].token.iss)
    BY <1>1, MadeFits DEF KeysInv, EntriesFit, Holds, IsFor
  <1>3. PICK e \in 1 .. entries, token \in TokenSet, got \in (SUBSET Keys) \cup {None} :
            e = job[t].entry /\ token = job[t].token /\ got = job[t].answer
    BY <1>1, <1>2 DEF Jobs
  <1>4. e \in Trusted!Entries /\ token.iss \in Issuers /\ token.key \in Keys \cup {None}
    BY <1>2, <1>3 DEF TokenSet
  <1> DEFINE set == IF got = None THEN {} ELSE got
             keeps == IF got = None THEN None ELSE [keys |-> got, at |-> date]
  <1>5. PICK j \in Jobs : j = Trusted!Match(job[t], set)
    BY <1>1, <1>2, MatchIs
  <1>6. /\ j.pc = "accepted" \/ (j.pc = "missed" /\ token.key \notin set)
        /\ j.pc = "missed" => j.entry = e /\ j.forced = job[t].forced /\ j.token = token
    BY <1>1, <1>2, <1>3, <1>5, MatchIs
  <1>7. job' = [job EXCEPT ![t] = j] /\ kept' = [kept EXCEPT ![e] = keeps]
    BY <1>3, <1>5 DEF Trusted!EndFetch
  <1>8. keeps \in KeySets \cup {None} /\ (keeps # None => keeps.keys = got /\ keeps.at = date)
    BY <1>1 DEF KeysTyped, KeySets
  <1>9. Turns(t) /\ job'[t] = j
    BY <1>1, <1>7, JobTurns
  <1>10. /\ kept' \in [Trusted!Entries -> KeySets \cup {None}] /\ kept'[e] = keeps
         /\ \A d \in Trusted!Entries \ {e} : kept'[d] = kept[d]
    BY <1>1, <1>4, <1>7, <1>8 DEF KeysTyped
  <1> HIDE DEF set, keeps
  <1>11. \A d \in Trusted!Entries : d > entries => kept'[d] = None
    BY <1>1, <1>10 DEF KeysInv, EntriesFit, KeysTyped
  <1>12. /\ KeysTyped' /\ EntriesFit' /\ OneIssuerEach'
         /\ \A d, iss : IsFor(d, iss)' => IsFor(d, iss)
         /\ \A iss : Trusted!Published(iss)' = Trusted!Published(iss) /\ Trusted!IsOn(iss)' = Trusted!IsOn(iss)
         /\ \A u \in Threads \ {t} : Findable(u)' => Findable(u)
    <2>1. forcedAt' \in [Trusted!Entries -> Nat] /\ fails' \in Nat /\ fails' >= fails
      BY <1>1 DEF KeysTyped
    <2> QED
      BY <1>1, <1>2, <1>3, <1>6, <1>9, <1>10, <1>11, <2>1, HolderSteps
  <1>13. InDate'
    <2>1. \A d \in Trusted!Entries : forcedAt'[d] <= date /\ (kept'[d] # None => kept'[d].at <= date)
      BY <1>1, <1>8, <1>10, SMTT(60) DEF KeysInv, InDate, KeysTyped
    <2> QED
      BY <1>1, <1>6, <1>9, <2>1 DEF KeysInv, InDate, Fetches, Turns
  <1>14. AnswersAreWhole'
    BY <1>1, <1>6, <1>9, <1>12 DEF KeysInv, AnswersAreWhole, Turns, Trusted!IsOn, Trusted!Published
  (* What was published when the fetch began is in the answer. *)
  <1>15. Trusted!IsOn(token.iss) =>
             /\ fails = 0 => got # None
             /\ got # None => \A k \in Trusted!Published(token.iss) : k.from + MaxDelay <= date => k \in got
    <2> SUFFICES ASSUME Trusted!IsOn(token.iss)
                 PROVE  /\ fails = 0 => got # None
                        /\ got # None => \A k \in Trusted!Published(token.iss) : k.from + MaxDelay <= date => k \in got
      OBVIOUS
    <2>1. /\ fails = 0 => got # None
          /\ got # None => \A k \in Trusted!Published(token.iss) : k.from <= job[t].begun => k \in got
      BY <1>1, <1>3 DEF KeysInv, AnswersAreWhole
    <2>2. date <= job[t].begun + MaxDelay /\ job[t].begun \in Nat /\ date \in Nat
      BY <1>1 DEF KeysInv, InDate, Fetches, Jobs, KeysTyped
    <2>3. \A k \in Trusted!Published(token.iss) : k.from \in Nat
      BY KeysAssumption DEF Trusted!Published
    <2> QED
      BY <2>1, <2>2, <2>3, KeysAssumption
  <1>16. SetsAreWhole'
    <2> SUFFICES ASSUME NEW d \in Trusted!Entries, NEW iss \in Issuers, IsFor(d, iss), kept'[d] # None, Trusted!IsOn(iss),
                        NEW k \in Trusted!Published(iss), k.from + MaxDelay <= kept'[d].at
                 PROVE  k \in kept'[d].keys
      BY <1>12 DEF SetsAreWhole, Trusted!IsOn, Trusted!Published
    <2>1. CASE d # e
      BY <1>10, <2>1 DEF KeysInv, SetsAreWhole
    <2>2. CASE d = e
      <3>1. iss = token.iss
        BY <1>2, <1>3, <1>4, <2>2 DEF KeysInv, OneIssuerEach
      <3> QED
        BY <1>8, <1>10, <1>15, <2>2, <3>1 DEF keeps
    <2> QED
      BY <2>1, <2>2
  <1>17. SetsAreRecent'
    <2> SUFFICES ASSUME NEW d \in Trusted!Entries, kept'[d] # None
                 PROVE  \/ kept'[d].at >= forcedAt[d]
                        \/ \E u \in Threads : Fetches(u)' /\ job'[u].entry = d /\ job'[u].begun = forcedAt[d]
      BY <1>1 DEF SetsAreRecent
    <2>1. CASE d # e
      BY <1>3, <1>9, <1>10, <2>1 DEF KeysInv, SetsAreRecent, Fetches, Turns
    <2>2. CASE d = e
      <3>1. kept'[d].at = date
        BY <1>8, <1>10, <2>2
      <3> QED
        BY <1>1, <3>1 DEF KeysInv, InDate, KeysTyped
    <2> QED
      BY <2>1, <2>2
  <1>18. MissesAreFew'
    <2> SUFFICES ASSUME NEW u \in Threads, job'[u].pc = "missed", Findable(u)'
                 PROVE  \/ ~job'[u].forced /\ Trusted!Allowed(job'[u].entry)
                        \/ date <= forcedAt[job'[u].entry] + MaxDelay
      BY <1>1 DEF MissesAreFew, Trusted!Allowed
    <2>1. CASE u # t
      BY <1>9, <1>12, <2>1 DEF KeysInv, MissesAreFew, Turns
    <2>2. CASE u = t
      <3>1. /\ token.key # None /\ fails = 0 /\ Trusted!IsOn(token.iss) /\ token.key \notin set
            /\ date >= token.key.from + MaxDelay + MinForced /\ token.key \in Trusted!Published(token.iss)
        BY <1>1, <1>6, <1>9, <1>12, <2>2 DEF Findable, Trusted!IsOn, Trusted!Published
      <3>2. got # None /\ set = got
        BY <1>15, <3>1 DEF set
      <3>3. token.key.from \in Nat
        BY <3>1, KeysAssumption DEF Trusted!Published
      <3>4. token.key.from + MaxDelay <= date
        BY <1>1, <3>1, <3>3, KeysAssumption, SMTT(60) DEF KeysTyped
      <3> QED
        BY <1>15, <3>1, <3>2, <3>4
    <2> QED
      BY <2>1, <2>2
  <1>19. Trusted!OneForcedFetch'
    BY <1>6, <1>9 DEF KeysInv, Trusted!OneForcedFetch, Turns
  <1>20. Trusted!FindsPublishedKeys'
    <2>1. \A u \in Threads : job'[u].pc = "refused" /\ Findable(u)' =>
              date <= forcedAt[job'[u].entry] + MaxDelay
      BY <1>6, <1>9, <1>12 DEF KeysInv, Trusted!FindsPublishedKeys, Findable, Turns
    <2> QED
      BY <1>1, <2>1 DEF Trusted!FindsPublishedKeys, Findable
  <1> QED
    BY <1>12, <1>13, <1>14, <1>16, <1>17, <1>18, <1>19, <1>20 DEF KeysInv

(* A fetch is forced: it is the only one of its entry. *)
LEMMA ForceStep ==
    ASSUME KeysInv, NEW t \in Threads, Trusted!Force(t)
    PROVE  KeysInv'
  <1>1. /\ KeysTyped /\ job[t].pc = "missed" /\ UNCHANGED <<date, offAt, cached, kept, entries, fails>>
    BY DEF KeysInv, Trusted!Force
  <1>2. PICK e \in 1 .. entries : e = job[t].entry
    BY <1>1 DEF KeysInv, EntriesFit, Holds
  <1>3. e \in Trusted!Entries /\ Holds(t) /\ date >= forcedAt[e] + MinForced
    BY <1>1, <1>2, MadeFits DEF Holds, Trusted!Force, Trusted!Allowed
  <1>4. /\ Turns(t) /\ job'[t].pc = "fetching" /\ job'[t].forced /\ job'[t].begun = date
        /\ job'[t].token = job[t].token /\ job'[t].entry = e
    BY <1>1, <1>2, ForceTurns DEF Trusted!Force
  <1>5. /\ forcedAt' \in [Trusted!Entries -> Nat] /\ forcedAt'[e] = date
        /\ \A d \in Trusted!Entries \ {e} : forcedAt'[d] = forcedAt[d]
    BY <1>1, <1>2, <1>3 DEF Trusted!Force, KeysTyped
  <1>6. /\ KeysTyped' /\ EntriesFit' /\ OneIssuerEach'
        /\ \A d, iss : IsFor(d, iss)' => IsFor(d, iss)
        /\ \A iss : Trusted!Published(iss)' = Trusted!Published(iss) /\ Trusted!IsOn(iss)' = Trusted!IsOn(iss)
        /\ \A u \in Threads \ {t} : Findable(u)' => Findable(u)
    <2>1. /\ kept' \in [Trusted!Entries -> KeySets \cup {None}] /\ fails' \in Nat /\ fails' >= fails
          /\ \A d \in Trusted!Entries : d > entries => kept'[d] = None
      BY <1>1 DEF KeysInv, EntriesFit, KeysTyped
    <2> QED
      BY <1>1, <1>2, <1>3, <1>4, <1>5, <2>1, HolderSteps
  <1>7. \A u \in Threads : Holds(u) => job[u].entry \in Trusted!Entries
    BY MadeFits DEF KeysInv, EntriesFit
  <1>8. \A d \in Trusted!Entries : /\ forcedAt[d] <= forcedAt'[d] /\ forcedAt[d] \in Nat
                            /\ forcedAt'[d] <= date
    <2> SUFFICES ASSUME NEW d \in Trusted!Entries
                 PROVE  forcedAt[d] <= forcedAt'[d] /\ forcedAt[d] \in Nat /\ forcedAt'[d] <= date
      OBVIOUS
    <2>1. date \in Nat /\ forcedAt[d] \in Nat
      BY <1>1 DEF KeysTyped
    <2>2. forcedAt[d] <= date
      BY DEF KeysInv, InDate
    <2>3. CASE d = e
      BY <1>5, <2>1, <2>2, <2>3
    <2>4. CASE d # e
      BY <1>5, <2>1, <2>2, <2>4
    <2> QED
      BY <2>3, <2>4
  <1>9. InDate'
    <2>1. \A d \in Trusted!Entries : forcedAt'[d] <= date /\ (kept'[d] # None => kept'[d].at <= date)
      BY <1>1, <1>8 DEF KeysInv, InDate
    <2>2. \A u \in Threads \ {t} : Fetches(u)' =>
              /\ job'[u].begun <= date /\ date <= job'[u].begun + MaxDelay
              /\ job'[u].forced => job'[u].begun <= forcedAt'[job'[u].entry]
      <3> SUFFICES ASSUME NEW u \in Threads \ {t}, Fetches(u)
                   PROVE  /\ job[u].begun <= date /\ date <= job[u].begun + MaxDelay
                          /\ job[u].forced => job[u].begun <= forcedAt'[job[u].entry]
        BY <1>4 DEF Turns, Fetches
      <3>1. /\ job[u].begun <= date /\ date <= job[u].begun + MaxDelay
            /\ job[u].forced => job[u].begun <= forcedAt[job[u].entry]
        BY DEF KeysInv, InDate
      <3>2. job[u].entry \in Trusted!Entries /\ job[u].begun \in Nat
        BY <1>1, <1>7 DEF Fetches, Holds, KeysTyped, Jobs
      <3> QED
        BY <1>5, <1>8, <3>1, <3>2
    <2>3. /\ job'[t].begun <= date /\ date <= job'[t].begun + MaxDelay
          /\ job'[t].forced => job'[t].begun <= forcedAt'[job'[t].entry]
      BY <1>1, <1>4, <1>5, KeysAssumption DEF KeysTyped
    <2> QED
      BY <1>1, <2>1, <2>2, <2>3 DEF InDate
  <1>10. AnswersAreWhole'
    BY <1>1, <1>4, <1>6 DEF KeysInv, AnswersAreWhole, Turns, Trusted!IsOn, Trusted!Published
  <1>11. SetsAreWhole'
    BY <1>1, <1>6 DEF KeysInv, SetsAreWhole, Trusted!IsOn, Trusted!Published
  <1>12. SetsAreRecent'
    <2> SUFFICES ASSUME NEW d \in Trusted!Entries, kept[d] # None
                 PROVE  \/ kept[d].at >= forcedAt'[d]
                        \/ \E u \in Threads : Fetches(u)' /\ job'[u].entry = d /\ job'[u].begun = forcedAt'[d]
      BY <1>1 DEF SetsAreRecent
    <2>1. CASE d = e
      BY <1>4, <1>5, <2>1 DEF Fetches
    <2>2. CASE d # e
      BY <1>2, <1>4, <1>5, <2>2 DEF KeysInv, SetsAreRecent, Fetches, Turns
    <2> QED
      BY <2>1, <2>2
  <1>13. date <= date + MaxDelay
    BY <1>1, KeysAssumption DEF KeysTyped
  <1>14. MissesAreFew'
    <2> SUFFICES ASSUME NEW u \in Threads, job'[u].pc = "missed", Findable(u)'
                 PROVE  \/ ~job'[u].forced /\ date >= forcedAt'[job'[u].entry] + MinForced
                        \/ date <= forcedAt'[job'[u].entry] + MaxDelay
      BY <1>1 DEF MissesAreFew, Trusted!Allowed
    <2>1. u # t /\ job'[u] = job[u] /\ Findable(u) /\ job[u].entry \in Trusted!Entries
      BY <1>4, <1>6, <1>7 DEF Turns, Holds
    <2>2. CASE job[u].entry = e
      BY <1>5, <1>13, <2>1, <2>2
    <2>3. CASE job[u].entry # e
      BY <1>5, <2>1, <2>3 DEF KeysInv, MissesAreFew, Trusted!Allowed
    <2> QED
      BY <2>2, <2>3
  <1>15. Trusted!OneForcedFetch'
    <2>1. \A u \in Threads \ {t} : ~(job[u].forced /\ Fetches(u) /\ job[u].entry = e)
      <3> SUFFICES ASSUME NEW u \in Threads, job[u].forced, Fetches(u), job[u].entry = e
                   PROVE  FALSE
        OBVIOUS
      <3>1. job[u].begun <= forcedAt[e] /\ date <= job[u].begun + MaxDelay
        BY DEF KeysInv, InDate
      <3>2. job[u].begun \in Nat
        BY <1>1 DEF KeysTyped, Jobs
      <3> QED
        BY <1>1, <1>3, <1>8, <3>1, <3>2, KeysAssumption DEF KeysTyped
    <2> QED
      BY <1>4, <2>1 DEF KeysInv, Trusted!OneForcedFetch, Turns, Fetches
  <1>16. Trusted!FindsPublishedKeys'
    <2> SUFFICES ASSUME NEW u \in Threads, job'[u].pc = "refused", Findable(u)'
                 PROVE  date <= forcedAt'[job'[u].entry] + MaxDelay
      BY <1>1 DEF Trusted!FindsPublishedKeys, Findable
    <2>1. u # t /\ job'[u] = job[u] /\ Findable(u) /\ job[u].entry \in Trusted!Entries
      BY <1>4, <1>6, <1>7 DEF Turns, Holds
    <2>2. CASE job[u].entry = e
      BY <1>5, <1>13, <2>1, <2>2
    <2>3. CASE job[u].entry # e
      BY <1>5, <2>1, <2>3 DEF KeysInv, Trusted!FindsPublishedKeys, Findable
    <2> QED
      BY <2>2, <2>3
  <1> QED
    BY <1>6, <1>9, <1>10, <1>11, <1>12, <1>14, <1>15, <1>16 DEF KeysInv

(* What is refused was missed, and no fetch could be forced. *)
LEMMA RefuseStep ==
    ASSUME KeysInv, NEW t \in Threads, Trusted!Refuse(t)
    PROVE  KeysInv'
  <1>1. /\ KeysTyped /\ job[t].pc = "missed" /\ (job[t].forced \/ ~Trusted!Allowed(job[t].entry))
        /\ UNCHANGED <<date, offAt, cached, forcedAt, kept, entries, fails>>
    BY DEF KeysInv, Trusted!Refuse
  <1>2. /\ Turns(t) /\ job'[t].pc = "refused" /\ ~job'[t].forced
        /\ job'[t].token = job[t].token /\ job'[t].entry = job[t].entry
    BY <1>1, RefuseTurns DEF Trusted!Refuse
  <1>3. /\ KeysTyped' /\ EntriesFit' /\ OneIssuerEach'
        /\ \A d, iss : IsFor(d, iss)' => IsFor(d, iss)
        /\ \A iss : Trusted!Published(iss)' = Trusted!Published(iss) /\ Trusted!IsOn(iss)' = Trusted!IsOn(iss)
        /\ \A u \in Threads \ {t} : Findable(u)' => Findable(u)
    <2>1. Holds(t)
      BY <1>1 DEF Holds
    <2>2. /\ forcedAt' \in [Trusted!Entries -> Nat] /\ kept' \in [Trusted!Entries -> KeySets \cup {None}]
          /\ fails' \in Nat /\ fails' >= fails /\ \A d \in Trusted!Entries : d > entries => kept'[d] = None
      BY <1>1 DEF KeysInv, EntriesFit, KeysTyped
    <2> QED
      BY <1>1, <1>2, <2>1, <2>2, HolderSteps
  <1>4. Findable(t)' => Findable(t)
    BY <1>1, <1>2 DEF Findable, Trusted!IsOn, Trusted!Published
  <1>5. InDate' /\ AnswersAreWhole'
    BY <1>1, <1>2, <1>3 DEF KeysInv, InDate, AnswersAreWhole, Fetches, Turns, Trusted!IsOn, Trusted!Published
  <1>6. SetsAreWhole'
    BY <1>1, <1>3 DEF KeysInv, SetsAreWhole, Trusted!IsOn, Trusted!Published
  <1>7. SetsAreRecent'
    BY <1>1, <1>2 DEF KeysInv, SetsAreRecent, Fetches, Turns
  <1>8. MissesAreFew' /\ Trusted!OneForcedFetch'
    BY <1>1, <1>2, <1>3 DEF KeysInv, MissesAreFew, Trusted!OneForcedFetch, Trusted!Allowed, Turns
  <1>9. Trusted!FindsPublishedKeys'
    <2>1. \A u \in Threads \ {t} : job'[u].pc = "refused" /\ Findable(u)' =>
              date <= forcedAt[job'[u].entry] + MaxDelay
      BY <1>2, <1>3 DEF KeysInv, Trusted!FindsPublishedKeys, Findable, Turns
    <2>2. Findable(t)' => date <= forcedAt[job'[t].entry] + MaxDelay
      BY <1>1, <1>2, <1>4 DEF KeysInv, MissesAreFew
    <2> QED
      BY <1>1, <2>1, <2>2 DEF Trusted!FindsPublishedKeys, Findable
  <1> QED
    BY <1>3, <1>5, <1>6, <1>7, <1>8, <1>9 DEF KeysInv

(* A tenant is disabled: nothing is promised of its keys any more. *)
LEMMA DisableStep ==
    ASSUME KeysInv, NEW i \in Leavers, Trusted!Disable(i)
    PROVE  KeysInv'
  <1>1. /\ KeysTyped /\ i \in Issuers /\ UNCHANGED <<date, cached, forcedAt, kept, entries, job, fails>>
        /\ offAt' = [offAt EXCEPT ![i] = date]
    BY KeysAssumption DEF KeysInv, Trusted!Disable
  <1>2. KeysTyped'
    BY <1>1 DEF KeysTyped
  <1>3. \A iss \in Issuers : Trusted!IsOn(iss)' => Trusted!IsOn(iss)
    BY <1>1, KeysAssumption DEF Trusted!IsOn, KeysTyped
  <1>4. \A t \in Threads : Holds(t) => job[t].token.iss \in Issuers
    BY DEF KeysInv, EntriesFit, TokenSet
  <1>5. (EntriesFit /\ OneIssuerEach /\ InDate /\ SetsAreRecent /\ Trusted!OneForcedFetch)'
    BY <1>1 DEF KeysInv, EntriesFit, OneIssuerEach, InDate, SetsAreRecent, Trusted!OneForcedFetch, Making,
                Holds, Fetches, IsFor
  <1>6. AnswersAreWhole'
    BY <1>1, <1>3, <1>4 DEF KeysInv, AnswersAreWhole, Trusted!Published, Trusted!IsOn, Holds
  <1>7. SetsAreWhole'
    BY <1>1, <1>3 DEF KeysInv, SetsAreWhole, Trusted!Published, Trusted!IsOn, IsFor, Holds
  <1>8. \A t \in Threads : Holds(t) /\ Findable(t)' => Findable(t)
    BY <1>1, <1>3, <1>4 DEF Findable, Trusted!Published, Trusted!IsOn
  <1>9. MissesAreFew'
    BY <1>1, <1>8 DEF KeysInv, MissesAreFew, Trusted!Allowed, Holds
  <1>10. Trusted!FindsPublishedKeys'
    <2>1. \A t \in Threads : job[t].pc = "refused" /\ Findable(t)' => date <= forcedAt[job[t].entry] + MaxDelay
      BY <1>8 DEF KeysInv, Trusted!FindsPublishedKeys, Findable, Holds
    <2> QED
      BY <1>1, <2>1 DEF Trusted!FindsPublishedKeys, Findable
  <1> QED
    BY <1>2, <1>5, <1>6, <1>7, <1>9, <1>10 DEF KeysInv

(* A second passes: no fetch has lasted too long, and verdicts are forgotten. *)
LEMMA TickStep ==
    ASSUME KeysInv, Trusted!Tick
    PROVE  KeysInv'
  <1>1. /\ KeysTyped /\ date \in Nat /\ date' = date + 1
        /\ UNCHANGED <<offAt, cached, forcedAt, kept, entries, fails>>
        /\ \A t \in Threads :
             /\ job[t].pc # "making" /\ job[t].pc # "missed"
             /\ job[t].pc \in {"fetching", "answered"} => date < job[t].begun + MaxDelay
        /\ job' = [t \in Threads |-> IF job[t].pc \in {"fetching", "answered"} THEN job[t] ELSE Trusted!Idle]
    BY DEF KeysInv, KeysTyped, Trusted!Tick
  <1>2. \A t \in Threads :
          /\ Fetches(t) => job'[t] = job[t]
          /\ ~Fetches(t) => job'[t] = Trusted!Idle /\ job'[t].pc = "idle"
    BY <1>1 DEF Fetches, Trusted!Idle
  <1>3. /\ \A t \in Threads : Holds(t)' => Fetches(t) /\ Holds(t) /\ job'[t] = job[t]
        /\ \A t \in Threads : job'[t].pc \notin {"making", "missed", "refused"}
    BY <1>2 DEF Holds, Fetches
  <1>4. KeysTyped'
    <2>1. job' \in [Threads -> Jobs]
      BY <1>1, IdleIsAJob DEF KeysTyped
    <2> QED
      BY <1>1, <2>1 DEF KeysTyped
  <1>5. EntriesFit'
    <2>1. Making = {} /\ Making' = {}
      BY <1>1, <1>3 DEF Making
    <2>2. entries' + Cardinality(Making') <= MaxEntries
      BY <1>1, <2>1 DEF KeysInv, EntriesFit
    <2> QED
      BY <1>1, <1>3, <2>2 DEF KeysInv, EntriesFit
  <1>6. \A e, iss : IsFor(e, iss)' => IsFor(e, iss)
    BY <1>1, <1>3 DEF IsFor
  <1>7. OneIssuerEach'
    BY <1>6 DEF KeysInv, OneIssuerEach, Trusted!Entries
  <1>8. \A iss : Trusted!IsOn(iss)' = Trusted!IsOn(iss)
    BY <1>1 DEF Trusted!IsOn
  (* What is published now was published then, if it was there by then. *)
  <1>9. \A iss : \A k \in Trusted!Published(iss)' : k.from <= date => k \in Trusted!Published(iss)
    <2> SUFFICES ASSUME NEW iss, NEW k \in Trusted!Published(iss)', k.from <= date
                 PROVE  k \in Trusted!Published(iss)
      OBVIOUS
    <2>1. k \in Keys /\ k.iss = iss /\ date + 1 < k.until + Grace
      BY <1>1 DEF Trusted!Published
    <2>2. k.until + Grace \in Nat
      BY <2>1, KeysAssumption
    <2>3. date < k.until + Grace
      BY <1>1, <2>1, <2>2
    <2> QED
      BY <2>1, <2>3 DEF Trusted!Published
  <1>10. InDate'
    <2>1. \A e \in Trusted!Entries : forcedAt[e] <= date + 1 /\ (kept[e] # None => kept[e].at <= date + 1)
      <3> SUFFICES ASSUME NEW e \in Trusted!Entries
                   PROVE  forcedAt[e] <= date + 1 /\ (kept[e] # None => kept[e].at <= date + 1)
        OBVIOUS
      <3>1. forcedAt[e] \in Nat /\ (kept[e] # None => kept[e].at \in Nat)
        BY <1>1 DEF KeysTyped, KeySets
      <3>2. forcedAt[e] <= date /\ (kept[e] # None => kept[e].at <= date)
        BY DEF KeysInv, InDate
      <3> QED
        BY <1>1, <3>1, <3>2
    <2>2. \A t \in Threads : Fetches(t) =>
              /\ job[t].begun <= date + 1 /\ date + 1 <= job[t].begun + MaxDelay
              /\ job[t].forced => job[t].begun <= forcedAt[job[t].entry]
      <3> SUFFICES ASSUME NEW t \in Threads, Fetches(t)
                   PROVE  /\ job[t].begun <= date + 1 /\ date + 1 <= job[t].begun + MaxDelay
                          /\ job[t].forced => job[t].begun <= forcedAt[job[t].entry]
        OBVIOUS
      <3>1. job[t].begun \in Nat
        BY <1>1 DEF KeysTyped, Jobs
      <3>2. date < job[t].begun + MaxDelay
        BY <1>1 DEF Fetches
      <3>3. job[t].begun <= date /\ (job[t].forced => job[t].begun <= forcedAt[job[t].entry])
        BY DEF KeysInv, InDate
      <3> QED
        BY <1>1, <3>1, <3>2, <3>3, KeysAssumption
    <2> QED
      BY <1>1, <1>2, <2>1, <2>2 DEF InDate, Fetches
  <1>11. AnswersAreWhole'
    <2> SUFFICES ASSUME NEW t \in Threads, job[t].pc = "answered", Trusted!IsOn(job[t].token.iss)
                 PROVE  /\ fails = 0 => job[t].answer # None
                        /\ job[t].answer # None =>
                               \A k \in Trusted!Published(job[t].token.iss)' : k.from <= job[t].begun => k \in job[t].answer
      BY <1>1, <1>2, <1>3, <1>8 DEF AnswersAreWhole, Fetches, Trusted!Published, Trusted!IsOn
    <2>1. job[t].begun <= date /\ job[t].begun \in Nat
      BY <1>1 DEF KeysInv, InDate, Fetches, KeysTyped, Jobs
    <2>2. \A k \in Trusted!Published(job[t].token.iss)' : k.from \in Nat
      BY KeysAssumption DEF Trusted!Published
    <2>3. \A k \in Trusted!Published(job[t].token.iss)' :
              k.from <= job[t].begun => k.from <= date /\ k \in Trusted!Published(job[t].token.iss)
      BY <1>1, <1>9, <2>1, <2>2
    <2> QED
      BY <2>3 DEF KeysInv, AnswersAreWhole
  <1>12. SetsAreWhole'
    <2> SUFFICES ASSUME NEW e \in Trusted!Entries, NEW iss \in Issuers, IsFor(e, iss), kept[e] # None, Trusted!IsOn(iss),
                        NEW k \in Trusted!Published(iss)', k.from + MaxDelay <= kept[e].at
                 PROVE  k \in kept[e].keys
      BY <1>1, <1>6, <1>8 DEF SetsAreWhole
    <2>1. k.from \in Nat /\ kept[e].at \in Nat /\ kept[e].at <= date
      BY <1>1, KeysAssumption DEF Trusted!Published, KeysTyped, KeySets, KeysInv, InDate
    <2>2. k \in Trusted!Published(iss)
      BY <1>1, <1>9, <2>1, KeysAssumption
    <2> QED
      BY <2>2 DEF KeysInv, SetsAreWhole
  <1>13. SetsAreRecent'
    BY <1>1, <1>2 DEF KeysInv, SetsAreRecent, Fetches
  <1>14. MissesAreFew' /\ Trusted!FindsPublishedKeys'
    BY <1>3 DEF MissesAreFew, Trusted!FindsPublishedKeys
  <1>15. Trusted!OneForcedFetch'
    BY <1>2 DEF KeysInv, Trusted!OneForcedFetch, Fetches
  <1> QED
    BY <1>4, <1>5, <1>7, <1>10, <1>11, <1>12, <1>13, <1>14, <1>15 DEF KeysInv

LEMMA KeysNext == KeysInv /\ [Trusted!Next]_Trusted!vars => KeysInv'
  <1> SUFFICES ASSUME KeysInv, [Trusted!Next]_Trusted!vars
               PROVE  KeysInv'
    OBVIOUS
  <1>1. ASSUME NEW t \in Threads, NEW token \in Trusted!Tokens, Trusted!Lookup(t, token)
        PROVE  KeysInv'
    <2>1. token \in TokenSet
      BY <1>1, TokensAreTokens
    <2> QED
      BY <1>1, <2>1, LookupFinds, FindsStep
  <1>2. ASSUME NEW t \in Threads, Trusted!ThreadStep(t)
        PROVE  KeysInv'
    BY <1>2, CreateStep, AnswerStep, EndFetchStep, ForceStep, RefuseStep DEF Trusted!ThreadStep
  <1>3. ASSUME NEW i \in Leavers, Trusted!Disable(i)
        PROVE  KeysInv'
    BY <1>3, DisableStep
  <1>4. CASE UNCHANGED Trusted!vars
    BY <1>4 DEF Trusted!vars, KeysInv, KeysTyped, EntriesFit, OneIssuerEach, InDate, AnswersAreWhole, SetsAreWhole,
                SetsAreRecent, MissesAreFew, Trusted!OneForcedFetch, Trusted!FindsPublishedKeys, IsFor, Holds, Fetches,
                Making, Findable, Trusted!Allowed, Trusted!Published, Trusted!IsOn
  <1> QED
    BY <1>1, <1>2, <1>3, <1>4, TickStep DEF Trusted!Next

(* For any tenants, keys, times, threads and room in the cache: of the       *)
(* threads that miss a key in a set one fetches it anew at a time, and the   *)
(* token of a key that has been published for a while is refused only right  *)
(* behind another's forced fetch (TrustedKeys.lookup, _allow_forced_refresh). *)
THEOREM PublishedKeysAreFound == Trusted!Spec => []KeysAreFound
  <1>1. Trusted!Spec => []KeysInv
    BY KeysFirst, KeysNext, PTL DEF Trusted!Spec
  <1>2. KeysInv => KeysAreFound
    BY DEF KeysInv, KeysAreFound, Trusted!KeysAreFound
  <1> QED
    BY <1>1, <1>2, PTL
=============================================================================
