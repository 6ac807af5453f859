--------------------------- MODULE ContextProofs ---------------------------
(***************************************************************************)
(* Proofs about the client: the file of contexts, for any processes,       *)
(* tenants and names and any number of logins; and the sessions, for any   *)
(* tree of processes, any commands, keys and calls.                        *)
(*                                                                         *)
(* The invariants of the file rest on the copies that processes hold: a    *)
(* copy was loaded from a file with a current context, which has one from  *)
(* then on (CopiesHaveAFile), and is saved under a name.                   *)
(*                                                                         *)
(* Those of the oracles rest on whose a key is: it is one login's until    *)
(* its oracle starts (KeysAreNew), and on Windows that oracle has its pipe *)
(* for as long as it runs (PipesAreHeld). A peer was looked at when it was *)
(* let in, and keeps its connection until it is answered (PeersWereLetIn). *)
(* Those of the UI rest on what its calls remember: the session of now, if *)
(* they are of this generation, and otherwise one that is gone             *)
(* (CallsKnowTheirSession), since only a prompt replaces a session, and a  *)
(* prompt is for one that is gone (PromptsHaveAReason).                    *)
(***************************************************************************)
EXTENDS ContextRegistry, ClientSessions, WellFoundedInduction, TLAPS

Copies == {"loaded", "save", "set"}

ContextType == [url : Urls, key : Int]

ProcType == [at : Copies \cup {"idle", "new"}, url : Urls \cup {Nothing}, key : Int, name : Names \cup {Nothing}]

Typed ==
    /\ Stored \subseteq Names
    /\ \A n \in Stored : contexts[n] \in ContextType
    /\ proc \in [Procs -> ProcType]
    /\ keys \in Int

CopiesHaveAFile ==
    /\ \A p \in Procs : proc[p].at \in Copies =>
          proc[p].name \in Names /\ proc[p].url \in Urls /\ current # Nothing
    /\ \A p \in Procs : proc[p].at = "new" => proc[p].url \in Urls

IInv == Typed /\ CopiesHaveAFile /\ UrlsUnique /\ PointersHold

-----------------------------------------------------------------------------
(* A context is saved under the name that its tenant has, if it has one.   *)
LEMMA NameOfTenant ==
    ASSUME NEW u, NEW name \in Names, Stored \subseteq Names
    PROVE  /\ NameFor(u, name) \in Names
           /\ Holds(u) # {} => NameFor(u, name) \in Holds(u)
           /\ Holds(u) = {} => NameFor(u, name) = name
  BY DEF NameFor, Holds

(* Storing a context leaves the others alone.                              *)
LEMMA StoredWith ==
    ASSUME NEW n, NEW context, contexts' = With(n, context)
    PROVE  /\ Stored' = Stored \cup {n}
           /\ contexts'[n] = context
           /\ \A m \in Stored : m # n => contexts'[m] = contexts[m]
  BY DEF With, Stored

LEMMA InitInv == RegistryInit => IInv
  <1> SUFFICES ASSUME RegistryInit PROVE IInv
    OBVIOUS
  <1>1. Stored = {} /\ current = Nothing /\ previous = Nothing
    BY DEF RegistryInit, Stored
  <1>2. proc \in [Procs -> ProcType] /\ \A p \in Procs : proc[p].at = "idle"
    BY DEF RegistryInit, Idle, ProcType, Copies
  <1>3. Typed
    BY <1>1, <1>2 DEF Typed, RegistryInit
  <1> QED BY <1>1, <1>2, <1>3 DEF IInv, CopiesHaveAFile, UrlsUnique, PointersHold, Copies

(* Steps of one process that leave the file alone.                         *)
LEMMA CopySteps ==
    ASSUME IInv, NEW p \in Procs,
           Load(p) \/ LoggedIn(p) \/ Fetched(p) \/ (\E u \in Urls : AcceptInvitation(p, u))
    PROVE  IInv'
  <1> USE DEF IInv, Typed, CopiesHaveAFile
  <1>1. UNCHANGED <<contexts, current, previous>>
    BY DEF Load, LoggedIn, Fetched, AcceptInvitation
  <1>0. keys' = keys \/ keys' = keys + 1
    BY DEF Load, LoggedIn, Fetched, AcceptInvitation
  <1>k. keys' \in Int
    BY <1>0
  <1>2. UrlsUnique' /\ PointersHold' /\ (Stored \subseteq Names)'
        /\ (\A n \in Stored : contexts[n] \in ContextType)'
    BY <1>1 DEF ContextType, UrlsUnique, PointersHold, Stored
  <1>3. CASE Load(p)
    <2> DEFINE copy == [at |-> "loaded", url |-> contexts[current].url, key |-> contexts[current].key,
                        name |-> current]
    <2>1. current \in Names /\ current # Nothing /\ contexts[current].url \in Urls
         /\ contexts[current].key \in Int
      BY <1>3, RegistryAssumption DEF Load, ContextType
    <2>2. copy \in ProcType /\ copy.name \in Names /\ copy.url \in Urls
      BY <1>3, <2>1 DEF Load, ProcType, Copies
    <2>3. proc' = [proc EXCEPT ![p] = copy]
      BY <1>3 DEF Load
    <2> HIDE DEF copy
    <2>4. proc' \in [Procs -> ProcType] /\ proc'[p] = copy /\ \A q \in Procs \ {p} : proc'[q] = proc[q]
      BY <2>2, <2>3
    <2>5. \A q \in Procs : proc'[q].at \in Copies => proc'[q].name \in Names /\ proc'[q].url \in Urls
      BY <2>2, <2>4
    <2>6. copy.at = "loaded"
      BY DEF copy
    <2>7. \A q \in Procs : proc'[q].at = "new" => proc'[q].url \in Urls
      BY <2>4, <2>6
    <2> QED BY <1>1, <1>k, <1>2, <2>1, <2>4, <2>5, <2>7
  <1>4. CASE LoggedIn(p)
    <2>1. PICK at \in {"save", "set"} : proc' = [proc EXCEPT ![p].at = at, ![p].key = keys + 1]
      BY <1>4 DEF LoggedIn
    <2>2. proc[p] \in ProcType /\ proc[p].at \in Copies
      BY <1>4 DEF LoggedIn, Copies
    <2>3. proc' \in [Procs -> ProcType]
      <3>1. PICK k \in Int : k = keys + 1
        OBVIOUS
      <3>2. proc' = [proc EXCEPT ![p].at = at, ![p].key = k]
        BY <2>1, <3>1
      <3> QED BY <2>2, <3>1, <3>2 DEF ProcType, Copies
    <2>4. proc'[p].at = at /\ proc'[p].name = proc[p].name /\ proc'[p].url = proc[p].url
      BY <2>1, <2>2 DEF ProcType
    <2>5. \A q \in Procs \ {p} : proc'[q] = proc[q]
      BY <2>1
    <2> QED BY <1>1, <1>k, <1>2, <2>2, <2>3, <2>4, <2>5
  <1>5. CASE Fetched(p)
    <2>1. proc' = [proc EXCEPT ![p].at = "save"]
      BY <1>5 DEF Fetched
    <2>2. proc[p] \in ProcType /\ proc[p].at \in Copies
      BY <1>5 DEF Fetched, Copies
    <2>3. proc' \in [Procs -> ProcType]
      BY <2>1, <2>2 DEF ProcType, Copies
    <2>4. proc'[p].at = "save" /\ proc'[p].name = proc[p].name /\ proc'[p].url = proc[p].url
      BY <2>1, <2>2 DEF ProcType
    <2>5. \A q \in Procs \ {p} : proc'[q] = proc[q]
      BY <2>1
    <2> QED BY <1>1, <1>k, <1>2, <2>2, <2>3, <2>4, <2>5
  <1>6. ASSUME NEW u \in Urls, AcceptInvitation(p, u) PROVE IInv'
    <2> DEFINE copy == [at |-> "new", url |-> u, key |-> 0, name |-> Nothing]
    <2>1. copy \in ProcType /\ copy.url = u /\ copy.at = "new"
      BY DEF ProcType, Copies
    <2>2. proc' = [proc EXCEPT ![p] = copy]
      BY <1>6 DEF AcceptInvitation
    <2> HIDE DEF copy
    <2>3. proc' \in [Procs -> ProcType] /\ proc'[p] = copy /\ \A q \in Procs \ {p} : proc'[q] = proc[q]
      BY <2>1, <2>2
    <2>4. \A q \in Procs : proc'[q].at = "new" => proc'[q].url \in Urls
      BY <2>1, <2>3
    <2>5. \A q \in Procs : proc'[q].at \in Copies => proc'[q].name \in Names /\ proc'[q].url \in Urls
                                                      /\ current # Nothing
      BY <2>1, <2>3 DEF Copies
    <2> QED BY <1>1, <1>k, <1>2, <2>3, <2>4, <2>5
  <1> QED BY <1>3, <1>4, <1>5, <1>6

(* What a process that is done leaves behind.                              *)
LEMMA BackToIdle ==
    ASSUME IInv, NEW p \in Procs, proc' = [proc EXCEPT ![p] = Idle], current' # Nothing \/ current' = current,
           keys' = keys
    PROVE  proc' \in [Procs -> ProcType] /\ keys' \in Int /\ CopiesHaveAFile'
  <1>1. Idle \in ProcType /\ Idle.at = "idle"
    BY DEF Idle, ProcType, Copies
  <1> HIDE DEF Idle
  <1>2. proc' \in [Procs -> ProcType] /\ proc'[p] = Idle /\ \A q \in Procs \ {p} : proc'[q] = proc[q]
    BY <1>1 DEF IInv, Typed
  <1>3. CopiesHaveAFile'
    BY <1>1, <1>2 DEF IInv, CopiesHaveAFile, Copies
  <1> QED BY <1>2, <1>3 DEF IInv, Typed

LEMMA SaveNewStep ==
    ASSUME IInv, NEW p \in Procs, SaveNew(p)
    PROVE  IInv'
  <1> USE DEF IInv
  <1>1. CASE UNCHANGED <<contexts, current, previous>>
    <2>1. proc' \in [Procs -> ProcType] /\ keys' \in Int /\ CopiesHaveAFile'
      BY <1>1, BackToIdle DEF SaveNew
    <2> QED BY <1>1, <2>1 DEF Typed, UrlsUnique, PointersHold, Stored
  <1>2. ASSUME Holds(proc[p].url) = {}, NEW n \in Names \ Stored,
               contexts' = With(n, [url |-> proc[p].url, key |-> 0]), previous' = current, current' = n
        PROVE  IInv'
    <2>1. n # Nothing /\ proc[p].url \in Urls
      BY <1>2, RegistryAssumption DEF SaveNew, CopiesHaveAFile
    <2>2. proc' \in [Procs -> ProcType] /\ keys' \in Int /\ CopiesHaveAFile'
      BY <1>2, <2>1, BackToIdle DEF SaveNew
    <2>3. Stored' = Stored \cup {n} /\ contexts'[n] = [url |-> proc[p].url, key |-> 0]
          /\ \A m \in Stored : contexts'[m] = contexts[m]
      BY <1>2, StoredWith
    <2>4. contexts'[n].url = proc[p].url /\ contexts'[n] \in ContextType
      BY <2>1, <2>3 DEF ContextType
    <2>5. \A m \in Stored : contexts[m].url # proc[p].url
      BY <1>2 DEF Holds
    <2>6. UrlsUnique'
      BY <2>3, <2>4, <2>5 DEF UrlsUnique
    <2>7. PointersHold'
      BY <1>2, <2>1, <2>3 DEF PointersHold
    <2>8. Typed'
      BY <1>2, <2>1, <2>2, <2>3, <2>4 DEF Typed
    <2> QED BY <2>2, <2>6, <2>7, <2>8
  <1> QED BY <1>1, <1>2 DEF SaveNew

LEMMA SaveStep ==
    ASSUME IInv, NEW p \in Procs, Save(p)
    PROVE  IInv'
  <1> USE DEF IInv
  <1> DEFINE u == proc[p].url
             n == NameFor(u, proc[p].name)
             saved == [url |-> u, key |-> proc[p].key]
  <1>1. proc[p].name \in Names /\ u \in Urls /\ current # Nothing /\ proc[p].key \in Int
    BY DEF Save, CopiesHaveAFile, Copies, Typed, ProcType
  <1>2. n \in Names /\ (Holds(u) # {} => n \in Holds(u))
    BY <1>1, NameOfTenant DEF Typed
  <1>s. saved.url = u /\ saved \in ContextType
    BY <1>1 DEF ContextType
  <1>w. contexts' = With(n, saved)
    BY DEF Save
  <1> HIDE DEF n, saved
  <1>3. Stored' = Stored \cup {n} /\ contexts'[n] = saved /\ \A m \in Stored : m # n => contexts'[m] = contexts[m]
    BY <1>w, StoredWith
  <1>4. contexts'[n].url = u /\ contexts'[n] \in ContextType
    BY <1>s, <1>3
  <1>5. proc' \in [Procs -> ProcType] /\ keys' \in Int /\ CopiesHaveAFile'
    BY BackToIdle DEF Save
  <1>6. \A m \in Stored : m # n => contexts[m].url # u
    <2> SUFFICES ASSUME NEW m \in Stored, m # n, contexts[m].url = u PROVE FALSE
      OBVIOUS
    <2>1. n \in Holds(u)
      BY <1>2 DEF Holds
    <2> QED BY <2>1 DEF Holds, UrlsUnique
  <1>7. UrlsUnique'
    BY <1>3, <1>4, <1>6 DEF UrlsUnique
  <1>8. PointersHold'
    BY <1>1, <1>3 DEF PointersHold, Save
  <1>9. Typed'
    BY <1>1, <1>2, <1>3, <1>4, <1>5 DEF Typed
  <1> QED BY <1>5, <1>7, <1>8, <1>9

LEMMA FingerprintStep ==
    ASSUME IInv, NEW p \in Procs, SetSessionFingerprint(p)
    PROVE  IInv'
  <1> USE DEF IInv
  <1>1. proc' \in [Procs -> ProcType] /\ keys' \in Int /\ CopiesHaveAFile'
    BY BackToIdle DEF SetSessionFingerprint
  <1>2. proc[p].key \in Int
    BY DEF Typed, ProcType
  <1>3. ASSUME NEW n \in Stored
        PROVE  contexts'[n] \in ContextType /\ contexts'[n].url = contexts[n].url
    <2>1. n \in Fingerprinted(proc[p].url) => contexts'[n] = [contexts[n] EXCEPT !.key = proc[p].key]
      BY DEF SetSessionFingerprint
    <2>2. n \notin Fingerprinted(proc[p].url) => contexts'[n] = contexts[n]
      BY DEF SetSessionFingerprint
    <2>3. contexts[n] \in ContextType
      BY DEF Typed
    <2> QED BY <1>2, <2>1, <2>2, <2>3 DEF ContextType
  <1> QED BY <1>1, <1>2, <1>3 DEF Typed, UrlsUnique, PointersHold, SetSessionFingerprint, Stored

-----------------------------------------------------------------------------
LEMMA CtxStep == IInv /\ Ctx => IInv'
  <1> SUFFICES ASSUME IInv, Ctx PROVE IInv'
    OBVIOUS
  <1> USE DEF IInv
  <1>1. proc' = proc /\ keys' = keys
    BY DEF Ctx, Use, UsePrevious, Rename, Delete
  <1>2. proc' \in [Procs -> ProcType] /\ keys' \in Int
    BY <1>1 DEF Typed
  <1>3. ASSUME current' # Nothing \/ current' = current PROVE CopiesHaveAFile'
    BY <1>1, <1>3 DEF CopiesHaveAFile
  <1>4. CASE UsePrevious
    <2>1. UNCHANGED contexts /\ previous \in Stored /\ current' = previous /\ previous' = current
      BY <1>4 DEF UsePrevious
    <2>2. previous # Nothing /\ current # Nothing
      BY <2>1, RegistryAssumption DEF Typed, PointersHold
    <2> QED BY <1>2, <1>3, <2>1, <2>2 DEF Typed, UrlsUnique, PointersHold, Stored
  <1>5. ASSUME NEW n \in Names, Use(n) PROVE IInv'
    <2>1. UNCHANGED contexts /\ n \in Stored /\ current' = n /\ previous' = current /\ n # current
      BY <1>5 DEF Use
    <2>2. n # Nothing
      BY RegistryAssumption
    <2> QED BY <1>2, <1>3, <2>1, <2>2 DEF Typed, UrlsUnique, PointersHold, Stored
  <1>6. ASSUME NEW n \in Names, Delete(n) PROVE IInv'
    <2>1. Stored' = Stored \ {n} /\ (\A m \in Stored \ {n} : contexts'[m] = contexts[m])
          /\ current' = current /\ n # current /\ previous' = IF previous = n THEN Nothing ELSE previous
      BY <1>6 DEF Delete, Stored
    <2>2. Typed' /\ UrlsUnique'
      BY <1>2, <2>1 DEF Typed, UrlsUnique
    <2>3. PointersHold'
      BY <2>1 DEF PointersHold
    <2> QED BY <1>3, <2>1, <2>2, <2>3
  <1>7. ASSUME NEW old \in Names, NEW new \in Names, Rename(old, new) PROVE IInv'
    <2>1. old \in Stored /\ new \notin Stored /\ old # Nothing /\ new # Nothing
      BY <1>7, RegistryAssumption DEF Rename
    <2>2. /\ Stored' = (Stored \ {old}) \cup {new}
          /\ contexts'[new] = contexts[old]
          /\ \A m \in Stored \ {old} : contexts'[m] = contexts[m]
      BY <1>7, <2>1 DEF Rename, Stored
    <2>3. current' = Renamed(current, old, new) /\ previous' = Renamed(previous, old, new)
      BY <1>7 DEF Rename
    <2>4. Typed'
      BY <1>2, <2>1, <2>2 DEF Typed
    <2>5. UrlsUnique'
      BY <2>1, <2>2 DEF UrlsUnique
    <2>6. PointersHold'
      BY <2>1, <2>2, <2>3 DEF PointersHold, Renamed
    <2>7. current' # Nothing \/ current' = current
      BY <2>1, <2>3 DEF Renamed
    <2> QED BY <1>3, <2>4, <2>5, <2>6, <2>7
  <1> QED BY <1>4, <1>5, <1>6, <1>7 DEF Ctx

LEMMA NextInv == IInv /\ [RegistryNext]_registryVars => IInv'
  <1> SUFFICES ASSUME IInv, [RegistryNext]_registryVars PROVE IInv'
    OBVIOUS
  <1>1. CASE Ctx
    BY <1>1, CtxStep
  <1>2. ASSUME NEW p \in Procs, ProcStep(p) PROVE IInv'
    BY <1>2, CopySteps, SaveNewStep, SaveStep, FingerprintStep DEF ProcStep
  <1>3. CASE UNCHANGED registryVars
    BY <1>3 DEF registryVars, IInv, Typed, CopiesHaveAFile, UrlsUnique, PointersHold, Stored
  <1> QED BY <1>1, <1>2, <1>3 DEF RegistryNext

(* No tenant gets a second context, whatever commands interleave.          *)
THEOREM TenantsHaveOneContext == RegistrySpec => []UrlsUnique
  <1>1. IInv => UrlsUnique
    BY DEF IInv
  <1> QED BY InitInv, NextInv, <1>1, PTL DEF RegistrySpec

(* The current and the previous context exist and differ, and a file that  *)
(* has contexts has a current one.                                         *)
THEOREM PointersAreGood == RegistrySpec => []PointersHold
  <1>1. IInv => PointersHold
    BY DEF IInv
  <1> QED BY InitInv, NextInv, <1>1, PTL DEF RegistrySpec

(* One file that many commands write: after every write each tenant has at *)
(* most one context, and the pointers name contexts.                       *)
THEOREM RegistryStaysSound == RegistrySpec => []RegistryIsSound
  <1>1. IInv => RegistryIsSound
    BY DEF IInv, RegistryIsSound
  <1> QED BY InitInv, NextInv, <1>1, PTL DEF RegistrySpec

-----------------------------------------------------------------------------
(* What one write may do to the keys of a tenant. *)

KeysMove ==
    \A n \in Stored, m \in DOMAIN contexts' :
       contexts[n].url = contexts'[m].url /\ contexts[n].key # contexts'[m].key
          => \E p \in Procs : /\ proc[p].at \in {"save", "set"}
                              /\ proc[p].url = contexts[n].url
                              /\ proc[p].key = contexts'[m].key

(* A write that only moves contexts about changes no key: each context that *)
(* is there was there, under some name, and it was the only one of its tenant. *)
LEMMA MovesKeepKeys ==
    ASSUME UrlsUnique, \A m \in DOMAIN contexts' : \E k \in Stored : contexts'[m] = contexts[k]
    PROVE  KeysMove
  BY DEF UrlsUnique, KeysMove

LEMMA StepMovesKeys ==
    ASSUME IInv, [RegistryNext]_registryVars
    PROVE  KeysMove
  <1> USE DEF IInv
  <1>1. CASE UNCHANGED contexts
    BY <1>1, MovesKeepKeys DEF Stored
  <1>2. ASSUME NEW p \in Procs, SaveNew(p) PROVE KeysMove
    <2>1. ASSUME Holds(proc[p].url) = {}, NEW n \in Names \ Stored,
                 contexts' = With(n, [url |-> proc[p].url, key |-> 0])
          PROVE  KeysMove
      <3>1. Stored' = Stored \cup {n} /\ contexts'[n].url = proc[p].url
            /\ \A m \in Stored : contexts'[m] = contexts[m]
        BY <2>1, StoredWith
      <3>2. \A k \in Stored : contexts[k].url # contexts'[n].url
        BY <2>1, <3>1 DEF Holds
      <3> QED BY <3>1, <3>2 DEF KeysMove, UrlsUnique, Stored
    <2> QED BY <1>1, <1>2, <2>1 DEF SaveNew
  <1>3. ASSUME NEW p \in Procs, Save(p) PROVE KeysMove
    <2> DEFINE saved == [url |-> proc[p].url, key |-> proc[p].key]
    <2>1. PICK n : contexts' = With(n, saved)
      BY <1>3 DEF Save
    <2>2. saved.url = proc[p].url /\ saved.key = proc[p].key /\ proc[p].at = "save"
      BY <1>3 DEF Save
    <2> HIDE DEF saved
    <2>3. Stored' = Stored \cup {n} /\ contexts'[n] = saved
          /\ \A m \in Stored : m # n => contexts'[m] = contexts[m]
      BY <2>1, StoredWith
    <2> QED BY <2>2, <2>3 DEF KeysMove, UrlsUnique, Stored
  <1>4. ASSUME NEW p \in Procs, SetSessionFingerprint(p) PROVE KeysMove
    <2>1. DOMAIN contexts' = Stored /\ proc[p].at = "set"
      BY <1>4 DEF SetSessionFingerprint
    <2>2. ASSUME NEW m \in Stored
          PROVE  \/ contexts'[m] = contexts[m]
                 \/ /\ contexts[m].url = proc[p].url /\ contexts'[m].url = proc[p].url
                    /\ contexts'[m].key = proc[p].key
      <3>1. CASE m \in Fingerprinted(proc[p].url)
        <4>1. contexts'[m] = [contexts[m] EXCEPT !.key = proc[p].key] /\ contexts[m].url = proc[p].url
          BY <1>4, <3>1 DEF SetSessionFingerprint, Fingerprinted, Holds
        <4>2. contexts[m] \in ContextType
          BY DEF Typed
        <4> QED BY <4>1, <4>2 DEF ContextType
      <3>2. CASE m \notin Fingerprinted(proc[p].url)
        BY <1>4, <3>2 DEF SetSessionFingerprint
      <3> QED BY <3>1, <3>2
    <2> QED BY <2>1, <2>2 DEF KeysMove, UrlsUnique, Stored
  <1>5. CASE Ctx
    <2>1. \A m \in DOMAIN contexts' : \E k \in Stored : contexts'[m] = contexts[k]
      BY <1>5 DEF Ctx, Use, UsePrevious, Rename, Delete, Stored
    <2> QED BY <2>1, MovesKeepKeys
  <1> QED BY <1>1, <1>2, <1>3, <1>4, <1>5
          DEF RegistryNext, ProcStep, Load, LoggedIn, Fetched, AcceptInvitation, registryVars

(* The key of a session goes to the context of the tenant that it was made  *)
(* for, whatever was renamed, deleted or selected during the login.         *)
THEOREM KeysGoToTheirTenant == RegistrySpec => KeysStayWithTheirTenant
  <1>1. IInv /\ [RegistryNext]_registryVars => [KeysMove]_registryVars
    BY StepMovesKeys
  <1> QED BY InitInv, NextInv, <1>1, PTL DEF RegistrySpec, KeysStayWithTheirTenant, KeysMove

-----------------------------------------------------------------------------
(* The sessions of a client (ClientSessions). First the oracles.            *)
Fresh == {"start", "wait"}
Bound == {"post", "find", "list", "sign"}

OracleType ==
    [state : {None, "ended"} \cup Listening, anchor : Processes \cup {None}, deadline : Int,
     peer : Commands \cup {None}, told : BOOLEAN]

CommandType ==
    [pc : {"idle"} \cup Fresh \cup Bound, kind : {"http_sig", "oidc", "use"},
     by : Processes \cup {None}, ctx : Contexts \cup {None}, key : Keys \cup {None},
     at : Processes \cup {None}, conn : Keys \cup {None}]

OraclesTyped ==
    /\ alive \subseteq Processes /\ clock \in Int
    /\ oracle \in [Keys -> OracleType] /\ command \in [Commands -> CommandType]
    /\ place \in [Processes -> Keys \cup {None}]
    /\ event \in [Processes -> {"absent", "unset", "set"}]
    /\ config \in [Contexts -> Keys \cup {None}]
    /\ latest \in [Processes -> Keys \cup {None}]

(* A key has no oracle before its login starts one, and no other login has  *)
(* the same; from then on it has one, running or ended.                     *)
KeysAreNew ==
    /\ \A c \in Commands : command[c].pc \in Fresh =>
          command[c].key \in Keys /\ oracle[command[c].key].state = None
    /\ \A c, d \in Commands :
          command[c].pc \in Fresh /\ command[d].pc \in Fresh /\ c # d => command[c].key # command[d].key

KeysWereStarted ==
    /\ \A c \in Commands : command[c].pc \in Bound =>
          command[c].key \in Keys /\ oracle[command[c].key].state # None
    /\ \A x \in Contexts : config[x] # None => oracle[config[x]].state # None

LatestHasItsName ==
    \A p \in Processes : latest[p] # None =>
       /\ oracle[latest[p]].state # None
       /\ oracle[latest[p]].state \in Listening => oracle[latest[p]].anchor = p /\ place[p] = latest[p]

(* On Windows every oracle that runs has its pipe, and knows who asked it   *)
(* to go.                                                                   *)
PipesAreHeld ==
    Windows => \A k \in Keys : oracle[k].state \in Listening =>
       /\ oracle[k].anchor \in Processes /\ place[oracle[k].anchor] = k
       /\ oracle[k].state = "serving" /\ event[oracle[k].anchor] = "set" => oracle[k].told

PeersWereLetIn ==
    /\ \A c \in Commands :
          /\ command[c].pc # "idle" => command[c].by \in Processes
          /\ command[c].conn # None => command[c].pc \in {"list", "sign"}
          /\ command[c].pc \in {"list", "sign"} => command[c].at \in Processes
    /\ \A k \in Keys : oracle[k].peer # None =>
          LET c == oracle[k].peer IN
          /\ oracle[k].state = "serving" /\ command[c].conn = k
          /\ oracle[k].anchor \in ToSet(Line[command[c].by]) /\ SameLogon(k, c)

OraclesInv ==
    /\ OraclesTyped /\ KeysAreNew /\ KeysWereStarted /\ LatestHasItsName
    /\ PipesAreHeld /\ PeersWereLetIn

(* Then the terminal UI.                                                    *)
Numbers == 1..made \cup {NoSession}

CallType == [pc : {"idle", "waiting", "running"}, gen : Nat, uses : Int \cup {NoSession}]

TuiTyped ==
    /\ made \in Nat /\ valid \subseteq 1..made /\ generation \in Nat
    /\ {inner, cfg, disk, fresh} \subseteq Numbers
    /\ calls \in [Calls -> CallType] /\ verified \in BOOLEAN /\ pending \in BOOLEAN

(* A prompt of the UI is for a session that is gone.                        *)
PromptsHaveAReason ==
    /\ pending \/ why = "repeated" => inner \notin valid
    /\ why = "repeated" => app = "gone"
    /\ app = "tui" /\ screen \in {"asked", "open"} => pending
    /\ app = "start" => screen = "none"

CallsKnowTheirSession ==
    \A c \in Calls :
       /\ calls[c].uses \in 0..made \cup {NoSession}
       /\ calls[c].pc # "idle" => app \in {"tui", "gone"}
       /\ app = "tui" /\ calls[c].pc # "idle" =>
             /\ calls[c].gen <= generation
             /\ calls[c].gen = generation /\ calls[c].uses # 0 => calls[c].uses = inner
             /\ calls[c].uses \in valid => calls[c].uses = inner
             /\ calls[c].pc = "running" => calls[c].uses # 0

TuiInv ==
    /\ TuiTyped /\ PromptsHaveAReason /\ CallsKnowTheirSession
    /\ Tui!VerifiedIsTrue
    /\ app = "tui" => inner \in 1..made

ClientInv == OraclesInv /\ TuiInv
-----------------------------------------------------------------------------
(* The process tree.                                                        *)

(* A set of numbers that is not empty has a least one.                      *)
LEMMA LeastOf ==
    ASSUME NEW S \in SUBSET Nat, S # {}
    PROVE  Min(S) \in S
  <1> DEFINE R == OpToRel(<, Nat)
  <1>1. IsWellFoundedOn(R, Nat)
    BY NatLessThanWellFounded
  <1>2. \A x, y \in Nat : x < y => <<x, y>> \in R
    BY DEF OpToRel
  <1> HIDE DEF R
  <1>3. PICK m \in S : \A n \in S : ~ (<<n, m>> \in R)
    BY <1>1, WFMin
  <1>4. \A n \in S : ~ (n < m)
    BY <1>2, <1>3
  <1>5. \A n \in S : m =< n
    BY <1>4
  <1> QED BY <1>5 DEF Min

(* If it has a bound it has a greatest one.                                 *)
LEMMA GreatestOf ==
    ASSUME NEW b \in Nat, NEW S \in SUBSET (0..b), S # {}
    PROVE  Max(S) \in S /\ \A n \in S : Max(S) >= n
  <1>1. PICK T : T = {b - n : n \in S}
    OBVIOUS
  <1>2. T \in SUBSET Nat /\ T # {}
    <2>1. \A n \in S : b - n \in Nat
      OBVIOUS
    <2> QED BY <1>1, <2>1
  <1> DEFINE R == OpToRel(<, Nat)
  <1>3. IsWellFoundedOn(R, Nat)
    BY NatLessThanWellFounded
  <1>4. \A x, y \in Nat : x < y => <<x, y>> \in R
    BY DEF OpToRel
  <1> HIDE DEF R
  <1>5. PICK m \in T : \A n \in T : ~ (<<n, m>> \in R)
    BY <1>2, <1>3, WFMin
  <1>6. \A n \in T : ~ (n < m)
    BY <1>2, <1>4, <1>5
  <1>7. PICK g \in S : m = b - g
    BY <1>1
  <1>8. \A n \in S : g >= n
    <2> TAKE n \in S
    <2>1. b - n \in T
      BY <1>1
    <2> QED BY <1>6, <1>7, <2>1
  <1> QED BY <1>8 DEF Max

(* The trail of a process is the beginning of its line.                     *)
LEMMA TrailIsLine ==
    ASSUME NEW p \in Processes
    PROVE  \E n \in 0..Len(Line[p]) :
              /\ Trail(p) = SubSeq(Line[p], 1, n)
              /\ \A i \in 1..n : Line[p][i] \in alive
              /\ p \in alive => n >= 1
  <1>1. Line[p] \in Seq(Processes) /\ Line[p] # <<>> /\ Head(Line[p]) = p /\ Len(Line[p]) \in Nat
    BY TreeAssumption
  <1>2. PICK S : S = {i \in 0..Len(Line[p]) : \A j \in 1..i : Line[p][j] \in alive}
    OBVIOUS
  <1>3. 0 \in S /\ S \in SUBSET (0..Len(Line[p]))
    BY <1>1, <1>2
  <1>4. PICK n : n = Max(S)
    OBVIOUS
  <1>5. n \in S /\ \A i \in S : n >= i
    BY <1>1, <1>3, <1>4, GreatestOf
  <1>6. p \in alive => 1 \in S
    BY <1>1, <1>2
  <1>7. Trail(p) = SubSeq(Line[p], 1, n)
    BY <1>2, <1>4 DEF Trail
  <1>8. p \in alive => n >= 1
    BY <1>5, <1>6
  <1> QED BY <1>2, <1>3, <1>5, <1>7, <1>8

LEMMA TrailOfProcesses ==
    ASSUME NEW p \in Processes
    PROVE  /\ Trail(p) \in Seq(Processes) /\ ToSet(Trail(p)) \subseteq ToSet(Line[p]) \cap alive
           /\ p \in alive => Trail(p) # <<>>
  <1>1. PICK n \in 0..Len(Line[p]) :
              /\ Trail(p) = SubSeq(Line[p], 1, n)
              /\ \A i \in 1..n : Line[p][i] \in alive
              /\ p \in alive => n >= 1
    BY TrailIsLine
  <1>2. Line[p] \in Seq(Processes) /\ Len(Line[p]) \in Nat
    BY TreeAssumption
  <1>3. Trail(p) \in Seq(Processes) /\ Len(Trail(p)) = n /\ \A i \in 1..n : Trail(p)[i] = Line[p][i]
    BY <1>1, <1>2
  <1>4. DOMAIN Trail(p) = 1..n /\ 1..n \subseteq DOMAIN Line[p]
    BY <1>2, <1>3
  <1> QED BY <1>1, <1>3, <1>4 DEF ToSet

(* What is found in a line belongs to it.                                   *)
LEMMA FoundInLine ==
    ASSUME NEW line \in Seq(Processes), NEW S, NEW otherwise
    PROVE  FirstIn(line, S, otherwise) \in ToSet(line) \cup {otherwise}
  <1>1. PICK found : found = {i \in DOMAIN line : line[i] \in S}
    OBVIOUS
  <1>2. found # {} => Min(found) \in found
    <2>1. found \in SUBSET Nat
      BY <1>1
    <2> QED BY <2>1, LeastOf
  <1> QED BY <1>1, <1>2 DEF FirstIn, ToSet

LEMMA PartOfLine ==
    ASSUME NEW line \in Seq(Processes), NEW m \in Nat \ {0}
    PROVE  /\ SubSeq(line, 1, Min({m, Len(line)})) \in Seq(Processes)
           /\ ToSet(SubSeq(line, 1, Min({m, Len(line)}))) \subseteq ToSet(line)
           /\ line # <<>> => SubSeq(line, 1, Min({m, Len(line)})) # <<>>
  <1>1. PICK n : n = Min({m, Len(line)})
    OBVIOUS
  <1>2. n \in {m, Len(line)} /\ n =< m /\ n =< Len(line)
    BY <1>1 DEF Min
  <1>3. PICK s : s = SubSeq(line, 1, n)
    OBVIOUS
  <1>4. s \in Seq(Processes) /\ Len(s) = n /\ DOMAIN s = 1..n /\ \A i \in 1..n : s[i] = line[i]
    BY <1>2, <1>3
  <1>5. 1..n \subseteq DOMAIN line
    BY <1>2
  <1>6. ToSet(s) \subseteq ToSet(line)
    BY <1>4, <1>5 DEF ToSet
  <1>7. line # <<>> => s # <<>>
    BY <1>2, <1>4
  <1> QED BY <1>1, <1>3, <1>4, <1>6, <1>7

(* The anchor of a process is one of those above it that run.               *)
LEMMA AnchorIsAbove ==
    ASSUME NEW p \in alive, alive \subseteq Processes
    PROVE  Anchor(p) \in alive /\ LoginShell(p) \in alive
  <1>1. Trail(p) \in Seq(Processes) /\ ToSet(Trail(p)) \subseteq alive /\ Trail(p) # <<>>
    BY TrailOfProcesses
  <1>2. Last(Trail(p)) \in ToSet(Trail(p))
    BY <1>1 DEF Last, ToSet
  <1>3. LoginShell(p) \in ToSet(Trail(p)) \cup {Last(Trail(p))}
    BY <1>1, FoundInLine DEF LoginShell
  <1> QED BY <1>1, <1>2, <1>3 DEF Anchor

LEMMA NameIsOfAProcess ==
    ASSUME NEW line \in Seq(Processes), line # <<>>
    PROVE  FirstNamed(line) \in Processes
  <1>1. FirstNamed(line) \in ToSet(line) \cup {Head(line)}
    BY FoundInLine DEF FirstNamed
  <1>2. ToSet(line) \subseteq Processes /\ Head(line) \in Processes
    BY DEF ToSet
  <1> QED BY <1>1, <1>2

LEMMA CommandsFindProcesses ==
    ASSUME NEW p \in alive, alive \subseteq Processes
    PROVE  CurrentSocketPath(p) \in Processes /\ CurrentPipe(p) \in Processes
  <1>0. MaxAncestors \in Nat \ {0} /\ MaxAncestors + 1 \in Nat \ {0}
    BY TreeAssumption
  <1>1. Trail(p) \in Seq(Processes) /\ Trail(p) # <<>>
    BY TrailOfProcesses
  <1>2. Ancestors(p) \in Seq(Processes) /\ Ancestors(p) # <<>>
    BY <1>0, <1>1, PartOfLine DEF Ancestors
  <1>3. PICK line : line = Trail(LoginShell(p))
    OBVIOUS
  <1>4. line \in Seq(Processes) /\ line # <<>>
    BY <1>3, AnchorIsAbove, TrailOfProcesses
  <1>5. PICK m \in Nat \ {0} : m = MaxAncestors + 1
    BY <1>0
  <1>6. WindowsAncestors(p) = SubSeq(line, 1, Min({m, Len(line)}))
    BY <1>3, <1>5 DEF WindowsAncestors
  <1>7. WindowsAncestors(p) \in Seq(Processes) /\ WindowsAncestors(p) # <<>>
    BY <1>4, <1>6, PartOfLine
  <1> QED BY <1>2, <1>7, NameIsOfAProcess DEF CurrentSocketPath, CurrentPipe

(* Whom an oracle lets in is below its anchor and of its login.             *)
LEMMA LetInIsBelow ==
    ASSUME NEW k \in Keys, NEW c \in Commands, command[c].by \in Processes, Authorized(k, c)
    PROVE  oracle[k].anchor \in ToSet(Line[command[c].by]) /\ SameLogon(k, c)
  <1>0. MaxAncestors \in Nat \ {0}
    BY TreeAssumption
  <1>1. PICK p \in Processes : p = command[c].by
    OBVIOUS
  <1>2. Trail(p) \in Seq(Processes) /\ ToSet(Trail(p)) \subseteq ToSet(Line[p])
    BY TrailOfProcesses
  <1>3. ToSet(SubSeq(Trail(p), 1, Min({MaxAncestors, Len(Trail(p))}))) \subseteq ToSet(Trail(p))
    BY <1>0, <1>2, PartOfLine
  <1>4. oracle[k].anchor \in ToSet(SubSeq(Trail(p), 1, Min({MaxAncestors, Len(Trail(p))}))) /\ SameLogon(k, c)
    BY <1>1 DEF Authorized, PosixAuthorized, WindowsAuthorized, IsDescendantOf, WindowsIsDescendantOf, Ancestors
  <1> QED BY <1>1, <1>2, <1>3, <1>4
-----------------------------------------------------------------------------
(* Steps of the oracles and of the commands that use them.                  *)
oracleRest == <<platform, logon, alive, oracle, place, event, config, latest, clock>>

LEMMA OraclesInit == Init => OraclesInv
  <1> SUFFICES ASSUME Init PROVE OraclesInv
    OBVIOUS
  <1>1. NoOracle \in OracleType /\ NoCommand \in CommandType
    BY DEF NoOracle, NoCommand, OracleType, CommandType
  <1>2. OraclesTyped
    BY <1>1 DEF Init, OraclesTyped
  <1>3. \A c \in Commands : command[c].pc = "idle" /\ command[c].conn = None
    BY DEF Init, NoCommand
  <1>4. \A k \in Keys : oracle[k].state = None /\ oracle[k].peer = None
    BY DEF Init, NoOracle
  <1>5. KeysAreNew /\ KeysWereStarted /\ LatestHasItsName
    BY <1>3, <1>4 DEF Init, KeysAreNew, KeysWereStarted, LatestHasItsName, Fresh, Bound
  <1>6. PipesAreHeld /\ PeersWereLetIn
    BY <1>3, <1>4, TreeAssumption DEF PipesAreHeld, PeersWereLetIn, Listening
  <1> QED BY <1>2, <1>5, <1>6 DEF OraclesInv

(* A command changes, the oracle that served it is free again, and a context*)
(* may get its key; what the command has become is in order.                *)
LEMMA CommandMovesOn ==
    ASSUME OraclesInv, NEW c \in Commands, NEW new \in CommandType, command' = [command EXCEPT ![c] = new],
           UNCHANGED <<platform, logon, alive, place, event, latest, clock>>,
           oracle' \in [Keys -> OracleType],
           \A k \in Keys : /\ oracle'[k].state = oracle[k].state /\ oracle'[k].anchor = oracle[k].anchor
                           /\ oracle'[k].told = oracle[k].told
                           /\ oracle'[k].peer \in {oracle[k].peer, None} /\ oracle'[k].peer # c,
           config' \in [Contexts -> Keys \cup {None}],
           \A x \in Contexts : config'[x] # None => oracle[config'[x]].state # None,
           new.pc \in Fresh => /\ new.key \in Keys /\ oracle[new.key].state = None
                               /\ \A d \in Commands \ {c} :
                                     command[d].pc \in Fresh => command[d].key # new.key,
           new.pc \in Bound => new.key \in Keys /\ oracle[new.key].state # None,
           new.pc # "idle" => new.by \in Processes,
           new.conn # None => new.pc \in {"list", "sign"},
           new.pc \in {"list", "sign"} => new.at \in Processes
    PROVE  OraclesInv'
  <1> USE DEF OraclesInv
  <1>1. /\ command' \in [Commands -> CommandType] /\ command'[c] = new
        /\ \A d \in Commands \ {c} : command'[d] = command[d]
    BY DEF OraclesTyped
  <1>2. OraclesTyped'
    BY <1>1 DEF OraclesTyped
  <1>3. KeysAreNew'
    BY <1>1 DEF KeysAreNew
  <1>4. KeysWereStarted'
    <2>1. ASSUME NEW x \in Contexts, config'[x] # None PROVE oracle'[config'[x]].state # None
      BY <2>1
    <2>2. ASSUME NEW d \in Commands, command'[d].pc \in Bound
          PROVE  command'[d].key \in Keys /\ oracle'[command'[d].key].state # None
      BY <1>1, <2>2 DEF KeysWereStarted
    <2> QED BY <2>1, <2>2 DEF KeysWereStarted
  <1>5. LatestHasItsName' /\ PipesAreHeld'
    BY DEF LatestHasItsName, PipesAreHeld, Windows, OraclesTyped
  <1>6. PeersWereLetIn'
    <2>1. ASSUME NEW k \in Keys, oracle'[k].peer # None
          PROVE  /\ oracle'[k].state = "serving" /\ command'[oracle'[k].peer].conn = k
                 /\ oracle'[k].anchor \in ToSet(Line[command'[oracle'[k].peer].by])
                 /\ SameLogon(k, oracle[k].peer)' /\ oracle'[k].peer = oracle[k].peer
      <3>1. PICK d \in Commands : d = oracle[k].peer /\ d # c /\ oracle'[k].peer = d
        BY <2>1 DEF OraclesTyped, OracleType
      <3>2. /\ oracle[k].state = "serving" /\ command[d].conn = k
            /\ oracle[k].anchor \in ToSet(Line[command[d].by]) /\ SameLogon(k, d)
        BY <2>1, <3>1 DEF PeersWereLetIn
      <3>3. command'[d] = command[d]
        BY <1>1, <3>1
      <3> QED BY <3>1, <3>2, <3>3 DEF SameLogon
    <2>2. ASSUME NEW d \in Commands
          PROVE  /\ command'[d].pc # "idle" => command'[d].by \in Processes
                 /\ command'[d].conn # None => command'[d].pc \in {"list", "sign"}
                 /\ command'[d].pc \in {"list", "sign"} => command'[d].at \in Processes
      BY <1>1 DEF PeersWereLetIn
    <2> QED BY <2>1, <2>2 DEF PeersWereLetIn
  <1> QED BY <1>2, <1>3, <1>4, <1>5, <1>6

(* Often nothing else changes.                                              *)
LEMMA CommandMoves ==
    ASSUME OraclesInv, UNCHANGED oracleRest, NEW c \in Commands, NEW new \in CommandType,
           command' = [command EXCEPT ![c] = new], \A k \in Keys : oracle[k].peer # c,
           new.pc \in Fresh => /\ new.key \in Keys /\ oracle[new.key].state = None
                               /\ \A d \in Commands \ {c} :
                                     command[d].pc \in Fresh => command[d].key # new.key,
           new.pc \in Bound => new.key \in Keys /\ oracle[new.key].state # None,
           new.pc # "idle" => new.by \in Processes,
           new.conn # None => new.pc \in {"list", "sign"},
           new.pc \in {"list", "sign"} => new.at \in Processes
    PROVE  OraclesInv'
  <1>1. oracle \in [Keys -> OracleType] /\ config \in [Contexts -> Keys \cup {None}]
        /\ \A x \in Contexts : config[x] # None => oracle[config[x]].state # None
    BY DEF OraclesInv, OraclesTyped, KeysWereStarted
  <1> QED BY <1>1, CommandMovesOn DEF oracleRest

(* An oracle serves only commands that have a connection to it.             *)
LEMMA NotServed ==
    ASSUME OraclesInv, NEW c \in Commands, command[c].conn = None, NEW k \in Keys
    PROVE  oracle[k].peer # c
  BY TreeAssumption DEF OraclesInv, PeersWereLetIn

LEMMA Unconnected ==
    ASSUME OraclesInv, NEW c \in Commands, command[c].pc \notin {"list", "sign"}
    PROVE  command[c].conn = None
  BY DEF OraclesInv, PeersWereLetIn

LEMMA CommandRests ==
    ASSUME OraclesInv, UNCHANGED oracleRest, NEW c \in Commands, Rest(c), \A k \in Keys : oracle[k].peer # c
    PROVE  OraclesInv'
  <1>1. PICK new \in CommandType : new = NoCommand
    BY DEF NoCommand, CommandType
  <1>2. new.pc = "idle" /\ new.conn = None
    BY <1>1 DEF NoCommand
  <1>3. command' = [command EXCEPT ![c] = new]
    BY <1>1 DEF Rest
  <1> QED BY <1>2, <1>3, CommandMoves DEF Fresh, Bound

LEMMA LoginStarts ==
    ASSUME OraclesInv, NEW c \in Commands, NEW p \in Processes, NEW x \in Contexts,
           NEW kind \in {"http_sig", "oidc"}, StartLogin(c, p, x, kind)
    PROVE  OraclesInv'
  <1>1. PICK k \in Keys \ Used : command' = [command EXCEPT ![c] = [NoCommand EXCEPT
                 !.pc = "start", !.kind = kind, !.by = p, !.ctx = x, !.key = k]]
    BY DEF StartLogin
  <1>2. PICK new : new = [NoCommand EXCEPT !.pc = "start", !.kind = kind, !.by = p, !.ctx = x, !.key = k]
    OBVIOUS
  <1>3. new \in CommandType /\ new.pc = "start" /\ new.key = k /\ new.by = p /\ new.conn = None
    BY <1>2 DEF NoCommand, CommandType, Fresh
  <1>4. command' = [command EXCEPT ![c] = new] /\ UNCHANGED oracleRest /\ command[c].pc = "idle"
    BY <1>1, <1>2 DEF StartLogin, oracleRest
  <1>5. oracle[k].state = None /\ \A d \in Commands : command[d].pc \in Fresh => command[d].key # k
    BY <1>1 DEF Used, Fresh
  <1>6. \A j \in Keys : oracle[j].peer # c
    BY <1>4, NotServed, Unconnected
  <1> QED BY <1>3, <1>4, <1>5, <1>6, CommandMoves DEF Fresh, Bound

LEMMA UseStarts ==
    ASSUME OraclesInv, NEW c \in Commands, NEW p \in Processes, NEW x \in Contexts, StartUse(c, p, x)
    PROVE  OraclesInv'
  <1>1. PICK new : new = [NoCommand EXCEPT !.pc = "find", !.by = p, !.ctx = x, !.key = config[x]]
    OBVIOUS
  <1>2. config[x] \in Keys /\ oracle[config[x]].state # None
    BY DEF StartUse, OraclesInv, OraclesTyped, KeysWereStarted
  <1>3. new \in CommandType /\ new.pc = "find" /\ new.key = config[x] /\ new.by = p /\ new.conn = None
    BY <1>1, <1>2 DEF NoCommand, CommandType, Bound
  <1>4. command' = [command EXCEPT ![c] = new] /\ UNCHANGED oracleRest /\ command[c].pc = "idle"
    BY <1>1 DEF StartUse, oracleRest
  <1>5. \A j \in Keys : oracle[j].peer # c
    BY <1>4, NotServed, Unconnected
  <1> QED BY <1>2, <1>3, <1>4, <1>5, CommandMoves DEF Fresh, Bound

LEMMA Finds ==
    ASSUME OraclesInv, NEW c \in Commands, Find(c)
    PROVE  OraclesInv'
  <1>1. command[c] \in CommandType /\ command[c].pc = "find" /\ UNCHANGED oracleRest
    BY DEF Find, OraclesInv, OraclesTyped, oracleRest
  <1>2. command[c].conn = None
    BY <1>1, Unconnected
  <1>3. \A j \in Keys : oracle[j].peer # c
    BY <1>2, NotServed
  <1>4. CASE Rest(c)
    BY <1>1, <1>3, <1>4, CommandRests
  <1>5. CASE ~Rest(c)
    <2>1. PICK p : p = command[c].by
      OBVIOUS
    <2>2. PICK q : q = (IF Windows THEN CurrentPipe(p) ELSE CurrentSocketPath(p))
      OBVIOUS
    <2>3. p \in alive /\ command' = [command EXCEPT ![c].pc = "list", ![c].at = q]
      BY <1>5, <2>1, <2>2 DEF Find
    <2>4. q \in Processes /\ p \in Processes
      BY <2>2, <2>3, CommandsFindProcesses DEF OraclesInv, OraclesTyped
    <2>5. PICK new : new = [command[c] EXCEPT !.pc = "list", !.at = q]
      OBVIOUS
    <2>6. /\ new \in CommandType /\ new.pc = "list" /\ new.key = command[c].key /\ new.conn = None
          /\ new.by = p /\ new.at = q
      BY <1>1, <1>2, <2>1, <2>4, <2>5 DEF CommandType, Bound
    <2>7. command' = [command EXCEPT ![c] = new]
      BY <2>3, <2>5 DEF OraclesInv, OraclesTyped
    <2>8. command[c].key \in Keys /\ oracle[command[c].key].state # None
      BY <1>1 DEF OraclesInv, KeysWereStarted, Bound
    <2> QED BY <1>1, <1>3, <2>4, <2>6, <2>7, <2>8, CommandMoves DEF Fresh, Bound
  <1> QED BY <1>4, <1>5

LEMMA Connects ==
    ASSUME OraclesInv, NEW c \in Commands, Connect(c)
    PROVE  OraclesInv'
  <1>1. /\ command[c] \in CommandType /\ command[c].pc \in {"list", "sign"} /\ UNCHANGED oracleRest
        /\ command[c].conn = None
    BY DEF Connect, OraclesInv, OraclesTyped, oracleRest
  <1>3. \A j \in Keys : oracle[j].peer # c
    BY <1>1, NotServed
  <1>4. CASE Rest(c)
    BY <1>1, <1>3, <1>4, CommandRests
  <1>5. CASE ~Rest(c)
    <2>1. PICK k : k = place[command[c].at]
      OBVIOUS
    <2>2. k # None /\ oracle[k].state \in Listening /\ command' = [command EXCEPT ![c].conn = k]
      BY <1>5, <2>1 DEF Connect
    <2>3. PICK new : new = [command[c] EXCEPT !.conn = k]
      OBVIOUS
    <2>4. k \in Keys
      BY <1>1, <2>1, <2>2 DEF OraclesInv, OraclesTyped, PeersWereLetIn
    <2>5. /\ new \in CommandType /\ new.pc = command[c].pc /\ new.key = command[c].key
          /\ new.by = command[c].by /\ new.at = command[c].at
      BY <1>1, <2>3, <2>4 DEF CommandType
    <2>6. command' = [command EXCEPT ![c] = new]
      BY <2>2, <2>3 DEF OraclesInv, OraclesTyped
    <2>7. command[c].key \in Keys /\ oracle[command[c].key].state # None /\ command[c].by \in Processes
         /\ command[c].at \in Processes
      BY <1>1 DEF OraclesInv, KeysWereStarted, Bound, PeersWereLetIn
    <2> QED BY <1>1, <1>3, <2>5, <2>6, <2>7, CommandMoves DEF Fresh, Bound
  <1> QED BY <1>4, <1>5
(* An oracle starts for a key that has none yet.                            *)
LEMMA OracleStarts ==
    ASSUME OraclesInv, NEW c \in Commands, NEW k, k = command[c].key, command[c].pc \in Fresh,
           NEW p \in Processes, NEW o \in OracleType, oracle' = [oracle EXCEPT ![k] = o],
           place' = [place EXCEPT ![p] = k], latest' = [latest EXCEPT ![p] = k],
           NEW new \in CommandType, command' = [command EXCEPT ![c] = new],
           o.state # None, o.peer = None, o.state \in Listening => o.anchor = p,
           Windows => o.state = "starting" /\ place[p] = None,
           new.pc \in Bound => new.key = k, new.pc \notin Fresh, new.pc # "idle" => new.by \in Processes,
           new.conn = None, new.pc \notin {"list", "sign"},
           UNCHANGED <<platform, logon, alive, event, config, clock>>
    PROVE  OraclesInv'
  <1> USE DEF OraclesInv
  <1>1. k \in Keys /\ oracle[k].state = None
    BY DEF KeysAreNew
  <1>2. /\ command' \in [Commands -> CommandType] /\ command'[c] = new
        /\ \A d \in Commands \ {c} : command'[d] = command[d]
    BY DEF OraclesTyped
  <1>3. /\ oracle' \in [Keys -> OracleType] /\ oracle'[k] = o
        /\ \A j \in Keys \ {k} : oracle'[j] = oracle[j]
    BY <1>1 DEF OraclesTyped
  <1>4. /\ place' \in [Processes -> Keys \cup {None}] /\ place'[p] = k
        /\ \A q \in Processes \ {p} : place'[q] = place[q]
    BY <1>1 DEF OraclesTyped
  <1>5. /\ latest' \in [Processes -> Keys \cup {None}] /\ latest'[p] = k
        /\ \A q \in Processes \ {p} : latest'[q] = latest[q]
    BY <1>1 DEF OraclesTyped
  <1>6. OraclesTyped'
    BY <1>2, <1>3, <1>4, <1>5 DEF OraclesTyped
  <1>7. KeysAreNew'
    <2>1. ASSUME NEW d \in Commands, command'[d].pc \in Fresh
          PROVE  /\ d # c /\ command'[d] = command[d] /\ command[d].key \in Keys
                 /\ command[d].key # k /\ oracle'[command[d].key].state = None
      BY <1>2, <1>3, <2>1 DEF KeysAreNew
    <2> QED BY <2>1 DEF KeysAreNew
  <1>8. KeysWereStarted'
    <2>1. ASSUME NEW x \in Contexts, config'[x] # None PROVE oracle'[config'[x]].state # None
      BY <1>3, <2>1 DEF KeysWereStarted, OraclesTyped
    <2>2. ASSUME NEW d \in Commands, command'[d].pc \in Bound
          PROVE  command'[d].key \in Keys /\ oracle'[command'[d].key].state # None
      <3>1. CASE d = c
        BY <1>1, <1>2, <1>3, <2>2, <3>1
      <3>2. CASE d # c
        BY <1>2, <1>3, <2>2, <3>2 DEF KeysWereStarted
      <3> QED BY <3>1, <3>2
    <2> QED BY <2>1, <2>2 DEF KeysWereStarted
  <1>9. LatestHasItsName'
    <2>1. ASSUME NEW q \in Processes, latest'[q] # None
          PROVE  /\ oracle'[latest'[q]].state # None
                 /\ oracle'[latest'[q]].state \in Listening =>
                       oracle'[latest'[q]].anchor = q /\ place'[q] = latest'[q]
      <3>1. CASE q = p
        BY <1>3, <1>4, <1>5, <3>1
      <3>2. CASE q # p
        <4>1. latest'[q] = latest[q] /\ latest[q] \in Keys /\ place'[q] = place[q]
          BY <1>4, <1>5, <2>1, <3>2 DEF OraclesTyped
        <4>2. oracle'[latest[q]] = oracle[latest[q]]
          BY <1>1, <1>3, <2>1, <4>1 DEF LatestHasItsName
        <4> QED BY <2>1, <4>1, <4>2 DEF LatestHasItsName
      <3> QED BY <3>1, <3>2
    <2> QED BY <2>1 DEF LatestHasItsName
  <1>10. PipesAreHeld'
    <2>1. SUFFICES ASSUME Windows, NEW j \in Keys, oracle'[j].state \in Listening
                   PROVE  /\ oracle'[j].anchor \in Processes /\ place'[oracle'[j].anchor] = j
                          /\ oracle'[j].state = "serving" /\ event'[oracle'[j].anchor] = "set"
                                => oracle'[j].told
      BY DEF PipesAreHeld, Windows
    <2>2. CASE j = k
      BY <1>3, <1>4, <2>1, <2>2
    <2>3. CASE j # k
      <3>1. /\ oracle'[j] = oracle[j] /\ oracle[j].anchor \in Processes
            /\ place[oracle[j].anchor] = j
        BY <1>3, <2>1, <2>3 DEF PipesAreHeld
      <3>2. oracle[j].anchor # p
        BY <2>1, <3>1, TreeAssumption
      <3> QED BY <1>4, <2>1, <3>1, <3>2 DEF PipesAreHeld
    <2> QED BY <2>2, <2>3
  <1>11. PeersWereLetIn'
    <2>1. ASSUME NEW j \in Keys, oracle'[j].peer # None
          PROVE  /\ oracle'[j].state = "serving" /\ command'[oracle'[j].peer].conn = j
                 /\ oracle'[j].anchor \in ToSet(Line[command'[oracle'[j].peer].by])
                 /\ SameLogon(j, oracle[j].peer)'
      <3>1. j # k /\ oracle'[j] = oracle[j]
        BY <1>3, <2>1
      <3>2. PICK d \in Commands : d = oracle[j].peer
        BY <2>1, <3>1 DEF OraclesTyped, OracleType
      <3>3. command[c].conn = None
        BY DEF PeersWereLetIn, Fresh
      <3>4. command[d].conn = j /\ oracle[j].state = "serving"
            /\ oracle[j].anchor \in ToSet(Line[command[d].by]) /\ SameLogon(j, d)
        BY <2>1, <3>1, <3>2 DEF PeersWereLetIn
      <3>5. d # c
        BY <3>3, <3>4, TreeAssumption
      <3>6. command'[d] = command[d] /\ oracle'[j].peer = d
        BY <1>2, <3>1, <3>2, <3>5
      <3> QED BY <3>1, <3>4, <3>6 DEF SameLogon
    <2>2. ASSUME NEW d \in Commands
          PROVE  /\ command'[d].pc # "idle" => command'[d].by \in Processes
                 /\ command'[d].conn # None => command'[d].pc \in {"list", "sign"}
                 /\ command'[d].pc \in {"list", "sign"} => command'[d].at \in Processes
      BY <1>2 DEF PeersWereLetIn
    <2> QED BY <2>1, <2>2 DEF PeersWereLetIn
  <1> QED BY <1>6, <1>7, <1>8, <1>9, <1>10, <1>11

(* What a login becomes with its oracle, or without.                        *)
LEMMA CommandWithOracle ==
    ASSUME OraclesInv, NEW c \in Commands, command[c].pc \in Fresh,
           Become(c, AfterSpawn(c)) \/ Rest(c)
    PROVE  \E new \in CommandType :
              /\ command' = [command EXCEPT ![c] = new]
              /\ new.pc \in Bound => new.key = command[c].key
              /\ new.pc \notin Fresh /\ (new.pc # "idle" => new.by \in Processes)
              /\ new.conn = None /\ new.pc \notin {"list", "sign"}
  <1>0. command[c] \in CommandType /\ command[c].by \in Processes /\ command[c].conn = None
    BY DEF OraclesInv, OraclesTyped, PeersWereLetIn, Fresh
  <1>1. CASE Rest(c)
    <2>1. PICK new \in CommandType : new = NoCommand
      BY DEF NoCommand, CommandType
    <2> QED BY <1>1, <2>1 DEF Rest, NoCommand, Fresh, Bound
  <1>2. CASE Become(c, AfterSpawn(c))
    <2>1. PICK pc \in {"find", "post"} : pc = AfterSpawn(c)
      BY DEF AfterSpawn
    <2>2. PICK new : new = [command[c] EXCEPT !.pc = pc]
      OBVIOUS
    <2>3. new \in CommandType /\ new.pc = pc /\ new.key = command[c].key /\ new.by = command[c].by
          /\ new.conn = command[c].conn
      BY <1>0, <2>2 DEF CommandType, Bound
    <2>4. command' = [command EXCEPT ![c] = new]
      BY <1>2, <2>1, <2>2 DEF Become, OraclesInv, OraclesTyped
    <2> QED BY <1>0, <2>3, <2>4 DEF Fresh
  <1> QED BY <1>1, <1>2

LEMMA StartedOracles ==
    ASSUME OraclesInv, NEW k, NEW p \in Processes, NEW state \in Listening, Started(k, p, state)
    PROVE  \E o \in OracleType : /\ oracle' = [oracle EXCEPT ![k] = o]
                                 /\ o.state = state /\ o.peer = None /\ o.anchor = p
  <1>1. PICK o : o = [state |-> state, anchor |-> p, deadline |-> clock + TTL, peer |-> None, told |-> FALSE]
    OBVIOUS
  <1>2. clock + TTL \in Int
    BY TreeAssumption DEF OraclesInv, OraclesTyped
  <1>3. o \in OracleType
    BY <1>1, <1>2 DEF OracleType
  <1> QED BY <1>1, <1>3 DEF Started

LEMMA EndedIsTyped == Ended \in OracleType /\ Ended.state = "ended" /\ Ended.peer = None
  <1>1. PICK none : none = NoOracle
    OBVIOUS
  <1>2. none \in OracleType /\ none.peer = None
    BY <1>1 DEF NoOracle, OracleType
  <1>3. Ended = [none EXCEPT !.state = "ended"]
    BY <1>1 DEF Ended
  <1> QED BY <1>2, <1>3 DEF OracleType

LEMMA PosixSpawns ==
    ASSUME OraclesInv, NEW c \in Commands, PosixSpawn(c)
    PROVE  OraclesInv'
  <1>1. PICK p, k : p = command[c].by /\ k = command[c].key
    OBVIOUS
  <1>2. /\ ~Windows /\ command[c].pc \in Fresh /\ p \in Processes
        /\ place' = [place EXCEPT ![p] = k] /\ latest' = [latest EXCEPT ![p] = k]
        /\ UNCHANGED <<platform, logon, alive, event, config, clock>>
    BY <1>1 DEF PosixSpawn, Fresh, OraclesInv, OraclesTyped
  <1>3. PICK new \in CommandType :
              /\ command' = [command EXCEPT ![c] = new]
              /\ new.pc \in Bound => new.key = command[c].key
              /\ new.pc \notin Fresh /\ (new.pc # "idle" => new.by \in Processes)
              /\ new.conn = None /\ new.pc \notin {"list", "sign"}
    BY <1>2, CommandWithOracle DEF PosixSpawn
  <1>4. PICK o \in OracleType : /\ oracle' = [oracle EXCEPT ![k] = o] /\ o.state # None
                                /\ o.peer = None /\ (o.state \in Listening => o.anchor = p)
    <2>1. CASE Started(k, p, "serving")
      <3>1. PICK o \in OracleType : /\ oracle' = [oracle EXCEPT ![k] = o]
                                    /\ o.state = "serving" /\ o.peer = None /\ o.anchor = p
        BY <1>2, <2>1, StartedOracles DEF Listening
      <3> QED BY <3>1, TreeAssumption DEF Listening
    <2>2. CASE oracle' = [oracle EXCEPT ![k] = Ended]
      <3>1. PICK o : o = Ended
        OBVIOUS
      <3>2. o \in OracleType /\ o.state = "ended" /\ o.peer = None
        BY <3>1, EndedIsTyped
      <3> QED BY <2>2, <3>1, <3>2, TreeAssumption DEF Listening
    <2> QED BY <1>1, <2>1, <2>2 DEF PosixSpawn
  <1> QED BY <1>1, <1>2, <1>3, <1>4, OracleStarts

LEMMA WindowsSpawns ==
    ASSUME OraclesInv, NEW c \in Commands, WindowsSpawn(c)
    PROVE  OraclesInv'
  <1>1. PICK p, k : p = Anchor(command[c].by) /\ k = command[c].key
    OBVIOUS
  <1>2. /\ Windows /\ command[c].pc \in Fresh /\ UNCHANGED <<platform, logon, alive, event, config, clock>>
    BY DEF WindowsSpawn, Fresh
  <1>3. p \in Processes
    BY <1>1, AnchorIsAbove DEF WindowsSpawn, OraclesInv, OraclesTyped
  <1>4. CASE PipeIsFree(p)
    <2>1. /\ place' = [place EXCEPT ![p] = k] /\ latest' = [latest EXCEPT ![p] = k]
          /\ Started(k, p, "starting") /\ Become(c, AfterSpawn(c)) /\ place[p] = None
      BY <1>1, <1>4 DEF WindowsSpawn, PipeIsFree
    <2>2. PICK new \in CommandType :
                /\ command' = [command EXCEPT ![c] = new]
                /\ new.pc \in Bound => new.key = command[c].key
                /\ new.pc \notin Fresh /\ (new.pc # "idle" => new.by \in Processes)
                /\ new.conn = None /\ new.pc \notin {"list", "sign"}
      BY <1>2, <2>1, CommandWithOracle
    <2>3. PICK o \in OracleType : /\ oracle' = [oracle EXCEPT ![k] = o]
                                  /\ o.state = "starting" /\ o.peer = None /\ o.anchor = p
      BY <1>3, <2>1, StartedOracles DEF Listening
    <2>4. o.state # None
      BY <2>3, TreeAssumption DEF Listening
    <2> QED BY <1>1, <1>2, <1>3, <2>1, <2>2, <2>3, <2>4, OracleStarts
  <1>5. CASE ~PipeIsFree(p)
    <2>1. command[c].pc = "start" /\ Become(c, "wait") /\ UNCHANGED oracleRest
      BY <1>1, <1>2, <1>5 DEF WindowsSpawn, oracleRest
    <2>2. command[c] \in CommandType /\ command[c].by \in Processes /\ command[c].conn = None
      BY <2>1 DEF OraclesInv, OraclesTyped, PeersWereLetIn
    <2>3. PICK new : new = [command[c] EXCEPT !.pc = "wait"]
      OBVIOUS
    <2>4. new \in CommandType /\ new.pc = "wait" /\ new.key = k /\ new.by = command[c].by
          /\ new.conn = command[c].conn
      BY <1>1, <2>2, <2>3 DEF CommandType, Fresh
    <2>5. command' = [command EXCEPT ![c] = new]
      BY <2>1, <2>3 DEF Become, OraclesInv, OraclesTyped
    <2>6. /\ k \in Keys /\ oracle[k].state = None
          /\ \A d \in Commands \ {c} : command[d].pc \in Fresh => command[d].key # k
      BY <1>1, <1>2 DEF OraclesInv, KeysAreNew
    <2>7. \A j \in Keys : oracle[j].peer # c
      BY <2>2, NotServed
    <2> QED BY <2>1, <2>2, <2>4, <2>5, <2>6, <2>7, CommandMoves DEF Fresh, Bound
  <1> QED BY <1>4, <1>5
LEMMA LoginsEnd ==
    ASSUME OraclesInv, NEW c \in Commands, LoseShell(c) \/ GiveUp(c)
    PROVE  OraclesInv'
  <1>1. UNCHANGED oracleRest /\ Rest(c) /\ command[c].pc \in Fresh
    BY DEF LoseShell, GiveUp, oracleRest, Fresh
  <1>2. \A k \in Keys : oracle[k].peer # c
    BY <1>1, NotServed, Unconnected DEF Fresh
  <1> QED BY <1>1, <1>2, CommandRests

LEMMA ServerAnswers ==
    ASSUME OraclesInv, NEW c \in Commands, Answered(c)
    PROVE  OraclesInv'
  <1>1. /\ command[c].pc = "post" /\ Rest(c)
        /\ UNCHANGED <<platform, logon, alive, oracle, place, event, latest, clock>>
    BY DEF Answered
  <1>2. \A k \in Keys : oracle[k].peer # c
    BY <1>1, NotServed, Unconnected
  <1>3. CASE UNCHANGED config
    BY <1>1, <1>2, <1>3, CommandRests DEF oracleRest
  <1>4. CASE config' = [config EXCEPT ![command[c].ctx] = command[c].key]
    <2>1. PICK k \in Keys : k = command[c].key /\ oracle[k].state # None
      BY <1>1 DEF OraclesInv, KeysWereStarted, Bound
    <2>2. config' \in [Contexts -> Keys \cup {None}] /\ \A x \in Contexts : config'[x] \in {config[x], k}
      BY <1>4, <2>1 DEF OraclesInv, OraclesTyped
    <2>3. \A x \in Contexts : config'[x] # None => oracle[config'[x]].state # None
      BY <2>1, <2>2 DEF OraclesInv, KeysWereStarted
    <2>4. PICK new \in CommandType : new = NoCommand
      BY DEF NoCommand, CommandType
    <2>5. new.pc = "idle" /\ new.conn = None /\ command' = [command EXCEPT ![c] = new]
      BY <1>1, <2>4 DEF NoCommand, Rest
    <2>6. oracle \in [Keys -> OracleType]
      BY DEF OraclesInv, OraclesTyped
    <2> QED BY <1>1, <1>2, <2>2, <2>3, <2>5, <2>6, CommandMovesOn DEF Fresh, Bound
  <1> QED BY <1>3, <1>4 DEF Answered

(* The announcement tells the oracle that has the name.                     *)
LEMMA Announces ==
    ASSUME OraclesInv, NEW c \in Commands, Announce(c)
    PROVE  OraclesInv'
  <1> USE DEF OraclesInv
  <1>1. PICK p : p = Anchor(command[c].by)
    OBVIOUS
  <1>2. /\ event' = [event EXCEPT ![p] = "set"]
        /\ oracle' = [k \in Keys |-> IF k = place[p] /\ oracle[k].state = "serving"
                                     THEN [oracle[k] EXCEPT !.told = TRUE] ELSE oracle[k]]
        /\ UNCHANGED <<platform, logon, alive, place, config, command, latest, clock>>
    BY <1>1 DEF Announce
  <1>3. ASSUME NEW k \in Keys
        PROVE  /\ oracle'[k] \in OracleType
               /\ oracle'[k].state = oracle[k].state /\ oracle'[k].anchor = oracle[k].anchor
               /\ oracle'[k].peer = oracle[k].peer
               /\ oracle[k].told => oracle'[k].told
               /\ k = place[p] /\ oracle[k].state = "serving" => oracle'[k].told
    <2>1. oracle[k] \in OracleType
      BY DEF OraclesTyped
    <2>2. CASE k = place[p] /\ oracle[k].state = "serving"
      <3>1. oracle'[k] = [oracle[k] EXCEPT !.told = TRUE]
        BY <1>2, <2>2
      <3> QED BY <2>1, <3>1 DEF OracleType
    <2>3. CASE ~(k = place[p] /\ oracle[k].state = "serving")
      BY <1>2, <2>1, <2>3
    <2> QED BY <2>2, <2>3
  <1>4. oracle' \in [Keys -> OracleType]
    BY <1>2, <1>3
  <1>5. OraclesTyped'
    BY <1>2, <1>4 DEF OraclesTyped
  <1>6. KeysAreNew' /\ KeysWereStarted'
    BY <1>2, <1>3 DEF KeysAreNew, KeysWereStarted, OraclesTyped
  <1>7. LatestHasItsName'
    BY <1>2, <1>3 DEF LatestHasItsName, OraclesTyped
  <1>8. PipesAreHeld'
    <2>1. SUFFICES ASSUME Windows, NEW k \in Keys, oracle'[k].state \in Listening
                   PROVE  /\ oracle'[k].anchor \in Processes /\ place'[oracle'[k].anchor] = k
                          /\ oracle'[k].state = "serving" /\ event'[oracle'[k].anchor] = "set"
                                => oracle'[k].told
      BY <1>2 DEF PipesAreHeld, Windows
    <2>2. oracle[k].anchor \in Processes /\ place[oracle[k].anchor] = k
          /\ (oracle[k].state = "serving" /\ event[oracle[k].anchor] = "set" => oracle[k].told)
      BY <1>3, <2>1 DEF PipesAreHeld
    <2>3. oracle[k].anchor # p => event'[oracle[k].anchor] = event[oracle[k].anchor]
      BY <1>2, <2>2 DEF OraclesTyped
    <2> QED BY <1>2, <1>3, <2>2, <2>3
  <1>9. PeersWereLetIn'
    BY <1>2, <1>3 DEF PeersWereLetIn, SameLogon
  <1> QED BY <1>5, <1>6, <1>7, <1>8, <1>9

(* One oracle changes and none of the commands.                             *)
LEMMA OracleMoves ==
    ASSUME OraclesInv, NEW k \in Keys, NEW o \in OracleType, oracle' = [oracle EXCEPT ![k] = o],
           oracle[k].state \in Listening, o.state \in Listening, o.anchor = oracle[k].anchor,
           event' \in [Processes -> {"absent", "unset", "set"}],
           \A p \in Processes \ {o.anchor} : event'[p] = event[p],
           Windows /\ o.state = "serving" /\ event'[o.anchor] = "set" => o.told,
           o.peer # None => LET c == o.peer IN
               /\ o.state = "serving" /\ command[c].conn = k
               /\ o.anchor \in ToSet(Line[command[c].by]) /\ SameLogon(k, c),
           UNCHANGED <<platform, logon, alive, place, config, command, latest, clock>>
    PROVE  OraclesInv'
  <1> USE DEF OraclesInv
  <1>1. /\ oracle' \in [Keys -> OracleType] /\ oracle'[k] = o
        /\ \A j \in Keys \ {k} : oracle'[j] = oracle[j]
    BY DEF OraclesTyped
  <1>2. oracle[k].state # None /\ o.state # None
    BY TreeAssumption
  <1>3. OraclesTyped'
    BY <1>1 DEF OraclesTyped
  <1>4. KeysAreNew' /\ KeysWereStarted'
    BY <1>1, <1>2 DEF KeysAreNew, KeysWereStarted, OraclesTyped
  <1>5. LatestHasItsName'
    BY <1>1, <1>2 DEF LatestHasItsName, OraclesTyped
  <1>6. PipesAreHeld'
    <2>1. SUFFICES ASSUME Windows, NEW j \in Keys, oracle'[j].state \in Listening
                   PROVE  /\ oracle'[j].anchor \in Processes /\ place'[oracle'[j].anchor] = j
                          /\ oracle'[j].state = "serving" /\ event'[oracle'[j].anchor] = "set"
                                => oracle'[j].told
      BY DEF PipesAreHeld, Windows
    <2>0. o.anchor \in Processes /\ place[o.anchor] = k
      BY <2>1 DEF PipesAreHeld
    <2>2. CASE j = k
      BY <1>1, <2>0, <2>1, <2>2
    <2>3. CASE j # k
      <3>1. /\ oracle'[j] = oracle[j] /\ oracle[j].anchor \in Processes
            /\ place[oracle[j].anchor] = j
        BY <1>1, <2>1, <2>3 DEF PipesAreHeld
      <3>2. event'[oracle[j].anchor] = event[oracle[j].anchor]
        BY <2>0, <2>3, <3>1
      <3> QED BY <2>1, <3>1, <3>2 DEF PipesAreHeld
    <2> QED BY <2>2, <2>3
  <1>7. PeersWereLetIn'
    <2>1. ASSUME NEW j \in Keys, oracle'[j].peer # None
          PROVE  LET c == oracle'[j].peer IN
                 /\ oracle'[j].state = "serving" /\ command[c].conn = j
                 /\ oracle'[j].anchor \in ToSet(Line[command[c].by])
                 /\ logon[command[c].by] = logon[oracle'[j].anchor]
      <3>1. CASE j = k
        BY <1>1, <2>1, <3>1 DEF SameLogon
      <3>2. CASE j # k
        BY <1>1, <2>1, <3>2 DEF PeersWereLetIn, SameLogon
      <3> QED BY <3>1, <3>2
    <2> QED BY <2>1 DEF PeersWereLetIn, SameLogon
  <1> QED BY <1>3, <1>4, <1>5, <1>6, <1>7

LEMMA OracleIsReady ==
    ASSUME OraclesInv, NEW k \in Keys, Ready(k)
    PROVE  OraclesInv'
  <1>1. oracle[k] \in OracleType /\ oracle[k].state = "starting"
    BY DEF Ready, OraclesInv, OraclesTyped
  <1>2. PICK o : o = [oracle[k] EXCEPT !.state = "serving"]
    OBVIOUS
  <1>3. /\ o \in OracleType /\ o.state = "serving" /\ o.anchor = oracle[k].anchor
        /\ o.peer = oracle[k].peer
    BY <1>1, <1>2 DEF OracleType, Listening
  <1>4. oracle' = [oracle EXCEPT ![k] = o] /\ event' = [event EXCEPT ![o.anchor] = "unset"]
        /\ UNCHANGED <<platform, logon, alive, place, config, command, latest, clock>>
    BY <1>2, <1>3 DEF Ready, EventAtStart, OraclesInv, OraclesTyped
  <1>5. event' \in [Processes -> {"absent", "unset", "set"}]
        /\ \A p \in Processes \ {o.anchor} : event'[p] = event[p]
    BY <1>4 DEF OraclesInv, OraclesTyped
  <1>6. o.peer = None
    BY <1>1, <1>3 DEF OraclesInv, PeersWereLetIn
  <1>7. Windows => event'[o.anchor] = "unset"
    BY <1>1, <1>3, <1>4 DEF OraclesInv, OraclesTyped, PipesAreHeld, Listening
  <1>8. oracle[k].state \in Listening /\ o.state \in Listening
    BY <1>1, <1>3 DEF Listening
  <1>9. Windows => event'[o.anchor] # "set"
    BY <1>7
  <1> QED BY <1>3, <1>4, <1>5, <1>6, <1>8, <1>9, OracleMoves

LEMMA Accepts ==
    ASSUME OraclesInv, NEW k \in Keys, NEW c \in Commands, Accept(k, c)
    PROVE  OraclesInv'
  <1>1. /\ oracle[k] \in OracleType /\ oracle[k].state = "serving" /\ oracle[k].peer = None
        /\ command[c].conn = k
        /\ UNCHANGED <<platform, logon, alive, place, event, config, latest, clock>>
    BY DEF Accept, MayServe, WindowsMayServe, PosixMayServe, OraclesInv, OraclesTyped
  <1>2. command[c].by \in Processes
    BY <1>1, TreeAssumption DEF OraclesInv, PeersWereLetIn
  <1>3. CASE Authorized(k, c)
    <2>1. PICK o : o = [oracle[k] EXCEPT !.peer = c]
      OBVIOUS
    <2>2. /\ o \in OracleType /\ o.state = "serving" /\ o.anchor = oracle[k].anchor
          /\ o.told = oracle[k].told /\ o.peer = c
      BY <1>1, <2>1 DEF OracleType
    <2>3. oracle' = [oracle EXCEPT ![k] = o] /\ UNCHANGED command
      BY <1>3, <2>1 DEF Accept, OraclesInv, OraclesTyped
    <2>4. o.anchor \in ToSet(Line[command[c].by]) /\ SameLogon(k, c)
      BY <1>2, <1>3, <2>2, LetInIsBelow
    <2>5. oracle[k].state \in Listening /\ o.state \in Listening
      BY <1>1, <2>2 DEF Listening
    <2>6. event \in [Processes -> {"absent", "unset", "set"}]
      BY DEF OraclesInv, OraclesTyped
    <2>7. Windows /\ event[o.anchor] = "set" => o.told
      BY <1>1, <2>2, <2>5 DEF OraclesInv, PipesAreHeld
    <2> QED BY <1>1, <2>2, <2>3, <2>4, <2>5, <2>6, <2>7, OracleMoves
  <1>4. CASE ~Authorized(k, c)
    <2>1. Rest(c) /\ UNCHANGED oracleRest
      BY <1>1, <1>4 DEF Accept, oracleRest
    <2>2. ASSUME NEW j \in Keys PROVE oracle[j].peer # c
      BY <1>1, TreeAssumption DEF OraclesInv, PeersWereLetIn
    <2> QED BY <2>1, <2>2, CommandRests
  <1> QED BY <1>3, <1>4
LEMMA Replies ==
    ASSUME OraclesInv, NEW k \in Keys, Reply(k)
    PROVE  OraclesInv'
  <1>1. oracle[k] \in OracleType /\ oracle[k].state = "serving" /\ oracle[k].peer # None
    BY DEF Reply, MayServe, WindowsMayServe, PosixMayServe, OraclesInv, OraclesTyped
  <1>2. PICK c \in Commands : c = oracle[k].peer
    BY <1>1 DEF OracleType
  <1>3. /\ command[c] \in CommandType /\ command[c].conn = k /\ command[c].pc \in {"list", "sign"}
        /\ command[c].by \in Processes /\ command[c].at \in Processes
        /\ command[c].key \in Keys /\ oracle[command[c].key].state # None
    BY <1>1, <1>2, TreeAssumption DEF OraclesInv, OraclesTyped, PeersWereLetIn, KeysWereStarted, Bound
  <1>4. PICK o : o = [oracle[k] EXCEPT !.peer = None]
    OBVIOUS
  <1>5. /\ o \in OracleType /\ o.state = oracle[k].state /\ o.anchor = oracle[k].anchor
        /\ o.told = oracle[k].told /\ o.peer = None
    BY <1>1, <1>4 DEF OracleType
  <1>6. oracle' = [oracle EXCEPT ![k] = o]
    BY <1>4 DEF Reply, OraclesInv, OraclesTyped
  <1>7. oracle' \in [Keys -> OracleType] /\ oracle'[k] = o /\ \A j \in Keys \ {k} : oracle'[j] = oracle[j]
    BY <1>5, <1>6 DEF OraclesInv, OraclesTyped
  <1>8. ASSUME NEW j \in Keys
        PROVE  /\ oracle'[j].state = oracle[j].state /\ oracle'[j].anchor = oracle[j].anchor
               /\ oracle'[j].told = oracle[j].told
               /\ oracle'[j].peer \in {oracle[j].peer, None} /\ oracle'[j].peer # c
    <2>1. CASE j = k
      BY <1>5, <1>7, <2>1, TreeAssumption
    <2>2. CASE j # k
      <3>1. oracle[j].peer # c
        BY <1>3, <2>2, TreeAssumption DEF OraclesInv, PeersWereLetIn
      <3> QED BY <1>7, <2>2, <3>1
    <2> QED BY <2>1, <2>2
  <1>9. /\ config' \in [Contexts -> Keys \cup {None}]
        /\ \A x \in Contexts : config'[x] # None => oracle[config'[x]].state # None
    <2>1. CASE UNCHANGED config
      BY <2>1 DEF OraclesInv, OraclesTyped, KeysWereStarted
    <2>2. CASE config' = [config EXCEPT ![command[c].ctx] = k]
      <3>1. config' \in [Contexts -> Keys \cup {None}] /\ \A x \in Contexts : config'[x] \in {config[x], k}
        BY <2>2 DEF OraclesInv, OraclesTyped
      <3>2. oracle[k].state # None
        BY <1>1, TreeAssumption DEF Listening
      <3> QED BY <3>1, <3>2 DEF OraclesInv, KeysWereStarted
    <2> QED BY <1>2, <2>1, <2>2 DEF Reply
  <1>10. UNCHANGED <<platform, logon, alive, place, event, latest, clock>>
    BY DEF Reply
  <1>11. CASE Rest(c)
    <2>1. PICK new \in CommandType : new = NoCommand
      BY DEF NoCommand, CommandType
    <2>2. new.pc = "idle" /\ new.conn = None /\ command' = [command EXCEPT ![c] = new]
      BY <1>11, <2>1 DEF NoCommand, Rest
    <2> QED BY <1>7, <1>8, <1>9, <1>10, <2>2, CommandMovesOn DEF Fresh, Bound
  <1>12. CASE command' = [command EXCEPT ![c].pc = "sign", ![c].conn = None]
    <2>1. PICK new : new = [command[c] EXCEPT !.pc = "sign", !.conn = None]
      OBVIOUS
    <2>2. /\ new \in CommandType /\ new.pc = "sign" /\ new.conn = None /\ new.key = command[c].key
          /\ new.by = command[c].by /\ new.at = command[c].at
      BY <1>3, <2>1 DEF CommandType, Bound
    <2>3. command' = [command EXCEPT ![c] = new]
      BY <1>12, <2>1 DEF OraclesInv, OraclesTyped
    <2> QED BY <1>3, <1>7, <1>8, <1>9, <1>10, <2>2, <2>3, CommandMovesOn DEF Fresh, Bound
  <1> QED BY <1>2, <1>11, <1>12 DEF Reply

(* An oracle ends, with its connections and, on Windows, its pipe.          *)
LEMMA OracleEnds ==
    ASSUME OraclesInv, NEW k \in Keys, PosixEnd(k) \/ Watchdog(k)
    PROVE  OraclesInv'
  <1> USE DEF OraclesInv
  <1>1. /\ oracle[k].state = "serving" /\ oracle' = [oracle EXCEPT ![k] = Ended] /\ command' = Dropped(k)
        /\ UNCHANGED <<platform, logon, alive, config, latest, clock>>
    BY DEF PosixEnd, Watchdog
  <1>2. /\ oracle' \in [Keys -> OracleType] /\ oracle'[k].state = "ended" /\ oracle'[k].peer = None
        /\ \A j \in Keys \ {k} : oracle'[j] = oracle[j]
    BY <1>1, EndedIsTyped DEF OraclesTyped
  <1>3. oracle[k].state # None /\ oracle'[k].state # None /\ oracle'[k].state \notin Listening
    BY <1>1, <1>2, TreeAssumption DEF Listening
  <1>4. \A d \in Commands : command'[d] = IF command[d].conn = k THEN NoCommand ELSE command[d]
    BY <1>1 DEF Dropped
  <1>5. NoCommand \in CommandType /\ NoCommand.pc = "idle" /\ NoCommand.conn = None
    BY DEF NoCommand, CommandType
  <1>6. command' \in [Commands -> CommandType]
    BY <1>1, <1>5 DEF Dropped, OraclesTyped
  <1>7. /\ place' \in [Processes -> Keys \cup {None}] /\ event' \in [Processes -> {"absent", "unset", "set"}]
        /\ ~Windows => place' = place
        /\ Windows => \A p \in Processes \ {oracle[k].anchor} : place'[p] = place[p] /\ event'[p] = event[p]
    <2>1. CASE PosixEnd(k)
      BY <2>1 DEF PosixEnd, PosixPlaceAfter, OraclesTyped
    <2>2. CASE Watchdog(k)
      <3>1. place' = [place EXCEPT ![oracle[k].anchor] = None] /\ Windows
        BY <2>2 DEF Watchdog
      <3>2. PICK e \in {"absent", event[oracle[k].anchor]} : event' = [event EXCEPT ![oracle[k].anchor] = e]
        BY <2>2 DEF Watchdog
      <3>3. oracle[k].anchor \in Processes
        BY <1>1, <3>1 DEF PipesAreHeld, Listening
      <3>4. e \in {"absent", "unset", "set"}
        BY <3>2, <3>3 DEF OraclesTyped
      <3> QED BY <3>1, <3>2, <3>4 DEF OraclesTyped
    <2> QED BY <2>1, <2>2
  <1>8. OraclesTyped'
    BY <1>1, <1>2, <1>6, <1>7 DEF OraclesTyped
  <1>9. KeysAreNew' /\ KeysWereStarted'
    BY <1>1, <1>2, <1>3, <1>4, <1>5 DEF KeysAreNew, KeysWereStarted, OraclesTyped, Fresh, Bound
  <1>10. Windows => oracle[k].anchor \in Processes /\ place[oracle[k].anchor] = k
    BY <1>1 DEF PipesAreHeld, Listening
  <1>11. LatestHasItsName'
    <2>1. ASSUME NEW p \in Processes, latest'[p] # None
          PROVE  /\ oracle'[latest'[p]].state # None
                 /\ oracle'[latest'[p]].state \in Listening =>
                       oracle'[latest'[p]].anchor = p /\ place'[p] = latest'[p]
      <3>1. PICK j \in Keys : j = latest[p] /\ j = latest'[p]
        BY <1>1, <2>1 DEF OraclesTyped
      <3>2. CASE j = k
        BY <1>3, <3>1, <3>2
      <3>3. CASE j # k
        <4>1. oracle'[j] = oracle[j] /\ oracle[j].state # None
              /\ (oracle[j].state \in Listening => oracle[j].anchor = p /\ place[p] = j)
          BY <1>1, <1>2, <2>1, <3>1, <3>3 DEF LatestHasItsName
        <4>2. oracle[j].state \in Listening => place'[p] = j
          BY <1>7, <1>10, <3>3, <4>1
        <4> QED BY <3>1, <4>1, <4>2
      <3> QED BY <3>2, <3>3
    <2> QED BY <2>1 DEF LatestHasItsName
  <1>12. PipesAreHeld'
    <2>1. SUFFICES ASSUME Windows, NEW j \in Keys, oracle'[j].state \in Listening
                   PROVE  /\ oracle'[j].anchor \in Processes /\ place'[oracle'[j].anchor] = j
                          /\ oracle'[j].state = "serving" /\ event'[oracle'[j].anchor] = "set"
                                => oracle'[j].told
      BY <1>1 DEF PipesAreHeld, Windows
    <2>2. j # k /\ oracle'[j] = oracle[j]
      BY <1>2, <1>3, <2>1
    <2>3. oracle[j].anchor \in Processes /\ place[oracle[j].anchor] = j
      BY <2>1, <2>2 DEF PipesAreHeld
    <2>4. oracle[j].anchor # oracle[k].anchor
      BY <1>10, <2>1, <2>2, <2>3
    <2> QED BY <1>7, <2>1, <2>2, <2>3, <2>4 DEF PipesAreHeld
  <1>13. PeersWereLetIn'
    <2>1. ASSUME NEW j \in Keys, oracle'[j].peer # None
          PROVE  LET c == oracle'[j].peer IN
                 /\ oracle'[j].state = "serving" /\ command'[c].conn = j
                 /\ oracle'[j].anchor \in ToSet(Line[command'[c].by])
                 /\ logon'[command'[c].by] = logon'[oracle'[j].anchor]
      <3>1. j # k /\ oracle'[j] = oracle[j]
        BY <1>2, <2>1
      <3>2. PICK c \in Commands : c = oracle[j].peer /\ c = oracle'[j].peer
        BY <2>1, <3>1 DEF OraclesTyped, OracleType
      <3>3. command[c].conn = j
        BY <2>1, <3>1, <3>2 DEF PeersWereLetIn
      <3>4. command'[c] = command[c]
        BY <1>4, <3>1, <3>3
      <3> QED BY <1>1, <2>1, <3>1, <3>2, <3>4 DEF PeersWereLetIn, SameLogon
    <2>2. ASSUME NEW d \in Commands
          PROVE  /\ command'[d].pc # "idle" => command'[d].by \in Processes
                 /\ command'[d].conn # None => command'[d].pc \in {"list", "sign"}
                 /\ command'[d].pc \in {"list", "sign"} => command'[d].at \in Processes
      BY <1>4, <1>5 DEF PeersWereLetIn
    <2> QED BY <2>1, <2>2 DEF PeersWereLetIn, SameLogon
  <1> QED BY <1>8, <1>9, <1>11, <1>12, <1>13

LEMMA TimePasses ==
    ASSUME OraclesInv, Tick \/ \E p \in Processes : Exit(p)
    PROVE  OraclesInv'
  <1> USE DEF OraclesInv
  <1>1. /\ UNCHANGED <<platform, logon, oracle, place, event, config, command, latest>>
        /\ alive' \subseteq alive /\ clock' \in Int
    BY DEF Tick, Exit, OraclesTyped
  <1>2. OraclesTyped'
    BY <1>1 DEF OraclesTyped
  <1>3. KeysAreNew' /\ KeysWereStarted' /\ LatestHasItsName' /\ PipesAreHeld' /\ PeersWereLetIn'
    BY <1>1 DEF KeysAreNew, KeysWereStarted, LatestHasItsName, PipesAreHeld, Windows, PeersWereLetIn, SameLogon
  <1> QED BY <1>2, <1>3

LEMMA OraclesStep == OraclesInv /\ [Next]_vars => OraclesInv'
  <1> SUFFICES ASSUME OraclesInv, [Next]_vars PROVE OraclesInv'
    OBVIOUS
  <1>1. CASE UNCHANGED vars
    BY <1>1 DEF vars, OraclesInv, OraclesTyped, KeysAreNew, KeysWereStarted, LatestHasItsName, PipesAreHeld,
                Windows, PeersWereLetIn, SameLogon
  <1>2. ASSUME NEW c \in Commands, Start(c) PROVE OraclesInv'
    BY <1>2, LoginStarts, UseStarts DEF Start
  <1>3. ASSUME NEW c \in Commands, LoginStep(c) PROVE OraclesInv'
    BY <1>3, PosixSpawns, WindowsSpawns, LoginsEnd, Announces, ServerAnswers DEF LoginStep
  <1>4. ASSUME NEW c \in Commands, Find(c) \/ Connect(c) PROVE OraclesInv'
    BY <1>4, Finds, Connects
  <1>5. ASSUME NEW k \in Keys, OracleStep(k) PROVE OraclesInv'
    BY <1>5, OracleIsReady, Replies, OracleEnds, Accepts DEF OracleStep
  <1> QED BY <1>1, <1>2, <1>3, <1>4, <1>5, TimePasses DEF Next
LEMMA LatestAnswers == OraclesInv => LatestLoginAnswers
  BY DEF OraclesInv, LatestHasItsName, LatestLoginAnswers

Ends(k) == oracle[k].state = "serving" /\ oracle'[k].state = "ended"

(* The oracles that a step starts or changes were not serving, or go on.    *)
LEMMA OraclesEndForAReason ==
    ASSUME OraclesInv, [Next]_vars, NEW k \in Keys, Ends(k)
    PROVE  Over(k) \/ oracle[k].told
  <1> USE DEF OraclesInv
  <1>1. oracle[k] \in OracleType /\ oracle'[k].state # oracle[k].state
    BY DEF Ends, OraclesTyped
  <1>3. ~(UNCHANGED oracle)
    BY <1>1
  <1>4. ASSUME NEW c \in Commands, PosixSpawn(c) PROVE FALSE
    <2>1. command[c].key \in Keys /\ oracle[command[c].key].state = None
      BY <1>4 DEF PosixSpawn, KeysAreNew, Fresh
    <2>2. command[c].key # k
      BY <2>1, TreeAssumption DEF Ends, Listening
    <2> QED BY <1>1, <1>4, <2>2 DEF PosixSpawn, Started, OraclesTyped
  <1>5. ASSUME NEW c \in Commands, WindowsSpawn(c) PROVE FALSE
    <2>1. command[c].key \in Keys /\ oracle[command[c].key].state = None
      BY <1>5 DEF WindowsSpawn, KeysAreNew, Fresh
    <2>2. command[c].key # k
      BY <2>1, TreeAssumption DEF Ends, Listening
    <2> QED BY <1>1, <1>5, <2>2 DEF WindowsSpawn, Started, OraclesTyped
  <1>6. ASSUME NEW c \in Commands, Announce(c) PROVE FALSE
    <2>1. oracle'[k] \in {oracle[k], [oracle[k] EXCEPT !.told = TRUE]}
      BY <1>6 DEF Announce
    <2> QED BY <1>1, <2>1 DEF OracleType
  <1>7. ASSUME NEW j \in Keys, Ready(j) PROVE FALSE
    BY <1>1, <1>7 DEF Ready, Ends, OraclesTyped, OracleType
  <1>8. ASSUME NEW j \in Keys, Reply(j) \/ \E c \in Commands : Accept(j, c) PROVE FALSE
    <2>1. UNCHANGED oracle \/ \E c : oracle' = [oracle EXCEPT ![j].peer = c]
      BY <1>8 DEF Reply, Accept
    <2> QED BY <1>1, <2>1 DEF OraclesTyped, OracleType
  <1>9. ASSUME NEW j \in Keys, PosixEnd(j) \/ Watchdog(j) PROVE Over(k) \/ oracle[k].told
    <2>1. oracle' = [oracle EXCEPT ![j] = Ended]
      BY <1>9 DEF PosixEnd, Watchdog
    <2>2. j = k
      BY <1>1, <2>1 DEF OraclesTyped
    <2> QED BY <1>9, <2>2 DEF PosixEnd, Watchdog, Displaced, PipesAreHeld, Listening
  <1>10. CASE \E c \in Commands : Start(c)
    BY <1>3, <1>10 DEF Start, StartUse, StartLogin
  <1>11. CASE \E c \in Commands : LoginStep(c)
    BY <1>3, <1>4, <1>5, <1>6, <1>11 DEF LoginStep, LoseShell, GiveUp, Answered
  <1>12. CASE \E c \in Commands : Find(c) \/ Connect(c)
    BY <1>3, <1>12 DEF Find, Connect
  <1>13. CASE \E j \in Keys : OracleStep(j)
    BY <1>7, <1>8, <1>9, <1>13 DEF OracleStep
  <1>14. CASE Tick \/ \E p \in Processes : Exit(p)
    BY <1>3, <1>14 DEF Tick, Exit
  <1>15. CASE UNCHANGED vars
    BY <1>3, <1>15 DEF vars
  <1> QED BY <1>10, <1>11, <1>12, <1>13, <1>14, <1>15 DEF Next

(* An oracle that serves nobody any more and goes on serving has replied.   *)
LEMMA OraclesSignForTheirOwn ==
    ASSUME OraclesInv, [Next]_vars, NEW k \in Keys, NEW c \in Commands, Signs(k, c)
    PROVE  /\ oracle[k].anchor \in ToSet(Line[command[c].by]) /\ SameLogon(k, c)
           /\ Windows \/ ~Over(k)
  <1> USE DEF OraclesInv
  <1>1. /\ oracle[k] \in OracleType /\ oracle[k].peer = c /\ c # None /\ oracle'[k].peer = None
        /\ oracle'[k].state = "serving" /\ oracle[k].state = "serving"
    BY TreeAssumption DEF Signs, OraclesTyped, PeersWereLetIn
  <1>2. oracle[k].anchor \in ToSet(Line[command[c].by]) /\ SameLogon(k, c)
    BY <1>1 DEF PeersWereLetIn
  <1>3. ~(UNCHANGED oracle)
    BY <1>1
  <1>4. ASSUME NEW d \in Commands, PosixSpawn(d) \/ WindowsSpawn(d) PROVE FALSE
    <2>1. command[d].key \in Keys /\ oracle[command[d].key].state = None
      BY <1>4 DEF PosixSpawn, WindowsSpawn, KeysAreNew, Fresh
    <2>2. command[d].key # k
      BY <1>1, <2>1, TreeAssumption DEF Listening
    <2> QED BY <1>1, <1>4, <2>2 DEF PosixSpawn, WindowsSpawn, Started, OraclesTyped
  <1>6. ASSUME NEW d \in Commands, Announce(d) PROVE FALSE
    <2>1. oracle'[k] \in {oracle[k], [oracle[k] EXCEPT !.told = TRUE]}
      BY <1>6 DEF Announce
    <2> QED BY <1>1, <2>1 DEF OracleType
  <1>7. ASSUME NEW j \in Keys, Ready(j) PROVE FALSE
    BY <1>1, <1>7 DEF Ready, OraclesTyped, OracleType
  <1>8. ASSUME NEW j \in Keys, NEW d \in Commands, Accept(j, d) PROVE FALSE
    <2>1. UNCHANGED oracle \/ oracle' = [oracle EXCEPT ![j].peer = d]
      BY <1>8 DEF Accept
    <2>2. d # None
      BY TreeAssumption
    <2> QED BY <1>1, <2>1, <2>2 DEF OraclesTyped, OracleType
  <1>9. ASSUME NEW j \in Keys, PosixEnd(j) \/ Watchdog(j) PROVE FALSE
    <2>1. oracle' = [oracle EXCEPT ![j] = Ended]
      BY <1>9 DEF PosixEnd, Watchdog
    <2> QED BY <1>1, <2>1, EndedIsTyped DEF OraclesTyped
  <1>5. ASSUME NEW j \in Keys, Reply(j) PROVE Windows \/ ~Over(k)
    <2>1. oracle' = [oracle EXCEPT ![j].peer = None]
      BY <1>5 DEF Reply
    <2>2. j = k
      BY <1>1, <2>1 DEF OraclesTyped
    <2> QED BY <1>5, <2>2 DEF Reply, MayServe, PosixMayServe
  <1>10. CASE \E d \in Commands : Start(d)
    BY <1>3, <1>10 DEF Start, StartUse, StartLogin
  <1>11. CASE \E d \in Commands : LoginStep(d)
    BY <1>3, <1>4, <1>6, <1>11 DEF LoginStep, LoseShell, GiveUp, Answered
  <1>12. CASE \E d \in Commands : Find(d) \/ Connect(d)
    BY <1>3, <1>12 DEF Find, Connect
  <1>13. CASE \E j \in Keys : OracleStep(j)
    BY <1>2, <1>5, <1>7, <1>8, <1>9, <1>13 DEF OracleStep
  <1>14. CASE Tick \/ \E p \in Processes : Exit(p)
    BY <1>3, <1>14 DEF Tick, Exit
  <1>15. CASE UNCHANGED vars
    BY <1>3, <1>15 DEF vars
  <1> QED BY <1>2, <1>10, <1>11, <1>12, <1>13, <1>14, <1>15 DEF Next
-----------------------------------------------------------------------------
(* Steps of the terminal UI.                                                *)

LEMMA TuiInit == Tui!Init => TuiInv
  <1> SUFFICES ASSUME Tui!Init PROVE TuiInv
    OBVIOUS
  <1>1. PICK idle : idle = Tui!IdleCall
    OBVIOUS
  <1>2. idle \in CallType /\ idle.pc = "idle" /\ idle.uses = NoSession
    BY <1>1 DEF Tui!IdleCall, CallType
  <1>3. calls = [c \in Calls |-> idle]
    BY <1>1 DEF Tui!Init
  <1>4. made \in Nat /\ valid \subseteq 1..made /\ {inner, cfg, disk, fresh} \subseteq Numbers
    BY DEF Tui!Init, Numbers
  <1>5. TuiTyped
    BY <1>2, <1>3, <1>4 DEF Tui!Init, TuiTyped
  <1>6. CallsKnowTheirSession
    BY <1>2, <1>3 DEF CallsKnowTheirSession, Tui!Init
  <1> QED BY <1>5, <1>6 DEF Tui!Init, TuiInv, PromptsHaveAReason, Tui!VerifiedIsTrue

(* Steps that change no call and no session of the UI.                      *)
authRest == <<inner, generation, verified, pending>>

LEMMA UiStarts ==
    ASSUME TuiInv, Tui!RunTui \/ Tui!LeaveSetup
    PROVE  TuiInv'
  <1> USE DEF TuiInv, TuiTyped, PromptsHaveAReason, CallsKnowTheirSession, Tui!VerifiedIsTrue, Numbers
  <1>1. UNCHANGED <<made, valid, accepted, disk, fresh, calls>>
    BY DEF Tui!RunTui, Tui!LeaveSetup, Tui!serverVars, Tui!promptVars
  <1>2. \A c \in Calls : calls[c].pc = "idle"
    BY DEF Tui!RunTui, Tui!LeaveSetup, CallType
  <1>3. ASSUME NEW s \in valid, Tui!EnterTui(s), cfg' \in {s, cfg},
               screen' = "none", app # "gone"
        PROVE  TuiInv'
    <2>1. /\ app' = "tui" /\ inner' = s /\ generation' = 0 /\ ~verified' /\ ~pending'
          /\ verified' = FALSE /\ pending' = FALSE /\ UNCHANGED why
      BY <1>3 DEF Tui!EnterTui
    <2>2. TuiTyped'
      BY <1>1, <1>3, <2>1
    <2>3. CallsKnowTheirSession'
      BY <1>1, <1>2, <2>1
    <2>4. why # "repeated" /\ screen' \notin {"asked", "open"}
      BY <1>3
    <2>5. PromptsHaveAReason' /\ Tui!VerifiedIsTrue'
      BY <2>1, <2>4
    <2>6. inner' \in 1..made'
      BY <1>1, <2>1
    <2> QED BY <2>2, <2>3, <2>5, <2>6
  <1>4. CASE Tui!RunTui
    <2>1. CASE disk \in valid /\ ~force
      BY <1>3, <1>4, <2>1 DEF Tui!RunTui, Tui!promptVars
    <2>2. CASE ~(disk \in valid /\ ~force)
      <3>1. app' = "setup" /\ cfg' = NoSession /\ UNCHANGED <<inner, generation, verified, pending, why>>
        BY <1>4, <2>2 DEF Tui!RunTui, Tui!authVars
      <3>2. why # "repeated"
        BY <1>4 DEF Tui!RunTui
      <3>3. TuiTyped'
        BY <1>1, <3>1
      <3>4. CallsKnowTheirSession'
        BY <1>1, <1>2, <3>1
      <3>5. PromptsHaveAReason' /\ Tui!VerifiedIsTrue'
        BY <1>1, <3>1, <3>2
      <3> QED BY <3>1, <3>3, <3>4, <3>5
    <2> QED BY <2>1, <2>2
  <1>5. CASE Tui!LeaveSetup
    <2>1. CASE cfg \in valid
      BY <1>3, <1>5, <2>1 DEF Tui!LeaveSetup
    <2>2. CASE cfg \notin valid
      <3>1. /\ app' = "gone" /\ why' \in {"user", "expired"}
            /\ UNCHANGED <<inner, generation, verified, pending, cfg>>
        BY <1>5, <2>2 DEF Tui!LeaveSetup, Tui!authVars
      <3>3. TuiTyped'
        BY <1>1, <3>1
      <3>4. CallsKnowTheirSession'
        BY <1>1, <1>2, <3>1
      <3>5. PromptsHaveAReason' /\ Tui!VerifiedIsTrue'
        BY <1>1, <3>1
      <3> QED BY <3>1, <3>3, <3>4, <3>5
    <2> QED BY <2>1, <2>2
  <1> QED BY <1>4, <1>5

LEMMA UiRestarts ==
    ASSUME TuiInv, NEW role \in BOOLEAN, Tui!Restart(role)
    PROVE  TuiInv'
  <1> USE DEF TuiInv, TuiTyped, PromptsHaveAReason, CallsKnowTheirSession, Tui!VerifiedIsTrue, Numbers
  <1>1. PICK idle : idle = Tui!IdleCall
    OBVIOUS
  <1>2. idle \in CallType /\ idle.pc = "idle" /\ idle.uses = NoSession
    BY <1>1 DEF Tui!IdleCall, CallType
  <1>3. /\ calls' = [c \in Calls |-> idle] /\ app = "tui" /\ app' = "start" /\ screen' = "none"
        /\ UNCHANGED <<why, valid, accepted, made, disk, cfg, inner, generation, verified, pending, fresh>>
    BY <1>1 DEF Tui!Restart, Tui!serverVars, Tui!authVars, Tui!promptVars
  <1> QED BY <1>2, <1>3

(* A call changes, and nothing of the session.                              *)
LEMMA CallMoves ==
    ASSUME TuiInv, app = "tui", NEW c \in Calls, NEW new \in CallType, calls' = [calls EXCEPT ![c] = new],
           UNCHANGED <<valid, accepted, made, disk, cfg, inner, generation, verified, pending>>,
           UNCHANGED <<app, why, screen, fresh>>,
           new.uses \in 0..made \cup {NoSession},
           new.pc # "idle" =>
              /\ new.gen <= generation
              /\ new.gen = generation /\ new.uses # 0 => new.uses = inner
              /\ new.uses \in valid => new.uses = inner
              /\ new.pc = "running" => new.uses # 0
    PROVE  TuiInv'
  <1> USE DEF TuiInv, TuiTyped, PromptsHaveAReason, CallsKnowTheirSession, Tui!VerifiedIsTrue
  <1>1. /\ calls' \in [Calls -> CallType] /\ calls'[c] = new
        /\ \A d \in Calls \ {c} : calls'[d] = calls[d]
    OBVIOUS
  <1>2. CallsKnowTheirSession'
    BY <1>1
  <1> QED BY <1>1, <1>2 DEF Numbers

LEMMA CallStarts ==
    ASSUME TuiInv, NEW c \in Calls, Tui!StartCall(c)
    PROVE  TuiInv'
  <1>1. PICK s \in {inner, 0} :
              calls' = [calls EXCEPT ![c] = [pc |-> "waiting", gen |-> generation, uses |-> s]]
    BY DEF Tui!StartCall, Tui!Bindings, Tui!Late
  <1>2. PICK new : new = [pc |-> "waiting", gen |-> generation, uses |-> s]
    OBVIOUS
  <1>3. app = "tui" /\ inner \in 1..made /\ made \in Nat /\ generation \in Nat
    BY DEF Tui!StartCall, TuiInv, TuiTyped
  <1>4. new \in CallType /\ new.pc = "waiting" /\ new.gen = generation /\ new.uses = s
    BY <1>2, <1>3 DEF CallType
  <1>5. 0 \notin valid
    BY DEF TuiInv, TuiTyped
  <1>6. s \in 0..made \cup {NoSession} /\ (s # 0 => s = inner) /\ (s \in valid => s = inner)
    BY <1>1, <1>3, <1>5
  <1>7. calls' = [calls EXCEPT ![c] = new]
    BY <1>1, <1>2
  <1>8. new.gen <= generation /\ new.pc # "running"
    BY <1>3, <1>4
  <1>9. /\ UNCHANGED <<valid, accepted, made, disk, cfg, inner, generation, verified, pending>>
        /\ UNCHANGED <<app, why, screen, fresh>>
    BY DEF Tui!StartCall, Tui!procVars, Tui!serverVars, Tui!authVars, Tui!promptVars
  <1> QED BY <1>3, <1>4, <1>6, <1>7, <1>8, <1>9, CallMoves

LEMMA CallRuns ==
    ASSUME TuiInv, NEW c \in Calls, Tui!RunCall(c)
    PROVE  TuiInv'
  <1>1. PICK s : s = (IF calls[c].uses = 0 THEN inner ELSE calls[c].uses)
    OBVIOUS
  <1>2. PICK new : new = [calls[c] EXCEPT !.pc = "running", !.uses = s]
    OBVIOUS
  <1>3. /\ app = "tui" /\ inner \in 1..made /\ made \in Nat /\ calls[c] \in CallType
        /\ calls[c].uses \in 0..made \cup {NoSession} /\ calls[c].pc = "waiting"
    BY DEF Tui!RunCall, TuiInv, TuiTyped, CallsKnowTheirSession
  <1>4. new \in CallType /\ new.pc = "running" /\ new.gen = calls[c].gen /\ new.uses = s
    <2>1. s \in Int \cup {NoSession}
      BY <1>1, <1>3
    <2> QED BY <1>2, <1>3, <2>1 DEF CallType
  <1>5. calls' = [calls EXCEPT ![c] = new]
    BY <1>1, <1>2 DEF Tui!RunCall, Tui!Late, TuiInv, TuiTyped
  <1>6. s \in 0..made \cup {NoSession} /\ s # 0
    BY <1>1, <1>3, ClientAssumption
  <1>7. /\ new.gen <= generation
        /\ new.gen = generation => s = inner
        /\ s \in valid => s = inner
    BY <1>1, <1>3, <1>4 DEF TuiInv, CallsKnowTheirSession
  <1> QED BY <1>3, <1>4, <1>5, <1>6, <1>7, CallMoves
          DEF Tui!RunCall, Tui!procVars, Tui!serverVars, Tui!authVars, Tui!promptVars

(* A call that the server accepts belongs to the session of now.            *)
LEMMA CallSucceeds ==
    ASSUME TuiInv, NEW c \in Calls, Tui!Succeed(c)
    PROVE  TuiInv'
  <1> USE DEF TuiInv, TuiTyped, PromptsHaveAReason, CallsKnowTheirSession, Tui!VerifiedIsTrue
  <1>1. PICK idle : idle = Tui!IdleCall
    OBVIOUS
  <1>2. idle \in CallType /\ idle.pc = "idle" /\ idle.uses = NoSession
    BY <1>1 DEF Tui!IdleCall, CallType
  <1>3. /\ app = "tui" /\ calls[c].pc = "running" /\ calls[c].uses \in valid
        /\ calls' = [calls EXCEPT ![c] = idle]
        /\ UNCHANGED <<app, why, valid, made, disk, cfg, inner, generation, pending, screen, fresh>>
    BY <1>1 DEF Tui!Succeed, Tui!procVars, Tui!promptVars
  <1>4. calls[c].uses = inner
    BY <1>3
  <1>5. /\ calls' \in [Calls -> CallType] /\ calls'[c] = idle
        /\ \A d \in Calls \ {c} : calls'[d] = calls[d]
    BY <1>2, <1>3
  <1>6. CallsKnowTheirSession'
    BY <1>2, <1>3, <1>5
  <1>7. verified' \in BOOLEAN /\ (verified' => inner \in accepted')
    <2>1. CASE verified' = TRUE /\ accepted' = accepted \cup {calls[c].uses}
      BY <1>4, <2>1
    <2>2. CASE UNCHANGED <<verified, accepted>>
      BY <1>3, <2>2
    <2> QED BY <2>1, <2>2 DEF Tui!Succeed
  <1> QED BY <1>3, <1>5, <1>6, <1>7 DEF Numbers

LEMMA CallIsRefused ==
    ASSUME TuiInv, NEW c \in Calls, Tui!Refused(c)
    PROVE  TuiInv'
  <1> USE DEF TuiInv, TuiTyped, PromptsHaveAReason, CallsKnowTheirSession, Tui!VerifiedIsTrue
  <1>1. PICK idle : idle = Tui!IdleCall
    OBVIOUS
  <1>2. idle \in CallType /\ idle.pc = "idle" /\ idle.uses = NoSession
    BY <1>1 DEF Tui!IdleCall, CallType
  <1>3. /\ app = "tui" /\ calls[c].pc = "running" /\ calls[c].uses \notin valid
        /\ calls' = [calls EXCEPT ![c] = idle]
        /\ UNCHANGED <<valid, accepted, made, disk, cfg, inner, generation, verified, fresh>>
    BY <1>1 DEF Tui!Refused, Tui!serverVars
  <1>4. /\ calls' \in [Calls -> CallType] /\ calls'[c] = idle
        /\ \A d \in Calls \ {c} : calls'[d] = calls[d]
    BY <1>2, <1>3
  <1>5. CASE UNCHANGED <<app, why, pending, screen>>
    <2>1. CallsKnowTheirSession'
      BY <1>2, <1>3, <1>4, <1>5
    <2> QED BY <1>3, <1>4, <1>5, <2>1 DEF Numbers
  <1>6. CASE ~(UNCHANGED <<app, why, pending, screen>>)
    <2>1. calls[c].gen = generation
      BY <1>6 DEF Tui!Refused, Tui!IsCurrent
    <2>2. inner \notin valid
      BY <1>3, <2>1
    <2>3. \/ app' = "gone" /\ why' = "repeated" /\ UNCHANGED <<pending, screen>>
          \/ pending' = TRUE /\ screen' = "asked" /\ UNCHANGED <<app, why>>
      BY <1>6 DEF Tui!Refused
    <2>4. CallsKnowTheirSession'
      BY <1>2, <1>3, <1>4, <2>3
    <2> QED BY <1>3, <1>4, <2>2, <2>3, <2>4 DEF Numbers
  <1> QED BY <1>5, <1>6
(* The prompt ends, or somebody else has ended it before.                   *)
LEMMA PromptEnds ==
    ASSUME TuiInv, NEW success \in BOOLEAN, Tui!Finish(success), success => app # "gone",
           cfg' \in Numbers, disk' \in Numbers, UNCHANGED <<valid, accepted, made, fresh, calls>>
    PROVE  TuiInv'
  <1> USE DEF TuiInv, TuiTyped, PromptsHaveAReason, CallsKnowTheirSession, Tui!VerifiedIsTrue
  <1>1. CASE UNCHANGED <<screen, app, why, inner, generation, verified, pending>>
    BY <1>1 DEF Numbers
  <1>2. CASE /\ app = "setup" /\ screen' = "finished"
             /\ UNCHANGED <<app, why, inner, generation, verified, pending>>
    BY <1>2 DEF Numbers
  <1>3. CASE /\ pending' = FALSE /\ app' = "gone" /\ why' = "user" /\ screen' = "none"
             /\ UNCHANGED <<inner, generation, verified>>
    <2>1. TuiTyped'
      BY <1>3 DEF Numbers
    <2>2. CallsKnowTheirSession'
      BY <1>3
    <2>3. PromptsHaveAReason' /\ Tui!VerifiedIsTrue'
      BY <1>3
    <2> QED BY <1>3, <2>1, <2>2, <2>3
  <1>4. CASE /\ screen = "open" /\ app \notin {"setup", "gone"} /\ pending' = FALSE /\ cfg' \in valid
             /\ inner' = cfg' /\ generation' = generation + 1 /\ verified' = FALSE
             /\ screen' = "none" /\ UNCHANGED <<app, why>>
    <2>0. verified' \in BOOLEAN /\ pending' \in BOOLEAN
      BY <1>4
    <2>1. TuiTyped'
      <3>1. generation' \in Nat
        BY <1>4
      <3>2. {inner', cfg', disk', fresh'} \subseteq Numbers
        BY <1>4 DEF Numbers
      <3> QED BY <2>0, <3>1, <3>2 DEF Numbers
    <2>2. CallsKnowTheirSession'
      <3>0. generation' \in Nat
        BY <1>4
      <3>1. SUFFICES ASSUME NEW c \in Calls, app = "tui", calls[c].pc # "idle"
                     PROVE  /\ calls[c].gen \in Nat /\ calls[c].gen < generation'
                            /\ calls[c].uses \notin valid
        <4>1. \A c \in Calls : calls[c].gen \in Nat /\ calls[c].gen < generation' =>
                 calls[c].gen <= generation' /\ calls[c].gen # generation'
          BY <3>0
        <4> QED BY <1>4, <4>1
      <3>2. pending /\ inner \notin valid
        BY <1>4, <3>1
      <3>3. calls[c].uses \notin valid
        BY <3>1, <3>2
      <3>4. calls[c].gen <= generation /\ calls[c] \in CallType
        BY <3>1
      <3>5. calls[c].gen < generation + 1
        BY <3>4 DEF CallType
      <3> QED BY <1>4, <3>3, <3>4, <3>5 DEF CallType
    <2>3. PromptsHaveAReason'
      <3>1. why # "repeated"
        BY <1>4
      <3> QED BY <1>4, <3>1
    <2>4. Tui!VerifiedIsTrue'
      BY <1>4
    <2> QED BY <1>4, <2>1, <2>2, <2>3, <2>4
  <1>5. CASE /\ screen = "open" /\ pending' = FALSE /\ screen' = "finished"
             /\ UNCHANGED <<app, why, inner, generation, verified>>
    <2>1. TuiTyped'
      BY <1>5 DEF Numbers
    <2>2. CallsKnowTheirSession'
      BY <1>5
    <2>3. PromptsHaveAReason'
      BY <1>5
    <2>4. Tui!VerifiedIsTrue' /\ (app' = "tui" => inner' \in 1..made')
      BY <1>5
    <2> QED BY <2>1, <2>2, <2>3, <2>4
  <1>6. CASE screen # "open"
    BY <1>1, <1>6 DEF Tui!Finish, Tui!authVars
  <1>7. CASE screen = "open" /\ app = "setup"
    BY <1>2, <1>7 DEF Tui!Finish, Tui!authVars
  <1>8. CASE screen = "open" /\ app # "setup"
    <2>1. CASE ~success
      BY <1>3, <1>8, <2>1 DEF Tui!Finish
    <2>2. CASE success /\ cfg' \in valid
      BY <1>4, <1>8, <2>2 DEF Tui!Finish, Tui!VerifiedAfterRelogin
    <2>3. CASE success /\ cfg' \notin valid
      BY <1>5, <1>8, <2>3 DEF Tui!Finish
    <2> QED BY <2>1, <2>2, <2>3
  <1> QED BY <1>6, <1>7, <1>8

LEMMA SessionBegins ==
    ASSUME TuiInv, Tui!Login
    PROVE  TuiInv'
  <1>1. /\ made' = made + 1 /\ valid' = valid \cup {made + 1} /\ fresh' = made + 1
        /\ UNCHANGED <<app, why, accepted, disk, cfg, inner, generation, verified, pending, screen, calls>>
    BY DEF Tui!Login, Tui!procVars, Tui!authVars
  <1>2. made \in Nat /\ valid \subseteq 1..made /\ {inner, cfg, disk, fresh} \subseteq Numbers
    BY DEF TuiInv, TuiTyped
  <1>3. made' \in Nat /\ made' \in 1..made'
    BY <1>1, <1>2
  <1>4. 1..made \subseteq 1..made' /\ 0..made \subseteq 0..made'
    BY <1>1, <1>2
  <1>5. valid' \subseteq 1..made'
    BY <1>1, <1>2, <1>3, <1>4, Zenon
  <1>6. Numbers \subseteq Numbers' /\ made' \in Numbers'
    BY <1>3, <1>4 DEF Numbers
  <1>7. TuiTyped'
    BY <1>1, <1>2, <1>3, <1>5, <1>6 DEF TuiInv, TuiTyped
  <1>8. made + 1 # inner /\ \A c \in Calls : calls[c].uses # made + 1
    BY <1>2, ClientAssumption DEF TuiInv, CallsKnowTheirSession, Numbers
  <1>9. CallsKnowTheirSession'
    BY <1>1, <1>4, <1>8 DEF TuiInv, CallsKnowTheirSession
  <1>10. PromptsHaveAReason'
    BY <1>1, <1>8 DEF TuiInv, PromptsHaveAReason
  <1>11. Tui!VerifiedIsTrue' /\ (app' = "tui" => inner' \in 1..made')
    BY <1>1, <1>4 DEF TuiInv, Tui!VerifiedIsTrue
  <1> QED BY <1>7, <1>9, <1>10, <1>11 DEF TuiInv

LEMMA PromptSteps ==
    ASSUME TuiInv, Tui!Prompting
    PROVE  TuiInv'
  <1>1. CASE Tui!SaveKey
    <2>1. /\ Tui!Finish(TRUE) /\ app # "gone" /\ cfg' = fresh /\ disk' = fresh
          /\ UNCHANGED <<valid, accepted, made, fresh, calls>>
      BY <1>1 DEF Tui!SaveKey, Tui!serverVars
    <2>2. cfg' \in Numbers /\ disk' \in Numbers
      BY <2>1 DEF TuiInv, TuiTyped
    <2> QED BY <2>1, <2>2, PromptEnds
  <1>2. CASE Tui!FailLogin \/ Tui!Cancel
    <2>1. Tui!Finish(FALSE) /\ UNCHANGED <<valid, accepted, made, disk, cfg, fresh, calls>>
      BY <1>2 DEF Tui!FailLogin, Tui!Cancel, Tui!serverVars
    <2>2. cfg' \in Numbers /\ disk' \in Numbers
      BY <2>1 DEF TuiInv, TuiTyped
    <2> QED BY <2>1, <2>2, PromptEnds
  <1> USE DEF TuiInv, TuiTyped, PromptsHaveAReason, CallsKnowTheirSession, Tui!VerifiedIsTrue
  <1>3. CASE Tui!OpenPrompt
    BY <1>3 DEF Tui!OpenPrompt, Tui!procVars, Tui!serverVars, Tui!authVars, Numbers
  <1>4. CASE Tui!StartLogin
    BY <1>4 DEF Tui!StartLogin, Tui!procVars, Tui!serverVars, Tui!authVars, Numbers
  <1>5. CASE Tui!SelectRole
    BY <1>5 DEF Tui!SelectRole, Tui!procVars, Tui!serverVars, Tui!authVars, Numbers
  <1> QED BY <1>1, <1>2, <1>3, <1>4, <1>5, SessionBegins DEF Tui!Prompting

LEMMA SessionsEnd ==
    ASSUME TuiInv, NEW s \in Tui!Sessions, Tui!Lose(s)
    PROVE  TuiInv'
  <1> USE DEF TuiInv, TuiTyped, PromptsHaveAReason, CallsKnowTheirSession, Tui!VerifiedIsTrue
  <1>1. /\ valid' = valid \ {s}
        /\ UNCHANGED <<app, why, accepted, made, disk, cfg, inner, generation, verified, pending>>
        /\ UNCHANGED <<screen, fresh, calls>>
    BY DEF Tui!Lose, Tui!procVars, Tui!authVars, Tui!promptVars
  <1>2. TuiTyped' /\ CallsKnowTheirSession'
    BY <1>1 DEF Numbers
  <1> QED BY <1>1, <1>2

LEMMA TuiStep == TuiInv /\ [Tui!Next]_tuiVars => TuiInv'
  <1> SUFFICES ASSUME TuiInv, [Tui!Next]_tuiVars PROVE TuiInv'
    OBVIOUS
  <1>1. CASE UNCHANGED tuiVars
    BY <1>1 DEF tuiVars, TuiInv, TuiTyped, PromptsHaveAReason, CallsKnowTheirSession, Tui!VerifiedIsTrue, Numbers
  <1> QED BY <1>1, UiStarts, UiRestarts, CallStarts, CallRuns, CallSucceeds, CallIsRefused, PromptSteps,
             SessionsEnd DEF Tui!Next

-----------------------------------------------------------------------------
(* Both together.                                                           *)

LEMMA ClientInitInv == ClientInit => ClientInv
  BY OraclesInit, TuiInit DEF ClientInit, ClientInv

LEMMA ClientStepInv == ClientInv /\ [ClientNext]_<<vars, tuiVars>> => ClientInv'
  <1> SUFFICES ASSUME ClientInv, [ClientNext]_<<vars, tuiVars>> PROVE ClientInv'
    OBVIOUS
  <1>1. [Next]_vars /\ [Tui!Next]_tuiVars
    BY DEF ClientNext
  <1> QED BY <1>1, OraclesStep, TuiStep DEF ClientInv

(* Of all the sessions of a login the latest counts, however logins, calls  *)
(* and prompts overlap.                                                     *)
THEOREM LatestCounts == ClientSpec => []LatestSessionCounts
  <1>1. ClientInv => LatestSessionCounts
    BY LatestAnswers DEF ClientInv, TuiInv, PromptsHaveAReason, LatestSessionCounts,
                         Tui!OnlyTheCurrentSessionCounts
  <1> QED BY ClientInitInv, ClientStepInv, <1>1, PTL DEF ClientSpec

(* No oracle ends before its time but for a newer login that asked it to    *)
(* go, and none signs for a process that is not below its anchor.           *)
THEOREM OraclesServe == ClientSpec => OraclesServeTheirOwn
  <1>1. ClientInv /\ [ClientNext]_<<vars, tuiVars>> =>
           [\A k \in Keys : oracle[k].state = "serving" /\ oracle'[k].state = "ended" =>
               Over(k) \/ oracle[k].told]_vars
    <2> SUFFICES ASSUME ClientInv, [ClientNext]_<<vars, tuiVars>>, NEW k \in Keys, Ends(k)
                 PROVE  Over(k) \/ oracle[k].told
      BY DEF Ends
    <2>1. [Next]_vars
      BY DEF ClientNext
    <2> QED BY <2>1, OraclesEndForAReason DEF ClientInv
  <1>2. ClientInv /\ [ClientNext]_<<vars, tuiVars>> =>
           [\A k \in Keys, c \in Commands : Signs(k, c) =>
              /\ oracle[k].anchor \in ToSet(Line[command[c].by]) /\ SameLogon(k, c)
              /\ Windows \/ ~Over(k)]_vars
    <2> SUFFICES ASSUME ClientInv, [ClientNext]_<<vars, tuiVars>>,
                        NEW k \in Keys, NEW c \in Commands, Signs(k, c)
                 PROVE  /\ oracle[k].anchor \in ToSet(Line[command[c].by]) /\ SameLogon(k, c)
                        /\ Windows \/ ~Over(k)
      OBVIOUS
    <2>1. [Next]_vars
      BY DEF ClientNext
    <2> QED BY <2>1, OraclesSignForTheirOwn DEF ClientInv
  <1> QED BY ClientInitInv, ClientStepInv, <1>1, <1>2, PTL
          DEF ClientSpec, OraclesServeTheirOwn, EndsForAReason, SignsInTimeForItsOwn
=============================================================================
