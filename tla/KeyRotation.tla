---------------------------- MODULE KeyRotation ----------------------------
(***************************************************************************)
(* The signing keys of one type of one tenant, and the jobs that rotate    *)
(* them (rotate.py, endpoints/initialize.py).                              *)
(*                                                                         *)
(* A key carries a window [from, until) that is chosen when it is made.    *)
(* It signs from `from + Staging` to `until`, so that it is published for  *)
(* a while before the first certificate that it signs.  Every run of the   *)
(* rotation job looks for the key that signs now and for the one that      *)
(* comes next, and makes the ones that are missing.  The job reads and     *)
(* writes in one transaction, but nothing stops two runs from overlapping: *)
(* each decides on the keys that it has read.                              *)
(*                                                                         *)
(* The three instances of this algorithm (host keys, user keys, OIDC keys) *)
(* have a table each and do not meet: this module is one of them.          *)
(***************************************************************************)
EXTENDS Integers

CONSTANTS
    Jobs,       \* the runs of pf-api-rotate that may overlap
    Rotation,   \* the length of a key's window
    Staging,    \* how long after the start of its window a key begins to sign
    Back,       \* by how much the first key is backdated (10 seconds)
    RunEvery,   \* the scheduler: the age of the last finished run stays within this
    RunTime,    \* a run commits or fails within this time
    MaxClock    \* bound: the clock stops here

ASSUME PeriodsAssumption ==
    /\ Rotation \in Nat /\ Staging \in Nat /\ Back \in Nat
    /\ RunEvery \in Nat /\ RunTime \in Nat /\ MaxClock \in Nat
    /\ Back < Rotation - Staging

VARIABLES
    now,        \* the wall clock
    keys,       \* the rows of the table that are committed
    nextId,     \* the next row id
    run,        \* per job: what it has read and decided
    lastRun     \* when the most recent of the finished runs has read the table

rotationVars == <<now, keys, nextId, run, lastRun>>

Windows == [role : {"current", "staged"}, from : Int, until : Int]
Keys == [id : Nat, from : Int, until : Int, made : Nat]
Idle == [step |-> "idle"]
Runs == {Idle} \cup [step : {"read"}, at : Nat, plan : SUBSET Windows]

RotationTypeOK ==
    /\ now \in Nat
    /\ keys \subseteq Keys
    /\ nextId \in Nat
    /\ run \in [Jobs -> Runs]
    /\ lastRun \in Nat

RotationInit ==
    /\ now = 0
    /\ keys = {}
    /\ nextId = 0
    /\ run = [j \in Jobs |-> Idle]
    /\ lastRun = 0

-----------------------------------------------------------------------------
(* The two views that the job takes of the table at time t.                *)

Current(ks, t) == {k \in ks : k.from <= t - Staging /\ k.until > t}

Staged(ks, t) == {k \in ks : k.from > t - Staging}

(* Only keys that started within the last period are read.                 *)
Recent(ks, t) == {k \in ks : k.from >= t - Rotation}

CurrentWindow(t) ==
    [role |-> "current", from |-> t - Staging - Back, until |-> t - Staging - Back + Rotation]

StagedWindow_BackToBack(end) ==
    [role |-> "staged", from |-> end, until |-> end + Rotation]

StagedWindow(end) ==
    [role |-> "staged", from |-> end - Staging, until |-> end - Staging + Rotation]

(* Plans(ks, t) has the windows a run may decide to create.  When several  *)
(* keys are current, the end of any of them may be the one that is used:   *)
(* the query states no order.                                              *)
Plans(ks, t) ==
    LET current == Current(Recent(ks, t), t)
        next(end) == IF Staged(Recent(ks, t), t) = {} THEN {StagedWindow(end)} ELSE {}
    IN  IF current = {}
        THEN {{CurrentWindow(t)} \cup next(CurrentWindow(t).until)}
        ELSE {next(c.until) : c \in current}

(* The rows that a transaction adds when it commits.  Row ids only have to *)
(* be different and to grow: every transaction that writes takes two.      *)
Rows(plan) ==
    {[id |-> nextId + (IF w.role = "current" THEN 0 ELSE 1),
      from |-> w.from, until |-> w.until, made |-> now] : w \in plan}

-----------------------------------------------------------------------------
(* POST /initialize makes the first two keys, in the same transaction as   *)
(* the first identity.                                                     *)
Initialize ==
    /\ keys = {}
    /\ keys' = Rows({CurrentWindow(now), StagedWindow(CurrentWindow(now).until)})
    /\ nextId' = nextId + 2
    /\ lastRun' = now
    /\ UNCHANGED <<now, run>>

(* A run skips a tenant without an identity, that is without keys.         *)
Read(j) ==
    /\ run[j] = Idle
    /\ keys # {}
    /\ \E plan \in Plans(keys, now) :
           run' = [run EXCEPT ![j] = [step |-> "read", at |-> now, plan |-> plan]]
    /\ UNCHANGED <<now, keys, nextId, lastRun>>

Commit(j) ==
    /\ run[j] # Idle
    /\ keys' = keys \cup Rows(run[j].plan)
    /\ nextId' = IF run[j].plan = {} THEN nextId ELSE nextId + 2
    /\ lastRun' = IF run[j].at > lastRun THEN run[j].at ELSE lastRun
    /\ run' = [run EXCEPT ![j] = Idle]
    /\ UNCHANGED now

(* The transaction fails or the process is killed: nothing is written.     *)
Fail(j) ==
    /\ run[j] # Idle
    /\ run' = [run EXCEPT ![j] = Idle]
    /\ UNCHANGED <<now, keys, nextId, lastRun>>

(* What the scheduler is trusted with: a run that reads the table and      *)
(* commits is never older than RunEvery, and no run takes longer than      *)
(* RunTime.  Without keys there is nothing to rotate yet.                  *)
OnSchedule(t) ==
    /\ keys # {} => t <= lastRun + RunEvery
    /\ \A j \in Jobs : run[j] # Idle => t <= run[j].at + RunTime

Tick ==
    /\ now < MaxClock
    /\ OnSchedule(now + 1)
    /\ now' = now + 1
    /\ UNCHANGED <<keys, nextId, run, lastRun>>

RotationNext ==
    \/ Initialize
    \/ \E j \in Jobs : Read(j) \/ Commit(j) \/ Fail(j)
    \/ Tick

RotationSpec == RotationInit /\ [][RotationNext]_rotationVars

-----------------------------------------------------------------------------
(* What the server does with the table.                                    *)

(* _read_current: the keys that may sign.                                  *)
Signers == {k \in keys : k.from <= now - Staging /\ k.until > now}

(* The trusted-keys endpoints: the keys that are published.                *)
Published == {k \in keys : k.until > now}

(* How long before it signs a key is published at least, when the jobs are *)
(* on schedule.                                                            *)
Notice == Rotation - Staging - RunEvery - RunTime

(* A scheduler that is good enough: between two finished runs there is     *)
(* less time than a key signs for.  Without it the keys run out.           *)
Timely == RunEvery < Rotation - Staging

(* There is always a key to sign with.  The endpoints take the first row   *)
(* of the query without a look at how many there are, so that a tenant     *)
(* without one answers every certificate request with a server error.      *)
AlwaysASigner == keys # {} => Signers # {}

(* The job never has to make a key that signs at once: it finds a current  *)
(* key in every run.  rotate.py says of the other case that it "should     *)
(* really never happen if rotation has happened ok".                       *)
NeverCaughtShort ==
    \A j \in Jobs : run[j] # Idle => \A w \in run[j].plan : w.role = "staged"

(* Runs that overlap make several keys for one period, but never keys with *)
(* different windows: whichever row the signing endpoint gets first, the   *)
(* certificate has the same trust.                                         *)
OneWindowSigns == \A k, l \in Signers : k.from = l.from /\ k.until = l.until

(* At every moment one window signs: some key is there, and whichever the   *)
(* endpoint takes, it is the same.                                         *)
OneWindowAlwaysSigns == AlwaysASigner /\ OneWindowSigns

(* Apart from the very first key, whatever signs was published at least    *)
(* Notice before its first signature, even when it was made by a run that  *)
(* overlapped with another one.                                            *)
PublishedBeforeUse ==
    \A k \in Signers : k.id # 0 => k.made + Notice <= k.from + Staging
=============================================================================
