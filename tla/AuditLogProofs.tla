--------------------------- MODULE AuditLogProofs ---------------------------
(***************************************************************************)
(* For any number of requests, readers, entries and rows, and any page      *)
(* size: the numbers of the committed entries have no hole, and a reader    *)
(* that follows its cursor misses nothing.  And for any tenants and any     *)
(* requests at them: the tenants are whole, and their logs agree.           *)
(***************************************************************************)
EXTENDS Server, FiniteSetTheorems, WellFoundedInduction, Sequences, TLAPS

(* What the lock of the counter row protects. *)
UncommittedUnderLock ==
    \A r \in Requests :
        /\ uncommitted[r] # {} => counterLock = r
        /\ counterLock = r =>
              /\ drawn >= counter
              /\ {e.id : e \in uncommitted[r]} = counter + 1 .. drawn
              /\ \A e, f \in uncommitted[r] : e.id = f.id => e = f

AllFinite ==
    /\ IsFiniteSet(log)
    /\ \A r \in Requests : IsFiniteSet(uncommitted[r])

CursorInLog == \A rd \in Readers : cursor[rd] <= counter

IInv ==
    /\ TypeOK
    /\ NoHoles
    /\ UncommittedUnderLock
    /\ AllFinite
    /\ CursorInLog
    /\ ReadersMissNothing

-----------------------------------------------------------------------------
LEMMA InitInv == Init => IInv
<1> SUFFICES ASSUME Init PROVE IInv
  OBVIOUS
<1> USE AuditAssumption DEF Init
<1>1. TypeOK
  BY DEF TypeOK, PcStates, DeferredLists, NothingDeferred, Entries
<1>2. NoHoles /\ UncommittedUnderLock
  BY DEF NoHoles, UncommittedUnderLock
<1>3. AllFinite
  BY FS_EmptySet DEF AllFinite
<1>4. CursorInLog /\ ReadersMissNothing
  BY DEF CursorInLog, ReadersMissNothing
<1> QED
  BY <1>1, <1>2, <1>3, <1>4 DEF IInv

(* The steps of a request that change neither the log nor anything that     *)
(* the counter lock protects.                                               *)
QuietStep(r) ==
    \/ Begin(r)
    \/ AuditCreate(r)
    \/ DeferMail(r)
    \/ \E row \in Rows : AskRow(r, row)
    \/ TakeRow(r)
    \/ HandlerReturns(r)
    \/ Notify(r)
    \/ FailNotify(r)

RollbackStep(r) ==
    \/ \E n \in 0 .. MaxWrites : Reject(r, n)
    \/ Fail(r)
    \/ FailRejection(r)

CommitStep(r) == Commit(r) \/ CommitRejection(r)

-----------------------------------------------------------------------------
(* Types. *)

LEMMA QuietType ==
  ASSUME TypeOK, NEW r \in Requests, QuietStep(r)
  PROVE  TypeOK'
<1> USE AuditAssumption DEF TypeOK, PcStates, DeferredLists, Running,
                            counterVars, readerVars
<1>1. CASE Begin(r)
  BY <1>1 DEF Begin
<1>2. CASE AuditCreate(r)
  BY <1>2 DEF AuditCreate
<1>3. CASE DeferMail(r)
  BY <1>3, ZenonT(60) DEF DeferMail
<1>4. CASE \E row \in Rows : AskRow(r, row)
  BY <1>4 DEF AskRow
<1>5. CASE TakeRow(r)
  BY <1>5 DEF TakeRow
<1>6. CASE HandlerReturns(r)
  BY <1>6 DEF HandlerReturns
<1>7. CASE Notify(r)
  BY <1>7 DEF Notify
<1>8. CASE FailNotify(r)
  BY <1>8 DEF FailNotify
<1> QED
  BY <1>1, <1>2, <1>3, <1>4, <1>5, <1>6, <1>7, <1>8 DEF QuietStep

LEMMA CloseType ==
  ASSUME TypeOK, NEW r \in Requests, CloseTransaction(r)
  PROVE  /\ inserted' \in [Requests -> 0 .. MaxWrites]
         /\ uncommitted' \in [Requests -> SUBSET Entries]
         /\ rowLock' \in [Rows -> Requests \cup {NoOne}]
         /\ want' \in [Requests -> Rows \cup {NoOne}]
         /\ counterLock' \in Requests \cup {NoOne}
         /\ drawn' \in Nat
BY AuditAssumption DEF TypeOK, CloseTransaction

LEMMA RollbackType ==
  ASSUME TypeOK, NEW r \in Requests, RollbackStep(r)
  PROVE  TypeOK'
<1> USE AuditAssumption, CloseType DEF TypeOK, PcStates, DeferredLists, readerVars, Rollback
<1>1. CASE \E n \in 0 .. MaxWrites : Reject(r, n)
  BY <1>1 DEF Reject
<1>2. CASE Fail(r)
  BY <1>2 DEF Fail
<1>3. CASE FailRejection(r)
  BY <1>3 DEF FailRejection
<1> QED
  BY <1>1, <1>2, <1>3 DEF RollbackStep

LEMMA InsertType ==
  ASSUME TypeOK, NEW r \in Requests, Insert(r)
  PROVE  TypeOK'
<1>1. drawn' \in Nat /\ drawn' = CounterSeenBy(r) + 1
  BY DEF Insert, CounterSeenBy, TypeOK
<1>2. inserted[r] + 1 \in 0 .. MaxWrites
  BY AuditAssumption DEF Insert, ToInsert, TypeOK, DeferredLists
<1>3. [id |-> drawn', by |-> r, kind |-> Phase(r), nth |-> inserted[r] + 1] \in Entries
  BY <1>1, <1>2, AuditAssumption DEF Entries, Kinds, Phase
<1>4. uncommitted' \in [Requests -> SUBSET Entries]
  BY <1>3 DEF Insert, TypeOK
<1>5. inserted' \in [Requests -> 0 .. MaxWrites]
  BY <1>2 DEF Insert, TypeOK
<1> QED
  BY <1>1, <1>4, <1>5 DEF Insert, TypeOK, readerVars

LEMMA CommitType ==
  ASSUME TypeOK, NEW r \in Requests, CommitStep(r)
  PROVE  TypeOK'
<1>1. CloseTransaction(r) /\ Publish(r)
  BY DEF CommitStep, Commit, CommitRejection
<1>2. pc' \in [Requests -> PcStates] /\ UNCHANGED <<deferred, mailed, cursor, seen>>
  BY DEF CommitStep, Commit, CommitRejection, TypeOK, PcStates, readerVars
<1>3. log' \subseteq Entries /\ counter' \in Nat
  BY <1>1 DEF Publish, TypeOK
<1> QED
  BY <1>1, <1>2, <1>3, CloseType DEF TypeOK

-----------------------------------------------------------------------------
(* The inductive step, one group of actions at a time. *)

LEMMA QuietInv ==
  ASSUME IInv, NEW r \in Requests, QuietStep(r)
  PROVE  IInv'
<1>1. TypeOK'
  BY QuietType DEF IInv
<1>2. UNCHANGED <<uncommitted, counterLock, drawn, counter, log, cursor, seen>>
  BY DEF QuietStep, Begin, AuditCreate, DeferMail, AskRow, TakeRow, HandlerReturns,
         Notify, FailNotify, counterVars, readerVars
<1> QED
  BY <1>1, <1>2 DEF IInv, NoHoles, UncommittedUnderLock, AllFinite, CursorInLog,
                    ReadersMissNothing

(* Closing a transaction leaves nothing under its lock, and the others as    *)
(* they were: if the counter moved, nobody else was holding it.             *)
LEMMA CloseUnderLock ==
  ASSUME TypeOK, UncommittedUnderLock, NEW r \in Requests, CloseTransaction(r),
         counterLock = r \/ counter' = counter
  PROVE  UncommittedUnderLock'
<1> SUFFICES ASSUME NEW s \in Requests
             PROVE  /\ uncommitted'[s] # {} => counterLock' = s
                    /\ counterLock' = s =>
                          /\ drawn' >= counter'
                          /\ {e.id : e \in uncommitted'[s]} = counter' + 1 .. drawn'
                          /\ \A e, f \in uncommitted'[s] : e.id = f.id => e = f
  BY DEF UncommittedUnderLock
<1>1. CASE s = r
  BY <1>1, AuditAssumption DEF CloseTransaction, TypeOK
<1>2. CASE s # r
  <2>1. uncommitted'[s] = uncommitted[s]
    BY <1>2 DEF CloseTransaction, TypeOK
  <2>2. CASE counterLock = r
    BY <1>2, <2>1, <2>2, AuditAssumption DEF CloseTransaction, UncommittedUnderLock
  <2>3. CASE counterLock # r
    BY <1>2, <2>1, <2>3 DEF CloseTransaction, UncommittedUnderLock
  <2> QED
    BY <2>2, <2>3
<1> QED
  BY <1>1, <1>2

LEMMA RollbackInv ==
  ASSUME IInv, NEW r \in Requests, RollbackStep(r)
  PROVE  IInv'
<1>1. TypeOK'
  BY RollbackType DEF IInv
<1>2. CloseTransaction(r) /\ UNCHANGED <<counter, log, cursor, seen>>
  BY DEF RollbackStep, Reject, Fail, FailRejection, Rollback, readerVars
<1>3. UncommittedUnderLock'
  BY <1>2, CloseUnderLock DEF IInv
<1>4. AllFinite'
  BY <1>2, FS_EmptySet DEF IInv, TypeOK, AllFinite, CloseTransaction
<1>5. NoHoles' /\ CursorInLog' /\ ReadersMissNothing'
  BY <1>2 DEF IInv, NoHoles, CursorInLog, ReadersMissNothing
<1> QED
  BY <1>1, <1>3, <1>4, <1>5 DEF IInv

(* The new entry has the next number after all those the holder has drawn.  *)
LEMMA InsertInv ==
  ASSUME IInv, NEW r \in Requests, Insert(r)
  PROVE  IInv'
<1> DEFINE new == [id |-> drawn', by |-> r, kind |-> Phase(r), nth |-> inserted[r] + 1]
<1>1. TypeOK'
  BY InsertType DEF IInv
<1>2. /\ counterLock' = r
      /\ uncommitted' = [uncommitted EXCEPT ![r] = @ \cup {new}]
      /\ UNCHANGED <<counter, log, cursor, seen>>
      /\ new.id = drawn'
  BY DEF Insert, readerVars
<1> HIDE DEF new
<1>3. \A s \in Requests \ {r} : uncommitted'[s] = {}
  BY <1>2, AuditAssumption DEF IInv, TypeOK, UncommittedUnderLock, Insert, CounterIsFree
<1>4. uncommitted'[r] = uncommitted[r] \cup {new}
  BY <1>2 DEF IInv, TypeOK
<1>5. {e.id : e \in uncommitted[r]} = counter + 1 .. drawn' - 1
      /\ drawn' >= counter + 1 /\ drawn' \in Nat /\ counter \in Nat
  <2>1. CASE counterLock = r
    BY <2>1 DEF IInv, TypeOK, UncommittedUnderLock, Insert, CounterSeenBy
  <2>2. CASE counterLock # r
    <3>1. uncommitted[r] = {}
      BY <2>2 DEF IInv, UncommittedUnderLock
    <3>2. drawn' = counter + 1 /\ counter \in Nat
      BY <2>2 DEF Insert, CounterSeenBy, IInv, TypeOK
    <3> QED
      BY <3>1, <3>2
  <2> QED
    BY <2>1, <2>2
<1>6. {e.id : e \in uncommitted'[r]} = counter' + 1 .. drawn'
  <2>1. \A n : n \in {e.id : e \in uncommitted'[r]} <=>
                  n \in {e.id : e \in uncommitted[r]} \/ n = drawn'
    BY <1>2, <1>4
  <2>2. \A n : n \in counter + 1 .. drawn' <=> n \in counter + 1 .. drawn' - 1 \/ n = drawn'
    BY <1>5
  <2> QED
    BY <1>2, <1>5, <2>1, <2>2
<1>7. \A e, f \in uncommitted[r] : e.id = f.id => e = f
  BY DEF IInv, UncommittedUnderLock
<1>8. \A e \in uncommitted[r] : e.id # new.id
  <2> SUFFICES ASSUME NEW e \in uncommitted[r] PROVE e.id # drawn'
    BY <1>2
  <2>1. e.id \in counter + 1 .. drawn' - 1
    BY <1>5
  <2> QED
    BY <2>1, <1>5
<1>9. UncommittedUnderLock'
  BY <1>2, <1>3, <1>4, <1>5, <1>6, <1>7, <1>8 DEF UncommittedUnderLock
<1>10. AllFinite'
  <2>1. IsFiniteSet(uncommitted[r])
    BY DEF IInv, AllFinite
  <2>2. IsFiniteSet(uncommitted'[r])
    BY <2>1, <1>4, FS_AddElement
  <2> QED
    BY <2>2, <1>2, <1>3, FS_EmptySet DEF IInv, AllFinite
<1>11. NoHoles' /\ CursorInLog' /\ ReadersMissNothing'
  BY <1>2 DEF IInv, NoHoles, CursorInLog, ReadersMissNothing
<1> QED
  BY <1>1, <1>9, <1>10, <1>11 DEF IInv

(* A commit appends the numbers counter + 1 .. drawn, which are behind no   *)
(* cursor, because no cursor has passed the counter.                        *)
LEMMA CommitInv ==
  ASSUME IInv, NEW r \in Requests, CommitStep(r)
  PROVE  IInv'
<1>1. TypeOK'
  BY CommitType DEF IInv
<1>2. CloseTransaction(r) /\ Publish(r) /\ UNCHANGED <<cursor, seen>>
  BY DEF CommitStep, Commit, CommitRejection, readerVars
<1>3. UncommittedUnderLock'
  <2>1. CASE counterLock = r
    BY <1>2, <2>1, CloseUnderLock DEF IInv
  <2>2. CASE counterLock # r
    BY <1>2, <2>2, CloseUnderLock DEF IInv, Publish
  <2> QED
    BY <2>1, <2>2
<1>4. AllFinite'
  <2>1. IsFiniteSet(log')
    BY <1>2, FS_Union DEF IInv, AllFinite, Publish
  <2>2. \A s \in Requests : uncommitted'[s] = {} \/ uncommitted'[s] = uncommitted[s]
    BY <1>2 DEF CloseTransaction, IInv, TypeOK
  <2> QED
    BY <2>1, <2>2, FS_EmptySet DEF IInv, AllFinite
<1>5. CASE counterLock # r
  <2>1. UNCHANGED <<log, counter, cursor, seen>>
    BY <1>2, <1>5 DEF Publish, IInv, UncommittedUnderLock
  <2> QED
    BY <1>1, <1>3, <1>4, <2>1 DEF IInv, NoHoles, CursorInLog, ReadersMissNothing
<1>6. CASE counterLock = r
  <2>1. /\ log' = log \cup uncommitted[r]
        /\ counter' = drawn
        /\ drawn >= counter
        /\ {e.id : e \in uncommitted[r]} = counter + 1 .. drawn
        /\ drawn \in Nat /\ counter \in Nat
    BY <1>2, <1>6 DEF Publish, IInv, UncommittedUnderLock, TypeOK
  <2>2. /\ {e.id : e \in log} = 1 .. counter
        /\ \A e, f \in log : e.id = f.id => e = f
        /\ \A e, f \in uncommitted[r] : e.id = f.id => e = f
    BY <1>6 DEF IInv, NoHoles, UncommittedUnderLock
  <2>3. {e.id : e \in log'} = 1 .. counter'
    BY <2>1, <2>2
  <2>4. \A e \in log : e.id <= counter
    BY <2>1, <2>2
  <2>5. \A e \in uncommitted[r] : e.id > counter
    <3> SUFFICES ASSUME NEW e \in uncommitted[r] PROVE e.id > counter
      OBVIOUS
    <3>1. e.id \in counter + 1 .. drawn
      BY <2>1
    <3> QED
      BY <3>1, <2>1
  <2>6. \A e \in log, f \in uncommitted[r] : e.id # f.id
    <3> SUFFICES ASSUME NEW e \in log, NEW f \in uncommitted[r] PROVE e.id # f.id
      OBVIOUS
    <3>1. e.id \in Nat /\ f.id \in Nat
      BY DEF IInv, TypeOK, Entries
    <3> QED
      BY <3>1, <2>1, <2>4, <2>5
  <2>7. NoHoles'
    BY <2>1, <2>2, <2>3, <2>6 DEF NoHoles
  <2>8. CursorInLog'
    BY <1>2, <2>1 DEF IInv, TypeOK, CursorInLog
  <2>9. ReadersMissNothing'
    <3> SUFFICES ASSUME NEW rd \in Readers
                 PROVE  seen[rd] = {e \in log' : e.id <= cursor[rd]}
      BY <1>2 DEF ReadersMissNothing
    <3>1. \A e \in uncommitted[r] : ~(e.id <= cursor[rd])
      <4> SUFFICES ASSUME NEW e \in uncommitted[r] PROVE ~(e.id <= cursor[rd])
        OBVIOUS
      <4>1. e.id \in Nat /\ cursor[rd] \in Nat /\ cursor[rd] <= counter
        BY DEF IInv, TypeOK, Entries, CursorInLog
      <4> QED
        BY <4>1, <2>1, <2>5
    <3> QED
      BY <3>1, <2>1 DEF IInv, ReadersMissNothing
  <2> QED
    BY <1>1, <1>3, <1>4, <2>7, <2>8, <2>9 DEF IInv
<1> QED
  BY <1>5, <1>6

(* A page holds every entry up to its last one: an entry before the last    *)
(* one has fewer entries before it, so it is on the page as well.           *)
LEMMA PageIsPrefix ==
  ASSUME IInv, NEW rd \in Readers, NEW limit \in 1 .. MaxLimit,
         NEW last \in PageOf(rd, limit), NEW e \in After(rd), e.id <= last.id
  PROVE  e \in PageOf(rd, limit)
<1> DEFINE before(x) == {f \in After(rd) : f.id < x.id}
<1>1. IsFiniteSet(After(rd))
  BY FS_Subset DEF IInv, AllFinite, After
<1>2. IsFiniteSet(before(e)) /\ IsFiniteSet(before(last))
  BY <1>1, FS_Subset
<1>3. \A f \in After(rd) : f.id \in Nat
  BY DEF IInv, TypeOK, Entries, After
<1>4. last \in After(rd) /\ Cardinality(before(last)) < limit
  BY DEF PageOf
<1>5. before(e) \subseteq before(last)
  BY <1>3, <1>4
<1>6. Cardinality(before(e)) <= Cardinality(before(last))
  BY <1>2, <1>5, FS_Subset
<1>7. Cardinality(before(e)) \in Nat /\ Cardinality(before(last)) \in Nat
  BY <1>2, FS_CardinalityType
<1>8. Cardinality(before(e)) < limit
  BY <1>4, <1>6, <1>7, AuditAssumption
<1> QED
  BY <1>8 DEF PageOf

LEMMA ReadInv ==
  ASSUME IInv, NEW rd \in Readers, NEW limit \in 1 .. MaxLimit, ReadPage(rd, limit)
  PROVE  IInv'
<1> DEFINE page == PageOf(rd, limit)
<1>1. PICK last \in page :
        /\ \A e \in page : e.id <= last.id
        /\ cursor' = [cursor EXCEPT ![rd] = last.id]
  BY DEF ReadPage
<1>2. /\ seen' = [seen EXCEPT ![rd] = @ \cup page]
      /\ UNCHANGED <<pc, deferred, inserted, uncommitted, rowLock, want, mailed,
                     counterLock, drawn, counter, log>>
  BY DEF ReadPage, txVars, counterVars
<1>3. page \subseteq log /\ last \in log /\ last.id > cursor[rd]
  BY DEF PageOf, After
<1>4. last.id \in Nat /\ last.id <= counter
  BY <1>3 DEF IInv, TypeOK, Entries, NoHoles
<1>5. TypeOK'
  BY <1>1, <1>2, <1>3, <1>4 DEF IInv, TypeOK
<1>6. CursorInLog'
  BY <1>1, <1>2, <1>4 DEF IInv, TypeOK, CursorInLog
<1>7. page = {e \in After(rd) : e.id <= last.id}
  BY <1>1, PageIsPrefix DEF PageOf
<1>8. seen[rd] \cup page = {e \in log : e.id <= last.id}
  <2>1. \A e \in log : e.id \in Nat
    BY DEF IInv, TypeOK, Entries
  <2>2. seen[rd] = {e \in log : e.id <= cursor[rd]} /\ cursor[rd] \in Nat
    BY DEF IInv, ReadersMissNothing, TypeOK
  <2> HIDE DEF page
  <2> QED
    BY <1>3, <1>4, <1>7, <2>1, <2>2 DEF After
<1> HIDE DEF page
<1>9. ReadersMissNothing'
  BY <1>1, <1>2, <1>8 DEF IInv, TypeOK, ReadersMissNothing
<1> QED
  BY <1>2, <1>5, <1>6, <1>9 DEF IInv, NoHoles, UncommittedUnderLock, AllFinite

LEMMA NextInv == IInv /\ [Next]_vars => IInv'
<1> SUFFICES ASSUME IInv, [Next]_vars PROVE IInv'
  OBVIOUS
<1>1. CASE \E r \in Requests : RequestStep(r)
  <2> PICK r \in Requests : RequestStep(r)
    BY <1>1
  <2>1. QuietStep(r) \/ RollbackStep(r) \/ Insert(r) \/ CommitStep(r)
    BY DEF RequestStep, QuietStep, RollbackStep, CommitStep
  <2> QED
    BY <2>1, QuietInv, RollbackInv, InsertInv, CommitInv
<1>2. CASE \E rd \in Readers, limit \in 1 .. MaxLimit : ReadPage(rd, limit)
  BY <1>2, ReadInv
<1>3. CASE UNCHANGED vars
  BY <1>3 DEF vars, txVars, counterVars, readerVars, IInv, TypeOK, NoHoles,
              UncommittedUnderLock, AllFinite, CursorInLog, ReadersMissNothing
<1> QED
  BY <1>1, <1>2, <1>3 DEF Next

LEMMA Inductive == Spec => []IInv
BY InitInv, NextInv, PTL DEF Spec

-----------------------------------------------------------------------------
(* The theorems. *)

(* Every variable of the request transactions and of the log keeps its type. *)
THEOREM TypeCorrect == Spec => []TypeOK
<1>1. IInv => TypeOK
  BY DEF IInv
<1> QED
  BY <1>1, Inductive, PTL

(* Whatever transactions are open, and whichever roll back or crash, the     *)
(* committed entries are numbered 1 .. counter, each number once.            *)
THEOREM NumbersHaveNoHoles == Spec => []NoHoles
<1>1. IInv => NoHoles
  BY DEF IInv
<1> QED
  BY <1>1, Inductive, PTL

(* For any number of concurrent requests and any page size, a reader that    *)
(* continues from its cursor gets every entry that is ever committed.        *)
THEOREM FollowingMissesNothing == Spec => []ReadersMissNothing
<1>1. IInv => ReadersMissNothing
  BY DEF IInv
<1> QED
  BY <1>1, Inductive, PTL

-----------------------------------------------------------------------------
(* A request is one unit of work. *)

(* What a transaction has inserted so far: its own entries, of the phase    *)
(* that the request is in, numbered from 1.                                 *)
OpenEntries ==
    \A r \in Requests :
        /\ \A e \in uncommitted[r] : e.by = r /\ e.kind = Phase(r)
        /\ {e.nth : e \in uncommitted[r]} = 1 .. inserted[r]

UnitInv == OpenEntries /\ AllOrNothing

LEMMA InitUnit == Init => UnitInv
BY DEF Init, UnitInv, OpenEntries, AllOrNothing, EntriesOf, Committed, NothingDeferred

(* Closing the transaction of r leaves it empty and the others alone, if     *)
(* only the pc of r moves.                                                  *)
LEMMA CloseOpen ==
  ASSUME TypeOK, OpenEntries, NEW r \in Requests, CloseTransaction(r),
         \A s \in Requests \ {r} : pc'[s] = pc[s]
  PROVE  OpenEntries'
<1> SUFFICES ASSUME NEW s \in Requests
             PROVE  /\ \A e \in uncommitted'[s] : e.by = s /\ e.kind = Phase(s)'
                    /\ {e.nth : e \in uncommitted'[s]} = 1 .. inserted'[s]
  BY DEF OpenEntries
<1>1. CASE s = r
  BY <1>1 DEF CloseTransaction, TypeOK
<1>2. CASE s # r
  <2>1. uncommitted'[s] = uncommitted[s] /\ inserted'[s] = inserted[s] /\ pc'[s] = pc[s]
    BY <1>2 DEF CloseTransaction, TypeOK
  <2> QED
    BY <2>1 DEF OpenEntries, Phase
<1> QED
  BY <1>1, <1>2

LEMMA QuietUnit ==
  ASSUME TypeOK, UnitInv, NEW r \in Requests, QuietStep(r)
  PROVE  UnitInv'
<1>1. UNCHANGED <<uncommitted, inserted, log>>
  BY DEF QuietStep, Begin, AuditCreate, DeferMail, AskRow, TakeRow, HandlerReturns,
         Notify, FailNotify, counterVars, readerVars
<1>2. \A s \in Requests :
        /\ (s \in Committed)' <=> s \in Committed
        /\ Phase(s)' = Phase(s)
        /\ deferred'[s].rejection = deferred[s].rejection
        /\ s \in Committed => deferred'[s] = deferred[s]
        /\ pc[s] = "rejected" => pc'[s] = "rejected"
        /\ s \in mailed' => s \in mailed \/ s \in Committed
  <2> USE DEF TypeOK, Committed, Phase, Running, DeferredLists
  <2>1. CASE Begin(r)
    BY <2>1 DEF Begin
  <2>2. CASE AuditCreate(r)
    BY <2>2 DEF AuditCreate
  <2>3. CASE DeferMail(r)
    BY <2>3 DEF DeferMail
  <2>4. CASE \E row \in Rows : AskRow(r, row)
    BY <2>4 DEF AskRow
  <2>5. CASE TakeRow(r)
    BY <2>5 DEF TakeRow
  <2>6. CASE HandlerReturns(r)
    BY <2>6 DEF HandlerReturns
  <2>7. CASE Notify(r)
    BY <2>7 DEF Notify
  <2>8. CASE FailNotify(r)
    BY <2>8 DEF FailNotify
  <2> QED
    BY <2>1, <2>2, <2>3, <2>4, <2>5, <2>6, <2>7, <2>8 DEF QuietStep
<1>3. OpenEntries'
  BY <1>1, <1>2 DEF UnitInv, OpenEntries
<1>4. AllOrNothing'
  BY <1>1, <1>2 DEF UnitInv, AllOrNothing, EntriesOf
<1> QED
  BY <1>3, <1>4 DEF UnitInv

LEMMA RollbackUnit ==
  ASSUME TypeOK, UnitInv, NEW r \in Requests, RollbackStep(r)
  PROVE  UnitInv'
<1>1. CloseTransaction(r) /\ UNCHANGED <<log, mailed>>
  BY DEF RollbackStep, Reject, Fail, FailRejection, Rollback
<1>2. /\ \A s \in Requests \ {r} : pc'[s] = pc[s] /\ deferred'[s] = deferred[s]
      /\ pc[r] \in {"handler", "flushing", "recording"}
      /\ pc'[r] \in {"recording", "rejected", "failed"}
  <2> USE DEF TypeOK, Running
  <2>1. CASE \E n \in 0 .. MaxWrites : Reject(r, n)
    BY <2>1 DEF Reject
  <2>2. CASE Fail(r)
    BY <2>2 DEF Fail
  <2>3. CASE FailRejection(r)
    BY <2>3 DEF FailRejection
  <2> QED
    BY <2>1, <2>2, <2>3 DEF RollbackStep
<1>3. OpenEntries'
  BY <1>1, <1>2, CloseOpen DEF UnitInv
<1>4. AllOrNothing'
  BY <1>1, <1>2 DEF UnitInv, AllOrNothing, EntriesOf, Committed
<1> QED
  BY <1>3, <1>4 DEF UnitInv

LEMMA InsertUnit ==
  ASSUME TypeOK, UnitInv, NEW r \in Requests, Insert(r)
  PROVE  UnitInv'
<1> DEFINE new == [id |-> drawn', by |-> r, kind |-> Phase(r), nth |-> inserted[r] + 1]
<1>1. /\ uncommitted' = [uncommitted EXCEPT ![r] = @ \cup {new}]
      /\ inserted' = [inserted EXCEPT ![r] = @ + 1]
      /\ UNCHANGED <<pc, deferred, mailed, log>>
      /\ new.by = r /\ new.kind = Phase(r) /\ new.nth = inserted[r] + 1
  BY DEF Insert
<1> HIDE DEF new
<1>2. uncommitted'[r] = uncommitted[r] \cup {new} /\ inserted'[r] = inserted[r] + 1
      /\ inserted[r] \in Nat
  BY <1>1, AuditAssumption DEF TypeOK
<1>3. {e.nth : e \in uncommitted'[r]} = 1 .. inserted'[r]
  <2>1. {e.nth : e \in uncommitted[r]} = 1 .. inserted[r]
    BY DEF UnitInv, OpenEntries
  <2>2. \A n : n \in {e.nth : e \in uncommitted'[r]} <=>
                  n \in {e.nth : e \in uncommitted[r]} \/ n = inserted[r] + 1
    BY <1>1, <1>2
  <2>3. \A n : n \in 1 .. inserted'[r] <=> n \in 1 .. inserted[r] \/ n = inserted[r] + 1
    BY <1>2
  <2> QED
    BY <2>1, <2>2, <2>3
<1>4. OpenEntries'
  <2>1. \A s \in Requests \ {r} : uncommitted'[s] = uncommitted[s] /\ inserted'[s] = inserted[s]
    BY <1>1 DEF TypeOK
  <2>2. \A s \in Requests : Phase(s)' = Phase(s)
    BY <1>1 DEF Phase
  <2> QED
    BY <1>1, <1>2, <1>3, <2>1, <2>2 DEF UnitInv, OpenEntries
<1>5. AllOrNothing'
  BY <1>1 DEF UnitInv, AllOrNothing, EntriesOf, Committed
<1> QED
  BY <1>4, <1>5 DEF UnitInv

(* What a commit adds to the log: entries of r, of the phase it was in, and  *)
(* as many as were deferred for it.                                         *)
LEMMA CommitUnit ==
  ASSUME IInv, UnitInv, NEW r \in Requests, CommitStep(r)
  PROVE  UnitInv'
<1>1. /\ CloseTransaction(r) /\ UNCHANGED <<deferred, mailed>>
      /\ log' = log \cup uncommitted[r]
      /\ inserted[r] = ToInsert(r)
  BY DEF CommitStep, Commit, CommitRejection, Publish
<1>2. /\ \A s \in Requests \ {r} : pc'[s] = pc[s]
      /\ \/ pc[r] = "flushing" /\ pc'[r] \in {"notifying", "ok"}
         \/ pc[r] = "recording" /\ pc'[r] = "rejected"
  BY DEF CommitStep, Commit, CommitRejection, IInv, TypeOK
<1>3. OpenEntries'
  BY <1>1, <1>2, CloseOpen DEF UnitInv, IInv
<1>4. /\ \A e \in uncommitted[r] : e.by = r /\ e.kind = Phase(r)
      /\ {e.nth : e \in uncommitted[r]} = 1 .. ToInsert(r)
  BY <1>1 DEF UnitInv, OpenEntries
<1>5. \A s \in Requests \ {r}, kind \in Kinds : EntriesOf(s, kind)' = EntriesOf(s, kind)
  BY <1>1, <1>4 DEF EntriesOf
<1>6. \A kind \in Kinds : kind = Phase(r) =>
          EntriesOf(r, kind)' = EntriesOf(r, kind) \cup uncommitted[r]
  BY <1>1, <1>4 DEF EntriesOf
<1>7. \A kind \in Kinds : kind # Phase(r) => EntriesOf(r, kind)' = EntriesOf(r, kind)
  BY <1>1, <1>4 DEF EntriesOf
<1> DEFINE Unit(s) ==
      /\ {e.nth : e \in EntriesOf(s, "handler")} =
             IF s \in Committed THEN 1 .. deferred[s].before ELSE {}
      /\ s \in mailed => s \in Committed
      /\ EntriesOf(s, "rejection") # {} =>
             /\ pc[s] = "rejected"
             /\ {e.nth : e \in EntriesOf(s, "rejection")} = 1 .. deferred[s].rejection
<1>8. \A s \in Requests : Unit(s)
  BY DEF UnitInv, AllOrNothing
<1>9. \A s \in Requests \ {r} : Unit(s)'
  BY <1>1, <1>2, <1>5, <1>8 DEF Kinds, Committed
<1>10. Unit(r)'
  <2>1. CASE pc[r] = "flushing"
    <3>1. Phase(r) = "handler" /\ ToInsert(r) = deferred[r].before
      BY <2>1 DEF Phase, ToInsert
    <3>2. EntriesOf(r, "handler") = {} /\ EntriesOf(r, "rejection") = {}
      BY <2>1, <1>8 DEF Committed
    <3>3. EntriesOf(r, "handler")' = uncommitted[r] /\ EntriesOf(r, "rejection")' = {}
      BY <1>6, <1>7, <3>1, <3>2 DEF Kinds
    <3>4. r \in Committed'
      BY <1>2, <2>1 DEF Committed
    <3> QED
      BY <1>1, <1>4, <3>1, <3>3, <3>4
  <2>2. CASE pc[r] = "recording"
    <3>1. Phase(r) = "rejection" /\ ToInsert(r) = deferred[r].rejection
      BY <2>2 DEF Phase, ToInsert
    <3>2. EntriesOf(r, "handler") = {} /\ EntriesOf(r, "rejection") = {} /\ r \notin mailed
      BY <2>2, <1>8 DEF Committed
    <3>3. EntriesOf(r, "rejection")' = uncommitted[r] /\ EntriesOf(r, "handler")' = {}
      BY <1>6, <1>7, <3>1, <3>2 DEF Kinds
    <3>4. r \notin Committed' /\ pc'[r] = "rejected"
      BY <1>2, <2>2 DEF Committed
    <3> QED
      BY <1>1, <1>4, <3>1, <3>2, <3>3, <3>4
  <2> QED
    BY <1>2, <2>1, <2>2
<1>11. AllOrNothing'
  BY <1>9, <1>10 DEF AllOrNothing
<1> QED
  BY <1>3, <1>11 DEF UnitInv

LEMMA NextUnit == IInv /\ UnitInv /\ [Next]_vars => UnitInv'
<1> SUFFICES ASSUME IInv, UnitInv, [Next]_vars PROVE UnitInv'
  OBVIOUS
<1>1. CASE \E r \in Requests : RequestStep(r)
  <2> PICK r \in Requests : RequestStep(r)
    BY <1>1
  <2>1. QuietStep(r) \/ RollbackStep(r) \/ Insert(r) \/ CommitStep(r)
    BY DEF RequestStep, QuietStep, RollbackStep, CommitStep
  <2> QED
    BY <2>1, QuietUnit, RollbackUnit, InsertUnit, CommitUnit DEF IInv
<1>2. CASE \E rd \in Readers, limit \in 1 .. MaxLimit : ReadPage(rd, limit)
  BY <1>2 DEF ReadPage, txVars, counterVars, UnitInv, OpenEntries, AllOrNothing,
              EntriesOf, Committed, Phase
<1>3. CASE UNCHANGED vars
  BY <1>3 DEF vars, txVars, counterVars, UnitInv, OpenEntries, AllOrNothing,
              EntriesOf, Committed, Phase
<1> QED
  BY <1>1, <1>2, <1>3 DEF Next

LEMMA UnitInductive == Spec => []UnitInv
BY InitUnit, Inductive, NextUnit, PTL DEF Spec

(* For any number of requests and of entries: the entries of a handler are   *)
(* in the log, all of them, exactly when its transaction committed; its mail *)
(* follows the commit; and a rejection is recorded whole or not at all.      *)
THEOREM RequestsAreUnits == Spec => []AllOrNothing
<1>1. UnitInv => AllOrNothing
  BY DEF UnitInv
<1> QED
  BY <1>1, UnitInductive, PTL

-----------------------------------------------------------------------------
(* The refinement of AuditTrail. *)

TrailOfLog == [i \in 1 .. counter |-> EntryAt(i).by]

(* Every number up to the counter is the number of one entry. *)
LEMMA EntryAtNumber ==
  ASSUME NoHoles, TypeOK, NEW i \in 1 .. counter
  PROVE  EntryAt(i) \in log /\ EntryAt(i).id = i
<1>1. \E e \in log : e.id = i
  BY DEF NoHoles
<1> QED
  BY <1>1 DEF EntryAt

LEMMA TrailHasAuthors ==
  NoHoles /\ TypeOK => TrailOfLog \in Seq(Requests) /\ Len(TrailOfLog) = counter
<1> SUFFICES ASSUME NoHoles, TypeOK
             PROVE  TrailOfLog \in Seq(Requests) /\ Len(TrailOfLog) = counter
  OBVIOUS
<1>1. \A i \in 1 .. counter : EntryAt(i).by \in Requests
  BY EntryAtNumber DEF TypeOK, Entries
<1>2. counter \in Nat
  BY DEF TypeOK
<1> QED
  BY <1>1, <1>2 DEF TrailOfLog

LEMMA TrailKeepsAuthors ==
  (NoHoles /\ TypeOK)' => (TrailOfLog \in Seq(Requests) /\ Len(TrailOfLog) = counter)'
BY TrailHasAuthors, PTL

LEMMA InitTrail == Init => Trail!Init
<1> SUFFICES ASSUME Init PROVE Trail!Init
  OBVIOUS
<1>1. TrailOfLog = <<>>
  BY DEF Init, TrailOfLog
<1> QED
  BY <1>1 DEF Init, Trail!Init, TrailOfLog

(* A commit that numbered entries is one Publish; a commit without entries,  *)
(* or one of a request that never held the counter, changes nothing.        *)
LEMMA CommitPublishes ==
  ASSUME IInv, IInv', UnitInv, NEW r \in Requests, CommitStep(r)
  PROVE  Trail!Publish \/ UNCHANGED Trail!vars
<1>1. Publish(r) /\ UNCHANGED cursor
  BY DEF CommitStep, Commit, CommitRejection, readerVars
<1>2. CASE counterLock # r
  <2>1. UNCHANGED <<log, counter, cursor>>
    BY <1>1, <1>2 DEF Publish, IInv, UncommittedUnderLock
  <2> QED
    BY <2>1 DEF Trail!vars, EntryAt
<1>3. CASE counterLock = r
  <2>1. /\ log' = log \cup uncommitted[r] /\ counter' = drawn
        /\ drawn >= counter /\ drawn \in Nat /\ counter \in Nat
        /\ {e.id : e \in uncommitted[r]} = counter + 1 .. drawn
    BY <1>1, <1>3 DEF Publish, IInv, UncommittedUnderLock, TypeOK
  <2>2. \A i \in 1 .. counter : EntryAt(i)' = EntryAt(i)
    <3> SUFFICES ASSUME NEW i \in 1 .. counter PROVE EntryAt(i)' = EntryAt(i)
      OBVIOUS
    <3>1. EntryAt(i) \in log' /\ EntryAt(i).id = i
      BY <2>1, EntryAtNumber DEF IInv
    <3>2. EntryAt(i)' \in log' /\ EntryAt(i)'.id = i
      BY <3>1 DEF EntryAt
    <3>3. \A e, f \in log' : e.id = f.id => e = f
      BY DEF IInv, NoHoles
    <3> QED
      BY <3>1, <3>2, <3>3
  <2>3. \A i \in counter + 1 .. drawn : EntryAt(i)'.by = r
    <3> SUFFICES ASSUME NEW i \in counter + 1 .. drawn PROVE EntryAt(i)'.by = r
      OBVIOUS
    <3>1. PICK e \in uncommitted[r] : e.id = i
      BY <2>1
    <3>2. e \in log' /\ e.by = r
      BY <2>1 DEF UnitInv, OpenEntries
    <3>3. EntryAt(i)' \in log' /\ EntryAt(i)'.id = i
      BY <3>1, <3>2 DEF EntryAt
    <3> QED
      BY <3>1, <3>2, <3>3 DEF IInv, NoHoles
  <2>4. CASE drawn = counter
    <3>1. TrailOfLog' = TrailOfLog
      BY <2>1, <2>2, <2>4 DEF TrailOfLog
    <3> QED
      BY <1>1, <3>1 DEF Trail!vars, TrailOfLog
  <2>5. CASE drawn > counter
    <3>1. /\ TrailOfLog \in Seq(Requests) /\ Len(TrailOfLog) = counter
          /\ TrailOfLog' \in Seq(Requests) /\ Len(TrailOfLog') = drawn
      BY <2>1, TrailHasAuthors, TrailKeepsAuthors DEF IInv
    <3>2. \A i \in 1 .. counter : TrailOfLog'[i] = TrailOfLog[i]
      BY <2>1, <2>2 DEF TrailOfLog
    <3>3. \A i \in counter + 1 .. drawn : TrailOfLog'[i] = r
      BY <2>1, <2>3 DEF TrailOfLog
    <3>4. SubSeq(TrailOfLog', 1, counter) = TrailOfLog
      BY <2>1, <3>1, <3>2
    <3>5. /\ Len(TrailOfLog') > Len(TrailOfLog)
          /\ SubSeq(TrailOfLog', 1, Len(TrailOfLog)) = TrailOfLog
          /\ \A i, j \in Len(TrailOfLog) + 1 .. Len(TrailOfLog') :
                 TrailOfLog'[i] = TrailOfLog'[j]
      BY <2>1, <2>5, <3>1, <3>3, <3>4
    <3> QED
      BY <1>1, <3>5 DEF Trail!Publish, TrailOfLog
  <2> QED
    BY <2>1, <2>4, <2>5
<1> QED
  BY <1>2, <1>3

(* A page takes the cursor to the number of an entry that is there. *)
LEMMA PageFollows ==
  ASSUME IInv, NEW rd \in Readers, NEW limit \in 1 .. MaxLimit, ReadPage(rd, limit)
  PROVE  Trail!Follow(rd)
<1>1. PICK last \in PageOf(rd, limit) : cursor' = [cursor EXCEPT ![rd] = last.id]
  BY DEF ReadPage
<1>2. UNCHANGED <<log, counter>>
  BY DEF ReadPage, counterVars
<1>3. last \in log /\ last.id > cursor[rd]
  BY DEF PageOf, After
<1>4. last.id \in Nat /\ last.id <= counter
  BY <1>3 DEF IInv, TypeOK, Entries, NoHoles
<1>5. cursor' \in [Readers -> 0 .. counter]
  BY <1>1, <1>4 DEF IInv, TypeOK, CursorInLog
<1>6. cursor'[rd] >= cursor[rd] /\ \A other \in Readers \ {rd} : cursor'[other] = cursor[other]
  BY <1>1, <1>3, <1>4 DEF IInv, TypeOK
<1>7. Len(TrailOfLog) = counter /\ TrailOfLog' = TrailOfLog
  <2>1. TrailOfLog' = TrailOfLog
    BY <1>2 DEF TrailOfLog, EntryAt
  <2> QED
    BY <2>1, TrailHasAuthors DEF IInv
<1> QED
  BY <1>5, <1>6, <1>7 DEF Trail!Follow, TrailOfLog

LEMMA NextTrail == IInv /\ IInv' /\ UnitInv /\ [Next]_vars => [Trail!Next]_(Trail!vars)
<1> SUFFICES ASSUME IInv, IInv', UnitInv, [Next]_vars
             PROVE  Trail!Next \/ UNCHANGED Trail!vars
  OBVIOUS
<1>1. ASSUME UNCHANGED <<log, counter, cursor>> PROVE UNCHANGED Trail!vars
  BY <1>1 DEF Trail!vars, EntryAt
<1>2. CASE \E r \in Requests : RequestStep(r)
  <2> PICK r \in Requests : RequestStep(r)
    BY <1>2
  <2>1. CASE QuietStep(r)
    BY <1>1, <2>1 DEF QuietStep, Begin, AuditCreate, DeferMail, AskRow, TakeRow,
         HandlerReturns, Notify, FailNotify, counterVars, readerVars
  <2>2. CASE RollbackStep(r)
    BY <1>1, <2>2 DEF RollbackStep, Reject, Fail, FailRejection, Rollback, readerVars
  <2>3. CASE Insert(r)
    BY <1>1, <2>3 DEF Insert, readerVars
  <2>4. CASE CommitStep(r)
    BY <2>4, CommitPublishes DEF Trail!Next
  <2> QED
    BY <2>1, <2>2, <2>3, <2>4 DEF RequestStep, QuietStep, RollbackStep, CommitStep
<1>3. CASE \E rd \in Readers, limit \in 1 .. MaxLimit : ReadPage(rd, limit)
  BY <1>3, PageFollows DEF Trail!Next
<1>4. CASE UNCHANGED vars
  BY <1>1, <1>4 DEF vars, counterVars, readerVars
<1> QED
  BY <1>2, <1>3, <1>4 DEF Next

(* Numbers drawn under a lock, deferred inserts, rollbacks and crashes: all  *)
(* of it together is, for those who read, one sequence that only grows at   *)
(* its end, one request at a time.                                          *)
THEOREM LogIsATrail == Spec => ImplementsTrail
BY InitTrail, Inductive, UnitInductive, NextTrail, PTL DEF Spec, ImplementsTrail, Trail!Spec

-----------------------------------------------------------------------------
(* The tenants of the server.                                               *)

Row == Registry!TenantRow
Before == {"routed", "open", "reading"}
InRow == {"reading", "writing", "telling", "ending"}
InBase == {"open", "closing"} \cup InRow
ReqType == [pc : {"idle", "done", "routed"} \cup InBase, op : Ops \cup {None},
            seen : Row \cup {None}, put : Row \cup {None}, told : BOOLEAN]
Told == [of : TenantIds, field : {"name", "on"}, by : TenantIds,
         old : BOOLEAN \cup {First} \cup {op.val : op \in Ops}, new : {op.val : op \in Ops}]

RegistryTyped ==
    /\ backend \in {"file", "server"} /\ server \in {"down", "stamped", "made", "up"}
    /\ registry \in BOOLEAN /\ tables \subseteq TenantIds
    /\ tenantRow \in [TenantIds -> Row \cup {None}] /\ keys \in [TenantIds -> Nat]
    /\ req \in [TenantRequests -> ReqType]

LogsTyped == told \in [TenantIds -> Seq(Told)]

(* What a request has done by each phase.  A change tells the tenant before *)
(* it is committed, unless that is the one who makes it.                    *)
Differs(x) == x.op.kind = "update" /\ x.seen[x.op.field] # x.op.val
Tells(x) == Differs(x) /\ x.op.of # x.op.at

PhaseHolds(x) ==
    /\ x.pc \in Before => x.put = None
    /\ x.pc = "writing" => x.op.kind # "create" /\ x.put = None
    /\ x.pc = "telling" => Tells(x) /\ x.put # None
    /\ x.pc \in {"ending", "closing"} => (x.told <=> Tells(x)) /\ (x.op.kind \in {"create", "update"} => x.put # None)
    /\ x.pc \in Before \cup {"writing", "telling"} => ~x.told
    /\ x.pc \in InBase \cup {"routed"} => x.op \in Ops
    /\ x.pc \in InBase \ Before /\ x.op.kind # "create" => x.seen # None

(* What a request writes, as long as it is not committed, is what it makes  *)
(* of the row that is there.                                                *)
Written(x, row) ==
    \/ x.op.kind = "create" /\ row = None /\ x.put = Registry!NewRow(x.op.at)
    \/ x.op.kind = "init" /\ ~row.init /\ x.put = [row EXCEPT !.init = TRUE]
    \/ x.op.kind = "update" /\ x.put = [row EXCEPT ![x.op.field] = x.op.val]
    \/ x.op.kind = "delete" /\ x.put = [row EXCEPT !.on = FALSE, !.gone = TRUE]

RowHolds(x, row) ==
    /\ x.pc \in InBase \cup {"routed"} /\ x.op.kind = "init" => row # None
    /\ x.pc \in InBase \ Before /\ x.op.kind # "create" => row # None
    /\ x.pc \in Before /\ x.op.kind = "create" => row = None
    /\ x.pc \in InRow /\ x.put # None => Written(x, row)

Holds(x) ==
    /\ PhaseHolds(x) /\ RowHolds(x, tenantRow[x.op.of])
    /\ x.pc \in InRow /\ x.put # None => x.op.of \in tables

RequestsHold == \A r \in TenantRequests : Holds(req[r])

(* Requests that hold a lock keep others out; a uuid is drawn once.         *)
Apart(x, y) ==
    /\ x.pc \in InRow /\ y.pc \in InRow /\ x.put # None /\ y.put # None => x.op.of # y.op.of
    /\ Registry!Files => ~(x.pc \in InRow /\ y.pc \in InRow)
    /\ Registry!Files /\ x.pc \in InBase /\ y.pc \in InBase => x.op.at # y.op.at
    /\ x.op \in Ops /\ y.op \in Ops /\ x.op.kind = "create" => x.op # y.op

RequestsAreApart == \A q, r \in TenantRequests : q # r => Apart(req[q], req[r])

(* Requests wait for a server that is up, and that one has its root.        *)
ServerBoots ==
    /\ server # "up" => \A r \in TenantRequests : req[r].pc \in {"idle", "done"}
    /\ server # "down" => registry
    /\ IF server = "up" \/ (server = "down" /\ registry)
       THEN tenantRow[Root] # None ELSE tenantRow[Root] = None
    /\ server = "made" => Root \in tables
    /\ \A t \in TenantIds : tenantRow[t] # None => t \in tables

(* Of those who ask to initialize a tenant, one claims it.                  *)
Claims(x, t) == x.pc = "closing" /\ x.op.kind = "init" /\ x.op.at = t /\ x.put # None
Initialized(row) == row # None /\ row.init

Founded(t) ==
    /\ \A r \in TenantRequests : Claims(req[r], t) => Initialized(tenantRow[t]) /\ keys[t] = 0
    /\ \A q, r \in TenantRequests : Claims(req[q], t) /\ Claims(req[r], t) => q = r
    /\ Initialized(tenantRow[t]) =>
          (t \in founder /\ keys[t] = 1) \/ \E r \in TenantRequests : Claims(req[r], t)
    /\ ~Initialized(tenantRow[t]) => keys[t] = 0

TenantsInv ==
    /\ RegistryTyped /\ RequestsHold /\ RequestsAreApart /\ ServerBoots
    /\ \A t \in TenantIds : Founded(t)

(* On sqlite, a request in the registry has seen the row that is there; and *)
(* when it has told a tenant, no request of that tenant has yet to tell.    *)
SeenIsThere ==
    \A r \in TenantRequests :
       req[r].pc \in {"writing", "telling", "ending"} /\ req[r].op.kind # "create" =>
          req[r].seen = tenantRow[req[r].op.of]

NoneIsBehind ==
    \A q, r \in TenantRequests :
       req[q].pc = "ending" /\ req[q].told /\ req[r].pc = "closing" => req[q].op.of # req[r].op.at

(* The names that a log tells of its tenant, and the last one by entry n.   *)
NamesOf(log_, t) == {i \in DOMAIN log_ : log_[i].of = t /\ log_[i].field = "name"}
NamesUpTo(log_, t, n) == {i \in NamesOf(log_, t) : i <= n}
IsLast(S, i) == i \in S /\ \A j \in S : j <= i
TellsName(log_, t, n, name) ==
    /\ NamesUpTo(log_, t, n) = {} => name = First
    /\ \A i \in NamesUpTo(log_, t, n) : IsLast(NamesUpTo(log_, t, n), i) => name = log_[i].new
NamesFollow(log_, t) == \A i \in NamesOf(log_, t) : TellsName(log_, t, i - 1, log_[i].old)
LogTells(t, name) == TellsName(told[t], t, Len(told[t]), name)

(* The last name that a log tells is the one of the row, but while a change *)
(* has told it before its commit, or has yet to.                            *)
Ahead(x, t) == x.pc = "ending" /\ x.told /\ x.op.of = t /\ x.op.field = "name"
Late(x, t) == x.pc = "closing" /\ Differs(x) /\ x.op.of = t /\ x.op.at = t /\ x.op.field = "name"

NameIsTold(t) ==
    /\ NamesFollow(told[t], t)
    /\ tenantRow[t] = None => NamesOf(told[t], t) = {}
    /\ \A r \in TenantRequests : Ahead(req[r], t) => LogTells(t, req[r].op.val)
    /\ \A r \in TenantRequests : Late(req[r], t) =>
          LogTells(t, req[r].seen.name) /\ tenantRow[t] # None /\ tenantRow[t].name = req[r].op.val
    /\ tenantRow[t] # None /\ (\A r \in TenantRequests : ~Ahead(req[r], t) /\ ~Late(req[r], t)) =>
          LogTells(t, tenantRow[t].name)

(* What an owner did with a tenant is in both logs, but for the last of it. *)
Matches(o, t, log_o, log_t, same) ==
    /\ same \in [Registry!ShareOf(o, t, log_o) -> Registry!ShareOf(o, t, log_t)]
    /\ \A i \in DOMAIN same : log_t[same[i]] = log_o[i]
    /\ \A i, j \in DOMAIN same : i < j => same[i] < same[j]

AllShared(o, t, log_o, log_t) ==
    \E same : /\ Matches(o, t, log_o, log_t, same)
              /\ \A k \in Registry!ShareOf(o, t, log_t) : \E i \in DOMAIN same : k = same[i]

AllButLast(o, t, log_o, log_t, e) ==
    \E same, p :
       /\ Matches(o, t, log_o, log_t, same) /\ IsLast(Registry!ShareOf(o, t, log_t), p)
       /\ log_t[p] = e
       /\ \A k \in Registry!ShareOf(o, t, log_t) : k = p <=> ~\E i \in DOMAIN same : k = same[i]

EntryOf(x) == [of |-> x.op.of, field |-> x.op.field, by |-> x.op.at,
               old |-> x.seen[x.op.field], new |-> x.op.val]
HasTold(x, o, t) == x.pc \in {"ending", "closing"} /\ x.told /\ x.op.at = o /\ x.op.of = t

ShareIsTold(o, t) ==
    /\ \A r \in TenantRequests : HasTold(req[r], o, t) =>
          AllButLast(o, t, told[o], told[t], EntryOf(req[r]))
    /\ (\A r \in TenantRequests : ~HasTold(req[r], o, t)) => AllShared(o, t, told[o], told[t])

LogsInv ==
    /\ SeenIsThere /\ NoneIsBehind
    /\ \A t \in TenantIds : NameIsTold(t)
    /\ \A o, t \in TenantIds : o # t => ShareIsTold(o, t)

ServerInv == splits \in Nat /\ TenantsInv /\ (Registry!Files => LogsTyped /\ LogsInv)

-----------------------------------------------------------------------------
(* Logs that grow.                                                          *)

LEMMA Grows ==
    ASSUME NEW s \in Seq(Told), NEW e \in Told
    PROVE  /\ Append(s, e) \in Seq(Told) /\ Len(Append(s, e)) = Len(s) + 1 /\ Len(s) \in Nat
           /\ DOMAIN s = 1..Len(s) /\ DOMAIN Append(s, e) = 1..(Len(s) + 1)
           /\ Append(s, e)[Len(s) + 1] = e
           /\ \A i \in 1..Len(s) : Append(s, e)[i] = s[i]
  OBVIOUS

LEMMA OtherName ==
    ASSUME NEW s \in Seq(Told), NEW e \in Told, NEW t, e.of # t \/ e.field # "name"
    PROVE  NamesOf(Append(s, e), t) = NamesOf(s, t)
  <1>1. PICK z : z = Append(s, e)
    OBVIOUS
  <1>2. /\ DOMAIN z = DOMAIN s \cup {Len(s) + 1} /\ z[Len(s) + 1] = e
        /\ \A i \in DOMAIN s : z[i] = s[i]
    BY <1>1, Grows
  <1>3. NamesOf(z, t) = NamesOf(s, t)
    BY <1>2 DEF NamesOf
  <1> QED BY <1>1, <1>3

LEMMA OneMoreName ==
    ASSUME NEW s \in Seq(Told), NEW e \in Told, NEW t, e.of = t, e.field = "name"
    PROVE  NamesOf(Append(s, e), t) = NamesOf(s, t) \cup {Len(s) + 1}
  <1>1. PICK z : z = Append(s, e)
    OBVIOUS
  <1>2. /\ DOMAIN z = DOMAIN s \cup {Len(s) + 1} /\ z[Len(s) + 1] = e
        /\ \A i \in DOMAIN s : z[i] = s[i]
    BY <1>1, Grows
  <1>3. NamesOf(z, t) = NamesOf(s, t) \cup {Len(s) + 1}
    BY <1>2 DEF NamesOf
  <1> QED BY <1>1, <1>3

(* What a log told by an entry it still tells when it is longer.            *)
LEMMA ToldBefore ==
    ASSUME NEW s \in Seq(Told), NEW e \in Told, NEW t, NEW n \in 0..Len(s), NEW name
    PROVE  TellsName(Append(s, e), t, n, name) <=> TellsName(s, t, n, name)
  <1>1. PICK z : z = Append(s, e)
    OBVIOUS
  <1>2. /\ DOMAIN z = 1..(Len(s) + 1) /\ DOMAIN s = 1..Len(s) /\ Len(s) \in Nat
        /\ \A i \in 1..Len(s) : z[i] = s[i]
    BY <1>1, Grows
  <1>3. NamesUpTo(z, t, n) = NamesUpTo(s, t, n)
    BY <1>2 DEF NamesUpTo, NamesOf
  <1>4. \A i \in NamesUpTo(s, t, n) : z[i] = s[i]
    BY <1>2 DEF NamesUpTo, NamesOf
  <1>5. TellsName(z, t, n, name) <=> TellsName(s, t, n, name)
    BY <1>3, <1>4 DEF TellsName
  <1> QED BY <1>1, <1>5

LEMMA OtherNameTells ==
    ASSUME NEW s \in Seq(Told), NEW e \in Told, NEW t, e.of # t \/ e.field # "name", NEW name
    PROVE  TellsName(Append(s, e), t, Len(Append(s, e)), name) <=> TellsName(s, t, Len(s), name)
  <1>1. PICK z : z = Append(s, e)
    OBVIOUS
  <1>2. /\ Len(z) = Len(s) + 1 /\ DOMAIN s = 1..Len(s) /\ Len(s) \in Nat
        /\ \A i \in 1..Len(s) : z[i] = s[i]
    BY <1>1, Grows
  <1>3. NamesOf(z, t) = NamesOf(s, t)
    BY <1>1, OtherName
  <1>4. NamesUpTo(z, t, Len(z)) = NamesUpTo(s, t, Len(s))
    BY <1>2, <1>3 DEF NamesUpTo, NamesOf
  <1>5. \A i \in NamesUpTo(s, t, Len(s)) : z[i] = s[i]
    BY <1>2 DEF NamesUpTo, NamesOf
  <1>6. TellsName(z, t, Len(z), name) <=> TellsName(s, t, Len(s), name)
    BY <1>4, <1>5 DEF TellsName
  <1> QED BY <1>1, <1>6

LEMMA OneMoreNameTells ==
    ASSUME NEW s \in Seq(Told), NEW e \in Told, NEW t, e.of = t, e.field = "name"
    PROVE  TellsName(Append(s, e), t, Len(Append(s, e)), e.new)
  <1>1. PICK z : z = Append(s, e)
    OBVIOUS
  <1>2. Len(z) = Len(s) + 1 /\ Len(s) \in Nat /\ z[Len(z)] = e
    BY <1>1, Grows
  <1>3. NamesOf(z, t) = NamesOf(s, t) \cup {Len(z)} /\ NamesOf(s, t) \subseteq 1..Len(s)
    BY <1>1, <1>2, OneMoreName, Grows DEF NamesOf
  <1>4. Len(z) \in NamesUpTo(z, t, Len(z)) /\ \A i \in NamesUpTo(z, t, Len(z)) : i <= Len(z) /\ i \in Nat
    BY <1>2, <1>3 DEF NamesUpTo
  <1>5. \A i \in NamesUpTo(z, t, Len(z)) : IsLast(NamesUpTo(z, t, Len(z)), i) => i = Len(z)
    BY <1>2, <1>4 DEF IsLast
  <1>6. TellsName(z, t, Len(z), e.new)
    BY <1>2, <1>4, <1>5 DEF TellsName
  <1> QED BY <1>1, <1>6

LEMMA NamesStillFollow ==
    ASSUME NEW s \in Seq(Told), NEW e \in Told, NEW t, NamesFollow(s, t),
           e.of = t /\ e.field = "name" => TellsName(s, t, Len(s), e.old)
    PROVE  NamesFollow(Append(s, e), t)
  <1>1. PICK z : z = Append(s, e)
    OBVIOUS
  <1>2. /\ DOMAIN s = 1..Len(s) /\ Len(s) \in Nat /\ z[Len(s) + 1] = e
        /\ \A i \in 1..Len(s) : z[i] = s[i]
    BY <1>1, Grows
  <1>3. ASSUME NEW i \in NamesOf(s, t) PROVE TellsName(z, t, i - 1, z[i].old)
    <2>1. i \in 1..Len(s) /\ i - 1 \in 0..Len(s) /\ z[i] = s[i]
      BY <1>2 DEF NamesOf
    <2>2. TellsName(s, t, i - 1, s[i].old)
      BY DEF NamesFollow
    <2>3. PICK n, name : n = i - 1 /\ name = s[i].old
      OBVIOUS
    <2>4. TellsName(z, t, n, name) <=> TellsName(s, t, n, name)
      BY <1>1, <2>1, <2>3, ToldBefore
    <2> QED BY <2>1, <2>2, <2>3, <2>4
  <1>4. CASE e.of = t /\ e.field = "name"
    <2>1. NamesOf(z, t) = NamesOf(s, t) \cup {Len(s) + 1}
      BY <1>1, <1>4, OneMoreName
    <2>2. PICK n, name : n = Len(s) /\ name = e.old
      OBVIOUS
    <2>3. TellsName(z, t, n, name)
      BY <1>1, <1>2, <1>4, <2>2, ToldBefore
    <2>4. TellsName(z, t, (Len(s) + 1) - 1, z[Len(s) + 1].old)
      BY <1>2, <2>2, <2>3
    <2>5. NamesFollow(z, t)
      BY <1>3, <2>1, <2>4 DEF NamesFollow
    <2> QED BY <1>1, <2>5
  <1>5. CASE ~(e.of = t /\ e.field = "name")
    <2>1. NamesOf(z, t) = NamesOf(s, t)
      BY <1>1, <1>5, OtherName
    <2>2. NamesFollow(z, t)
      BY <1>3, <2>1 DEF NamesFollow
    <2> QED BY <1>1, <2>2
  <1> QED BY <1>4, <1>5

(* Two logs that share what o did with t.                                   *)
LEMMA OtherShare ==
    ASSUME NEW s \in Seq(Told), NEW e \in Told, NEW o, NEW t, e.of # t \/ e.by # o
    PROVE  Registry!ShareOf(o, t, Append(s, e)) = Registry!ShareOf(o, t, s)
  <1>1. PICK z : z = Append(s, e)
    OBVIOUS
  <1>2. /\ DOMAIN z = DOMAIN s \cup {Len(s) + 1} /\ z[Len(s) + 1] = e
        /\ \A i \in DOMAIN s : z[i] = s[i]
    BY <1>1, Grows
  <1>3. Registry!ShareOf(o, t, z) = Registry!ShareOf(o, t, s)
    BY <1>2 DEF Registry!ShareOf
  <1> QED BY <1>1, <1>3

LEMMA OneMoreShare ==
    ASSUME NEW s \in Seq(Told), NEW e \in Told, NEW o, NEW t, e.of = t, e.by = o
    PROVE  Registry!ShareOf(o, t, Append(s, e)) = Registry!ShareOf(o, t, s) \cup {Len(s) + 1}
  <1>1. PICK z : z = Append(s, e)
    OBVIOUS
  <1>2. /\ DOMAIN z = DOMAIN s \cup {Len(s) + 1} /\ z[Len(s) + 1] = e
        /\ \A i \in DOMAIN s : z[i] = s[i]
    BY <1>1, Grows
  <1>3. Registry!ShareOf(o, t, z) = Registry!ShareOf(o, t, s) \cup {Len(s) + 1}
    BY <1>2 DEF Registry!ShareOf
  <1> QED BY <1>1, <1>3

LEMMA ShareOfLog ==
    ASSUME NEW s \in Seq(Told), NEW e \in Told, NEW o, NEW t
    PROVE  /\ \A i \in Registry!ShareOf(o, t, s) : i \in 1..Len(s) /\ Append(s, e)[i] = s[i]
  BY Grows DEF Registry!ShareOf

(* Other entries change nothing, in either log.                             *)
LEMMA OtherEntry ==
    ASSUME NEW a \in Seq(Told), NEW b \in Seq(Told), NEW e \in Told, NEW o, NEW t,
           e.of # t \/ e.by # o, NEW x
    PROVE  /\ AllShared(o, t, a, b) => AllShared(o, t, Append(a, e), b) /\ AllShared(o, t, a, Append(b, e))
           /\ AllButLast(o, t, a, b, x) =>
                 AllButLast(o, t, Append(a, e), b, x) /\ AllButLast(o, t, a, Append(b, e), x)
  <1>1. PICK y, z : y = Append(a, e) /\ z = Append(b, e)
    OBVIOUS
  <1>2. /\ Registry!ShareOf(o, t, y) = Registry!ShareOf(o, t, a)
        /\ Registry!ShareOf(o, t, z) = Registry!ShareOf(o, t, b)
    BY <1>1, OtherShare
  <1>3. /\ \A i \in Registry!ShareOf(o, t, a) : y[i] = a[i]
        /\ \A i \in Registry!ShareOf(o, t, b) : z[i] = b[i]
    BY <1>1, ShareOfLog
  <1>4. ASSUME NEW same, Matches(o, t, a, b, same)
        PROVE  Matches(o, t, y, b, same) /\ Matches(o, t, a, z, same)
    BY <1>2, <1>3, <1>4 DEF Matches
  <1>5. AllShared(o, t, a, b) => AllShared(o, t, y, b) /\ AllShared(o, t, a, z)
    BY <1>2, <1>4 DEF AllShared
  <1>6. ASSUME AllButLast(o, t, a, b, x) PROVE AllButLast(o, t, y, b, x) /\ AllButLast(o, t, a, z, x)
    <2>1. PICK same, p :
             /\ Matches(o, t, a, b, same) /\ IsLast(Registry!ShareOf(o, t, b), p)
             /\ b[p] = x
             /\ \A k \in Registry!ShareOf(o, t, b) : k = p <=> ~\E i \in DOMAIN same : k = same[i]
      BY <1>6 DEF AllButLast
    <2>2. z[p] = x
      BY <1>3, <2>1 DEF IsLast
    <2>3. Matches(o, t, y, b, same) /\ Matches(o, t, a, z, same)
      BY <1>4, <2>1
    <2>4. AllButLast(o, t, y, b, x)
      BY <2>1, <2>3 DEF AllButLast
    <2>5. /\ IsLast(Registry!ShareOf(o, t, z), p)
          /\ \A k \in Registry!ShareOf(o, t, z) : k = p <=> ~\E i \in DOMAIN same : k = same[i]
      BY <1>2, <2>1
    <2>6. AllButLast(o, t, a, z, x)
      BY <2>2, <2>3, <2>5 DEF AllButLast
    <2> QED BY <2>4, <2>6
  <1> QED BY <1>1, <1>5, <1>6

(* The log of the tenant is told first.                                     *)
LEMMA TenantIsTold ==
    ASSUME NEW a \in Seq(Told), NEW b \in Seq(Told), NEW e \in Told, NEW o, NEW t,
           e.of = t, e.by = o, AllShared(o, t, a, b)
    PROVE  AllButLast(o, t, a, Append(b, e), e)
  <1>1. PICK z, p : z = Append(b, e) /\ p = Len(b) + 1
    OBVIOUS
  <1>2. Registry!ShareOf(o, t, z) = Registry!ShareOf(o, t, b) \cup {p}
    BY <1>1, OneMoreShare
  <1>3. /\ \A i \in Registry!ShareOf(o, t, b) : i \in 1..Len(b) /\ z[i] = b[i]
        /\ z[p] = e /\ Len(b) \in Nat
    BY <1>1, ShareOfLog, Grows
  <1>4. PICK same : /\ Matches(o, t, a, b, same)
                    /\ \A k \in Registry!ShareOf(o, t, b) : \E i \in DOMAIN same : k = same[i]
    BY DEF AllShared
  <1>5. Matches(o, t, a, z, same)
    BY <1>2, <1>3, <1>4 DEF Matches
  <1>6. \A i \in DOMAIN same : same[i] \in 1..Len(b) /\ same[i] # p
    BY <1>1, <1>3, <1>4 DEF Matches
  <1>7. IsLast(Registry!ShareOf(o, t, z), p)
    BY <1>1, <1>2, <1>3 DEF IsLast
  <1>8. \A k \in Registry!ShareOf(o, t, z) : k = p <=> ~\E i \in DOMAIN same : k = same[i]
    BY <1>2, <1>4, <1>6
  <1>9. AllButLast(o, t, a, z, e)
    BY <1>3, <1>5, <1>7, <1>8 DEF AllButLast
  <1> QED BY <1>1, <1>9

(* Then the log of its owner.                                               *)
LEMMA OwnerIsTold ==
    ASSUME NEW a \in Seq(Told), NEW b \in Seq(Told), NEW e \in Told, NEW o, NEW t,
           e.of = t, e.by = o, AllButLast(o, t, a, b, e)
    PROVE  AllShared(o, t, Append(a, e), b)
  <1>1. PICK y, n : y = Append(a, e) /\ n = Len(a) + 1
    OBVIOUS
  <1>2. Registry!ShareOf(o, t, y) = Registry!ShareOf(o, t, a) \cup {n}
    BY <1>1, OneMoreShare
  <1>3. /\ \A i \in Registry!ShareOf(o, t, a) : i \in 1..Len(a) /\ y[i] = a[i]
        /\ y[n] = e /\ Len(a) \in Nat
    BY <1>1, ShareOfLog, Grows
  <1>4. \A k \in Registry!ShareOf(o, t, b) : k \in 1..Len(b)
    BY ShareOfLog
  <1>5. PICK same, p :
             /\ Matches(o, t, a, b, same) /\ IsLast(Registry!ShareOf(o, t, b), p)
             /\ b[p] = e
             /\ \A k \in Registry!ShareOf(o, t, b) : k = p <=> ~\E i \in DOMAIN same : k = same[i]
    BY DEF AllButLast
  <1>6. /\ DOMAIN same = Registry!ShareOf(o, t, a)
        /\ \A i \in DOMAIN same : same[i] \in Registry!ShareOf(o, t, b) /\ b[same[i]] = a[i]
        /\ \A i, j \in DOMAIN same : i < j => same[i] < same[j]
    BY <1>5 DEF Matches
  <1>7. \A i \in DOMAIN same : same[i] < p
    <2> SUFFICES ASSUME NEW i \in DOMAIN same PROVE same[i] < p
      OBVIOUS
    <2>1. same[i] \in Registry!ShareOf(o, t, b) /\ same[i] # p
      BY <1>5, <1>6
    <2>2. same[i] <= p /\ p \in 1..Len(b) /\ same[i] \in 1..Len(b)
      BY <1>4, <1>5, <2>1 DEF IsLast
    <2>3. Len(b) \in Nat
      OBVIOUS
    <2> QED BY <2>1, <2>2, <2>3
  <1>8. PICK f : f = [i \in Registry!ShareOf(o, t, a) \cup {n} |-> IF i = n THEN p ELSE same[i]]
    OBVIOUS
  <1>9. /\ f[n] = p /\ \A i \in DOMAIN same : f[i] = same[i] /\ i < n /\ i # n
    BY <1>1, <1>3, <1>6, <1>8
  <1>10. Matches(o, t, y, b, f)
    <2>1. f \in [Registry!ShareOf(o, t, y) -> Registry!ShareOf(o, t, b)]
      BY <1>2, <1>5, <1>6, <1>8 DEF IsLast
    <2>2. \A i \in DOMAIN f : b[f[i]] = y[i]
      BY <1>3, <1>5, <1>6, <1>8, <1>9
    <2>3. \A i, j \in DOMAIN f : i < j => f[i] < f[j]
      <3> SUFFICES ASSUME NEW i \in DOMAIN f, NEW j \in DOMAIN f, i < j PROVE f[i] < f[j]
        OBVIOUS
      <3>1. i # n
        BY <1>1, <1>3, <1>6, <1>8, <1>9
      <3>2. i \in DOMAIN same
        BY <1>6, <1>8, <3>1
      <3>3. CASE j = n
        BY <1>7, <1>9, <3>2, <3>3
      <3>4. CASE j # n
        BY <1>6, <1>8, <1>9, <3>2, <3>4
      <3> QED BY <3>3, <3>4
    <2> QED BY <2>1, <2>2, <2>3 DEF Matches
  <1>11. \A k \in Registry!ShareOf(o, t, b) : \E i \in DOMAIN f : k = f[i]
    BY <1>5, <1>6, <1>8, <1>9
  <1> QED BY <1>1, <1>10, <1>11 DEF AllShared

-----------------------------------------------------------------------------
(* Rows.                                                                    *)

LEMMA NoRow == None \notin Row /\ \A t \in TenantIds \cup {None} :
      Registry!NewRow(t) \in Row /\ Registry!NewRow(t).name = First /\ ~Registry!NewRow(t).init
  BY ServerAssumption DEF Row, Registry!TenantRow, Registry!NewRow

LEMMA NamedByOps == \A op \in Ops : op.field = "name" => op.val \in {First} \cup {o.val : o \in {p \in Ops : p.field = "name"}}
  OBVIOUS

LEMMA ChangedRow ==
    ASSUME NEW row \in Row, NEW op \in Ops, op.kind = "update"
    PROVE  LET new == [row EXCEPT ![op.field] = op.val] IN
           /\ new \in Row /\ new.init = row.init
           /\ new.name = IF op.field = "name" THEN op.val ELSE row.name
  <1>1. op.field \in {"name", "on"} /\ (op.field = "on" => op.val \in BOOLEAN)
    BY ServerAssumption
  <1>2. CASE op.field = "name"
    <2>1. PICK new : new = [row EXCEPT !["name"] = op.val]
      OBVIOUS
    <2>2. new \in Row /\ new.init = row.init /\ new.name = op.val
      BY <1>2, <2>1, NamedByOps DEF Row, Registry!TenantRow
    <2> QED BY <1>2, <2>1, <2>2
  <1>3. CASE op.field = "on"
    <2>1. PICK new : new = [row EXCEPT !["on"] = op.val]
      OBVIOUS
    <2>2. new \in Row /\ new.init = row.init /\ new.name = row.name
      BY <1>1, <1>3, <2>1 DEF Row, Registry!TenantRow
    <2> QED BY <1>3, <2>1, <2>2
  <1> QED BY <1>1, <1>2, <1>3

LEMMA WrittenRow ==
    ASSUME NEW x \in ReqType, x.op \in Ops, NEW row \in Row \cup {None}, Written(x, row),
           x.op.kind # "create" => row # None
    PROVE  /\ x.put \in Row /\ x.put # None
           /\ x.op.kind = "create" => row = None /\ x.put.name = First /\ ~x.put.init
           /\ x.op.kind = "init" => x.put.init /\ ~row.init /\ x.put.name = row.name
           /\ x.op.kind \in {"update", "delete"} => x.put.init = row.init
           /\ x.op.kind = "delete" => x.put.name = row.name
           /\ x.op.kind = "update" => x.put.name = IF x.op.field = "name" THEN x.op.val ELSE row.name
  <1>1. x.op.kind \in {"create", "init", "update", "delete"} /\ x.op.at \in TenantIds
    BY ServerAssumption
  <1>2. CASE x.op.kind = "create"
    BY <1>1, <1>2, NoRow DEF Written
  <1>3. CASE x.op.kind = "init"
    <2>1. row \in Row
      BY <1>3
    <2>2. PICK new : new = [row EXCEPT !.init = TRUE]
      OBVIOUS
    <2>3. new \in Row /\ new.init /\ new.name = row.name
      BY <2>1, <2>2 DEF Row, Registry!TenantRow
    <2>4. x.put = new /\ ~row.init
      BY <1>3, <2>2 DEF Written
    <2> QED BY <1>3, <2>3, <2>4, NoRow
  <1>4. CASE x.op.kind = "update"
    <2>1. row \in Row
      BY <1>4
    <2>2. PICK new : new = [row EXCEPT ![x.op.field] = x.op.val]
      OBVIOUS
    <2>3. /\ new \in Row /\ new.init = row.init
          /\ new.name = IF x.op.field = "name" THEN x.op.val ELSE row.name
      BY <1>4, <2>1, <2>2, ChangedRow
    <2>4. x.put = new
      BY <1>4, <2>2 DEF Written
    <2> QED BY <1>4, <2>3, <2>4, NoRow
  <1>5. CASE x.op.kind = "delete"
    <2>1. row \in Row
      BY <1>5
    <2>2. PICK new : new = [row EXCEPT !.on = FALSE, !.gone = TRUE]
      OBVIOUS
    <2>3. new \in Row /\ new.init = row.init /\ new.name = row.name
      BY <2>1, <2>2 DEF Row, Registry!TenantRow
    <2>4. x.put = new
      BY <1>5, <2>2 DEF Written
    <2> QED BY <1>5, <2>3, <2>4, NoRow
  <1> QED BY <1>1, <1>2, <1>3, <1>4, <1>5

-----------------------------------------------------------------------------
(* A request takes a step, and nobody notices.                              *)

LEMMA StillApart ==
    ASSUME UNCHANGED backend, NEW x, NEW y
    PROVE  Apart(x, y)' <=> Apart(x, y)
  BY DEF Apart, Registry!Files

LEMMA RequestMoves ==
    ASSUME TenantsInv, server = "up", NEW r \in TenantRequests, NEW n \in ReqType,
           req' = [req EXCEPT ![r] = n],
           UNCHANGED <<backend, server, registry, tenantRow, founder, keys>>,
           tables \subseteq tables', tables' \subseteq TenantIds,
           Holds(n)', \A q \in TenantRequests \ {r} : Apart(req[q], n) /\ Apart(n, req[q]),
           \A t \in TenantIds : ~Claims(req[r], t) /\ ~Claims(n, t)
    PROVE  TenantsInv'
  <1>1. /\ req \in [TenantRequests -> ReqType] /\ req' \in [TenantRequests -> ReqType]
        /\ req'[r] = n /\ \A q \in TenantRequests \ {r} : req'[q] = req[q]
    BY DEF TenantsInv, RegistryTyped
  <1>2. RegistryTyped'
    BY <1>1 DEF TenantsInv, RegistryTyped
  <1>3. RequestsHold'
    <2> SUFFICES ASSUME NEW q \in TenantRequests PROVE Holds(req[q])'
      BY DEF RequestsHold
    <2>1. CASE q = r
      BY <1>1, <2>1
    <2>2. CASE q # r
      BY <1>1, <2>2 DEF TenantsInv, RequestsHold, Holds
    <2> QED BY <2>1, <2>2
  <1>4. RequestsAreApart'
    <2> SUFFICES ASSUME NEW p \in TenantRequests, NEW q \in TenantRequests, p # q
                 PROVE  Apart(req[p], req[q])'
      BY DEF RequestsAreApart
    <2>1. PICK x, y : x = req'[p] /\ y = req'[q]
      OBVIOUS
    <2>2. Apart(x, y)
      BY <1>1, <2>1 DEF TenantsInv, RequestsAreApart
    <2> QED BY <2>1, <2>2, StillApart DEF Apart, Registry!Files
  <1>5. ServerBoots'
    BY DEF TenantsInv, ServerBoots
  <1>6. ASSUME NEW t \in TenantIds PROVE Founded(t)'
    <2>1. \A q \in TenantRequests : Claims(req[q], t)' <=> Claims(req[q], t)
      <3> SUFFICES ASSUME NEW q \in TenantRequests PROVE Claims(req[q], t)' <=> Claims(req[q], t)
        OBVIOUS
      <3>1. CASE q = r
        BY <1>1, <3>1 DEF Claims
      <3>2. CASE q # r
        BY <1>1, <3>2 DEF Claims
      <3> QED BY <3>1, <3>2
    <2>2. Founded(t)
      BY DEF TenantsInv
    <2> HIDE DEF Claims
    <2> QED BY <2>1, <2>2 DEF Founded, Initialized
  <1> QED BY <1>2, <1>3, <1>4, <1>5, <1>6 DEF TenantsInv

(* It keeps its locks or gives some back.                                   *)
LEMMA FewerLocks ==
    ASSUME TenantsInv, NEW r \in TenantRequests, NEW n \in ReqType,
           n.op = req[r].op \/ n.op = None,
           n.pc \in InRow => req[r].pc \in InRow /\ n.op = req[r].op,
           n.pc \in InRow /\ n.put # None => req[r].put # None,
           n.pc \in InBase => req[r].pc \in InBase /\ n.op = req[r].op
    PROVE  \A q \in TenantRequests \ {r} : Apart(req[q], n) /\ Apart(n, req[q])
  BY ServerAssumption DEF TenantsInv, RequestsAreApart, Apart

(* A request that has ended.                                                *)
EndOf(x) == [Registry!Idle EXCEPT !.pc = "done", !.op = IF x.op.kind = "create" THEN x.op ELSE None]

LEMMA EndIsOver ==
    ASSUME TenantsInv, NEW r \in TenantRequests, req[r].op \in Ops
    PROVE  \E n \in ReqType :
              /\ Registry!Over(r) = [req EXCEPT ![r] = n] /\ n.pc = "done"
              /\ n.op = req[r].op \/ n.op = None
              /\ Holds(n)'
  <1>1. Registry!Over(r) = [req EXCEPT ![r] = EndOf(req[r])]
    BY DEF Registry!Over, EndOf
  <1>2. PICK n : n = EndOf(req[r])
    OBVIOUS
  <1>3. n \in ReqType /\ n.pc = "done" /\ (n.op = req[r].op \/ n.op = None)
    BY <1>2 DEF EndOf, Registry!Idle, ReqType
  <1>4. Holds(n)'
    BY <1>3 DEF Holds, PhaseHolds, RowHolds, Before, InBase, InRow
  <1> QED BY <1>1, <1>2, <1>3, <1>4

LEMMA RequestEnds ==
    ASSUME TenantsInv, server = "up", NEW r \in TenantRequests, req[r].op \in Ops,
           req' = Registry!Over(r), UNCHANGED <<backend, server, registry, tenantRow, tables, founder, keys>>,
           \A t \in TenantIds : ~Claims(req[r], t)
    PROVE  TenantsInv'
  <1>1. PICK n \in ReqType :
              /\ Registry!Over(r) = [req EXCEPT ![r] = n] /\ n.pc = "done"
              /\ n.op = req[r].op \/ n.op = None
              /\ Holds(n)'
    BY EndIsOver
  <1>2. \A q \in TenantRequests \ {r} : Apart(req[q], n) /\ Apart(n, req[q])
    BY <1>1, FewerLocks DEF InRow, InBase
  <1>3. \A t \in TenantIds : ~Claims(n, t)
    BY <1>1 DEF Claims
  <1>4. tables \subseteq tables' /\ tables' \subseteq TenantIds
    BY DEF TenantsInv, RegistryTyped
  <1> QED BY <1>1, <1>2, <1>3, <1>4, RequestMoves

(* A request under way, and what holds of it.                               *)
LEMMA UnderWay ==
    ASSUME TenantsInv, NEW r \in TenantRequests, req[r].pc \in InBase \cup {"routed"}
    PROVE  /\ server = "up" /\ req[r] \in ReqType /\ req[r].op \in Ops /\ Holds(req[r])
           /\ req[r].op.at \in TenantIds /\ req[r].op.of \in TenantIds
           /\ req[r].op.kind \in {"create", "init", "update", "delete"}
           /\ req[r].op.field \in {"name", "on"}
           /\ req[r].op.kind = "init" => req[r].op.at = req[r].op.of
           /\ tenantRow[req[r].op.of] \in Row \cup {None}
           /\ tenantRow[req[r].op.of] # None => req[r].op.of \in tables
           /\ tables \subseteq TenantIds
  <1>1. req[r] \in ReqType /\ tenantRow \in [TenantIds -> Row \cup {None}] /\ tables \subseteq TenantIds
    BY DEF TenantsInv, RegistryTyped
  <1>2. Holds(req[r])
    BY DEF TenantsInv, RequestsHold
  <1>3. req[r].op \in Ops
    BY <1>2 DEF Holds, PhaseHolds
  <1>4. server = "up"
    BY DEF TenantsInv, ServerBoots, InBase, InRow
  <1>5. \A t \in TenantIds : tenantRow[t] # None => t \in tables
    BY DEF TenantsInv, ServerBoots
  <1> QED BY <1>1, <1>2, <1>3, <1>4, <1>5, ServerAssumption

LEMMA PhasesOfTheModule ==
    ASSUME TenantsInv, NEW r \in TenantRequests
    PROVE  /\ Registry!InTenant(r) <=> req[r].pc \in InBase
           /\ Registry!InRegistry(r) <=> req[r].pc \in InRow
           /\ Registry!Changes(r) <=> Differs(req[r])
  BY DEF Registry!InTenant, Registry!InRegistry, Registry!Changes, Differs, InBase, InRow

LEMMA RequestRouted ==
    ASSUME TenantsInv, NEW r \in TenantRequests, NEW op \in Ops, Registry!Route(r, op)
    PROVE  TenantsInv'
  <1>1. PICK n : n = [Registry!Idle EXCEPT
                  !.op = op, !.pc = IF tenantRow[op.at] # None /\ tenantRow[op.at].on THEN "routed" ELSE "done"]
    OBVIOUS
  <1>2. /\ req[r].pc = "idle" /\ server = "up" /\ req' = [req EXCEPT ![r] = n]
        /\ op.kind = "create" => op.of \notin tables /\ \A q \in TenantRequests : req[q].op # op
        /\ UNCHANGED <<backend, server, registry, tenantRow, tables, founder, keys>>
    BY <1>1 DEF Registry!Route
  <1>3. /\ n \in ReqType /\ n.op = op /\ n.put = None /\ n.told = FALSE /\ n.pc \in {"routed", "done"}
        /\ n.pc = "routed" => tenantRow[op.at] # None
    BY <1>1 DEF ReqType, Registry!Idle
  <1>4. op.of \in TenantIds /\ (op.kind = "init" => op.at = op.of)
    BY ServerAssumption
  <1>5. op.kind = "create" => tenantRow[op.of] = None
    BY <1>2, <1>4 DEF TenantsInv, ServerBoots
  <1>6. Holds(n)'
    BY <1>2, <1>3, <1>4, <1>5 DEF Holds, PhaseHolds, RowHolds, Before, InBase, InRow
  <1>7. \A q \in TenantRequests \ {r} : Apart(req[q], n) /\ Apart(n, req[q])
    BY <1>2, <1>3 DEF Apart, InRow, InBase
  <1>8. \A t \in TenantIds : ~Claims(req[r], t) /\ ~Claims(n, t)
    BY <1>2, <1>3 DEF Claims
  <1>9. tables \subseteq tables' /\ tables' \subseteq TenantIds
    BY <1>2 DEF TenantsInv, RegistryTyped
  <1> QED BY <1>2, <1>3, <1>6, <1>7, <1>8, <1>9, RequestMoves

LEMMA RequestOpens ==
    ASSUME TenantsInv, NEW r \in TenantRequests, Registry!Open(r) \/ Registry!OpenRegistry(r)
    PROVE  TenantsInv'
  <1>1. PICK n : n = [req[r] EXCEPT !.pc = IF req[r].pc = "routed" THEN "open" ELSE "reading"]
    OBVIOUS
  <1>2. /\ req[r].pc \in {"routed", "open"} /\ req' = [req EXCEPT ![r] = n]
        /\ req[r].pc = "routed" => Registry!TenantIsFree(req[r].op.at)
        /\ req[r].pc = "open" => Registry!RegistryIsFree
        /\ UNCHANGED <<backend, server, registry, tenantRow, tables, founder, keys>>
    BY <1>1 DEF Registry!Open, Registry!OpenRegistry
  <1>3. /\ server = "up" /\ req[r] \in ReqType /\ Holds(req[r]) /\ tables \subseteq TenantIds
    BY <1>2, UnderWay DEF InBase, InRow
  <1>4. /\ n \in ReqType /\ n.op = req[r].op /\ n.put = req[r].put /\ n.told = req[r].told
        /\ n.pc = IF req[r].pc = "routed" THEN "open" ELSE "reading"
    BY <1>1, <1>3 DEF ReqType, InBase, InRow
  <1>5. Holds(n)'
    BY <1>2, <1>3, <1>4 DEF Holds, PhaseHolds, RowHolds, Before, InBase, InRow
  <1>6. ASSUME NEW q \in TenantRequests \ {r} PROVE Apart(req[q], n) /\ Apart(n, req[q])
    <2>1. Apart(req[q], req[r]) /\ Apart(req[r], req[q])
      BY DEF TenantsInv, RequestsAreApart
    <2>2. n.put = None
      BY <1>2, <1>3, <1>4 DEF Holds, PhaseHolds, Before
    <2>3. n.pc \in InRow => n.pc = "reading" /\ req[r].pc = "open"
      BY <1>2, <1>4 DEF InRow
    <2>4. n.pc = "open" => req[r].pc = "routed"
      BY <1>2, <1>4
    <2>5. Registry!Files /\ n.pc \in InRow => req[q].pc \notin InRow
      BY <1>2, <2>3, PhasesOfTheModule DEF Registry!RegistryIsFree
    <2>6. Registry!Files /\ n.pc \in InBase /\ req[q].pc \in InBase => req[q].op.at # n.op.at
      BY <1>2, <1>4, <2>1, PhasesOfTheModule DEF Registry!TenantIsFree, Apart, InBase, InRow
    <2> QED BY <1>4, <2>1, <2>2, <2>5, <2>6 DEF Apart
  <1>7. \A t \in TenantIds : ~Claims(req[r], t) /\ ~Claims(n, t)
    BY <1>2, <1>4 DEF Claims
  <1> QED BY <1>2, <1>3, <1>4, <1>5, <1>6, <1>7, RequestMoves

LEMMA RequestReads ==
    ASSUME TenantsInv, NEW r \in TenantRequests, Registry!Read(r)
    PROVE  TenantsInv'
  <1>1. /\ req[r].pc = "reading" /\ req[r].op.kind # "create"
        /\ UNCHANGED <<backend, server, registry, tenantRow, tables, founder, keys>>
    BY DEF Registry!Read
  <1>2. /\ server = "up" /\ req[r] \in ReqType /\ Holds(req[r]) /\ tables \subseteq TenantIds
        /\ req[r].op \in Ops /\ tenantRow[req[r].op.of] \in Row \cup {None}
        /\ req[r].op.kind \in {"init", "update", "delete"}
    BY <1>1, UnderWay DEF InBase, InRow
  <1>3. CASE req' = Registry!Over(r)
    BY <1>1, <1>2, <1>3, RequestEnds DEF Claims
  <1>4. CASE req' # Registry!Over(r)
    <2>1. PICK n : n = [req[r] EXCEPT
             !.seen = tenantRow[req[r].op.of],
             !.pc = IF req[r].op.kind = "init" /\ tenantRow[req[r].op.of].init THEN "ending" ELSE "writing"]
      OBVIOUS
    <2>2. /\ req' = [req EXCEPT ![r] = n]
          /\ req[r].op.kind # "init" => Registry!Owned(req[r].op.of, req[r].op.at)
      BY <1>4, <2>1 DEF Registry!Read
    <2>3. /\ n \in ReqType /\ n.op = req[r].op /\ n.put = req[r].put /\ n.told = req[r].told
          /\ n.seen = tenantRow[req[r].op.of] /\ n.pc \in {"ending", "writing"}
          /\ n.pc = "ending" => n.op.kind = "init"
      BY <1>2, <2>1 DEF ReqType, InBase, InRow
    <2>4. tenantRow[n.op.of] # None
      BY <1>1, <1>2, <2>2, <2>3 DEF Registry!Owned, Holds, RowHolds, InBase, InRow
    <2>5. n.put = None /\ ~n.told
      BY <1>1, <1>2, <2>3 DEF Holds, PhaseHolds, Before
    <2>6. PhaseHolds(n)
      BY <1>1, <1>2, <2>3, <2>4, <2>5 DEF PhaseHolds, Tells, Differs, Before, InBase, InRow
    <2>7. Holds(n)'
      BY <1>1, <2>3, <2>4, <2>5, <2>6 DEF Holds, RowHolds, Before, InBase, InRow
    <2>8. \A q \in TenantRequests \ {r} : Apart(req[q], n) /\ Apart(n, req[q])
      BY <1>1, <2>3, FewerLocks DEF InBase, InRow
    <2>9. \A t \in TenantIds : ~Claims(req[r], t) /\ ~Claims(n, t)
      BY <1>1, <2>3 DEF Claims
    <2> QED BY <1>1, <1>2, <2>2, <2>3, <2>7, <2>8, <2>9, RequestMoves
  <1> QED BY <1>3, <1>4

LEMMA LockedToWrite ==
    ASSUME TenantsInv, NEW r \in TenantRequests, req[r].pc \in InRow, NEW n \in ReqType,
           n.op = req[r].op, n.pc \in InRow, Registry!RowIsFree(r)
    PROVE  \A q \in TenantRequests \ {r} : Apart(req[q], n) /\ Apart(n, req[q])
  <1> SUFFICES ASSUME NEW q \in TenantRequests \ {r} PROVE Apart(req[q], n) /\ Apart(n, req[q])
    OBVIOUS
  <1>1. Apart(req[q], req[r]) /\ Apart(req[r], req[q])
    BY DEF TenantsInv, RequestsAreApart
  <1>2. req[q].pc \in InRow /\ req[q].put # None => req[q].op.of # n.op.of
    BY PhasesOfTheModule DEF Registry!RowIsFree
  <1>3. req[r].pc \in InBase
    BY DEF InBase
  <1> QED BY <1>1, <1>2, <1>3 DEF Apart

LEMMA RequestWrites ==
    ASSUME TenantsInv, NEW r \in TenantRequests,
           Registry!Claim(r) \/ Registry!Change(r) \/ Registry!Delete(r)
    PROVE  TenantsInv'
  <1>1. PICK row : row = tenantRow[req[r].op.of]
    OBVIOUS
  <1>2. PICK put : put =
           CASE req[r].op.kind = "init" -> IF row.init THEN None ELSE [row EXCEPT !.init = TRUE]
             [] req[r].op.kind = "update" -> [row EXCEPT ![req[r].op.field] = req[r].op.val]
             [] req[r].op.kind = "delete" -> [row EXCEPT !.on = FALSE, !.gone = TRUE]
    OBVIOUS
  <1>3. PICK n : n = [req[r] EXCEPT
           !.put = put, !.pc = IF req[r].op.kind = "update" /\ Tells(req[r]) THEN "telling" ELSE "ending"]
    OBVIOUS
  <1>4. /\ req[r].pc = "writing" /\ Registry!RowIsFree(r) /\ req[r].op.kind \in {"init", "update", "delete"}
        /\ UNCHANGED <<backend, server, registry, tenantRow, tables, founder, keys>>
    BY DEF Registry!Claim, Registry!Change, Registry!Delete
  <1>5. req' = [req EXCEPT ![r] = n]
    <2>1. CASE Registry!Claim(r)
      BY <1>1, <1>2, <1>3, <2>1 DEF Registry!Claim
    <2>2. CASE Registry!Change(r)
      BY <1>1, <1>2, <1>3, <2>2, PhasesOfTheModule DEF Registry!Change, Tells
    <2>3. CASE Registry!Delete(r)
      BY <1>1, <1>2, <1>3, <2>3 DEF Registry!Delete
    <2> QED BY <2>1, <2>2, <2>3
  <1>6. /\ server = "up" /\ req[r] \in ReqType /\ Holds(req[r]) /\ tables \subseteq TenantIds
        /\ req[r].op \in Ops /\ row \in Row \cup {None} /\ (row # None => req[r].op.of \in tables)
    BY <1>1, <1>4, UnderWay DEF InBase, InRow
  <1>7. row # None /\ req[r].seen # None /\ req[r].told = FALSE
    BY <1>1, <1>4, <1>6 DEF Holds, RowHolds, PhaseHolds, Before, InBase, InRow, ReqType
  <1>8. /\ put \in Row \cup {None}
        /\ req[r].op.kind \in {"update", "delete"} => put # None
    <2>1. CASE req[r].op.kind = "init"
      BY <1>2, <1>6, <1>7, <2>1 DEF Row, Registry!TenantRow
    <2>2. CASE req[r].op.kind = "update"
      BY <1>2, <1>6, <1>7, <2>2, NoRow, ChangedRow
    <2>3. CASE req[r].op.kind = "delete"
      <3>1. put \in Row
        BY <1>2, <1>6, <1>7, <2>3 DEF Row, Registry!TenantRow
      <3> QED BY <3>1, <2>3, NoRow
    <2> QED BY <1>4, <2>1, <2>2, <2>3
  <1>9. /\ n \in ReqType /\ n.op = req[r].op /\ n.put = put /\ n.told = req[r].told
        /\ n.seen = req[r].seen /\ n.pc \in {"ending", "telling"}
        /\ n.pc = "telling" <=> Tells(req[r])
    BY <1>3, <1>6, <1>8 DEF ReqType, InBase, InRow, Tells, Differs
  <1>10. put # None => Written(n, row)
    <2>1. CASE req[r].op.kind = "init"
      BY <1>2, <1>9, <2>1 DEF Written
    <2>2. CASE req[r].op.kind = "update"
      BY <1>2, <1>9, <2>2 DEF Written
    <2>3. CASE req[r].op.kind = "delete"
      BY <1>2, <1>9, <2>3 DEF Written
    <2> QED BY <1>4, <2>1, <2>2, <2>3
  <1>11. Tells(n) <=> Tells(req[r])
    BY <1>9 DEF Tells, Differs
  <1>12. PhaseHolds(n)
    BY <1>4, <1>6, <1>7, <1>8, <1>9, <1>11 DEF PhaseHolds, Tells, Differs, Before, InBase, InRow
  <1>13. Holds(n)'
    BY <1>1, <1>4, <1>6, <1>7, <1>9, <1>10, <1>12 DEF Holds, RowHolds, Before, InBase, InRow
  <1>14. \A q \in TenantRequests \ {r} : Apart(req[q], n) /\ Apart(n, req[q])
    BY <1>4, <1>9, LockedToWrite DEF InBase, InRow
  <1>15. \A t \in TenantIds : ~Claims(req[r], t) /\ ~Claims(n, t)
    BY <1>4, <1>9 DEF Claims
  <1> QED BY <1>4, <1>5, <1>6, <1>9, <1>13, <1>14, <1>15, RequestMoves

LEMMA RequestCreates ==
    ASSUME TenantsInv, NEW r \in TenantRequests, Registry!Create(r)
    PROVE  TenantsInv'
  <1>1. PICK n : n = [req[r] EXCEPT !.pc = "ending", !.put = Registry!NewRow(req[r].op.at)]
    OBVIOUS
  <1>2. /\ req[r].pc = "reading" /\ req[r].op.kind = "create" /\ req' = [req EXCEPT ![r] = n]
        /\ tables' = tables \cup {req[r].op.of}
        /\ UNCHANGED <<backend, server, registry, tenantRow, founder, keys>>
    BY <1>1 DEF Registry!Create
  <1>3. /\ server = "up" /\ req[r] \in ReqType /\ Holds(req[r]) /\ tables \subseteq TenantIds
        /\ req[r].op \in Ops /\ req[r].op.of \in TenantIds /\ req[r].op.at \in TenantIds
    BY <1>2, UnderWay DEF InBase, InRow
  <1>4. /\ n \in ReqType /\ n.op = req[r].op /\ n.put = Registry!NewRow(req[r].op.at)
        /\ n.told = req[r].told /\ n.pc = "ending" /\ n.put # None
    BY <1>1, <1>3, NoRow DEF ReqType, InBase, InRow
  <1>5. tenantRow[n.op.of] = None /\ ~n.told
    BY <1>2, <1>3, <1>4 DEF Holds, RowHolds, PhaseHolds, Before
  <1>6. PhaseHolds(n)
    BY <1>2, <1>3, <1>4, <1>5 DEF PhaseHolds, Tells, Differs, Before, InBase, InRow
  <1>7. Holds(n)'
    BY <1>2, <1>4, <1>5, <1>6 DEF Holds, RowHolds, Written, Before, InBase, InRow
  <1>8. Registry!RowIsFree(r)
    <2> SUFFICES ASSUME NEW q \in TenantRequests \ {r}, req[q].pc \in InRow, req[q].put # None
                 PROVE  req[q].op.of # req[r].op.of
      BY PhasesOfTheModule DEF Registry!RowIsFree
    <2>1. Holds(req[q]) /\ req[q].op \in Ops
      BY UnderWay DEF InBase
    <2>2. CASE req[q].op.kind = "create"
      <3>1. req[q].op # req[r].op
        BY <1>3, <2>1, <2>2 DEF TenantsInv, RequestsAreApart, Apart
      <3> QED BY <1>2, <1>3, <2>1, <2>2, <3>1, ServerAssumption
    <2>3. CASE req[q].op.kind # "create"
      <3>1. req[q].pc \in InBase \ Before
        BY <2>1 DEF Holds, PhaseHolds, Before, InBase
      <3>2. tenantRow[req[q].op.of] # None
        BY <2>1, <2>3, <3>1 DEF Holds, RowHolds
      <3> QED BY <1>4, <1>5, <3>2
    <2> QED BY <2>2, <2>3
  <1>9. \A q \in TenantRequests \ {r} : Apart(req[q], n) /\ Apart(n, req[q])
    BY <1>2, <1>4, <1>8, LockedToWrite DEF InRow
  <1>10. \A t \in TenantIds : ~Claims(req[r], t) /\ ~Claims(n, t)
    BY <1>2, <1>4 DEF Claims
  <1> QED BY <1>2, <1>3, <1>4, <1>7, <1>9, <1>10, RequestMoves

LEMMA RequestTells ==
    ASSUME TenantsInv, NEW r \in TenantRequests, Registry!Tell(r)
    PROVE  TenantsInv'
  <1>1. PICK n : n = [req[r] EXCEPT !.pc = "ending", !.told = TRUE]
    OBVIOUS
  <1>2. /\ req[r].pc = "telling" /\ req' = [req EXCEPT ![r] = n]
        /\ UNCHANGED <<backend, server, registry, tenantRow, tables, founder, keys>>
    BY <1>1 DEF Registry!Tell
  <1>3. /\ server = "up" /\ req[r] \in ReqType /\ Holds(req[r]) /\ tables \subseteq TenantIds
        /\ req[r].op \in Ops
    BY <1>2, UnderWay DEF InBase, InRow
  <1>4. /\ n \in ReqType /\ n.op = req[r].op /\ n.put = req[r].put /\ n.seen = req[r].seen
        /\ n.told = TRUE /\ n.pc = "ending"
    BY <1>1, <1>3 DEF ReqType, InBase, InRow
  <1>5. Tells(req[r]) /\ n.put # None /\ n.seen # None
    BY <1>2, <1>3, <1>4 DEF Holds, PhaseHolds, Tells, Differs, Before, InBase, InRow
  <1>6. Tells(n)
    BY <1>4, <1>5 DEF Tells, Differs
  <1>7. PhaseHolds(n)
    BY <1>3, <1>4, <1>5, <1>6 DEF PhaseHolds, Before, InBase, InRow
  <1>8. RowHolds(n, tenantRow[n.op.of]) /\ n.op.of \in tables
    BY <1>2, <1>3, <1>4, <1>5 DEF Holds, RowHolds, Written, Before, InBase, InRow
  <1>9. Holds(n)'
    BY <1>2, <1>7, <1>8 DEF Holds
  <1>10. \A q \in TenantRequests \ {r} : Apart(req[q], n) /\ Apart(n, req[q])
    BY <1>2, <1>4, <1>5, FewerLocks DEF InBase, InRow
  <1>11. \A t \in TenantIds : ~Claims(req[r], t) /\ ~Claims(n, t)
    BY <1>2, <1>4 DEF Claims
  <1> QED BY <1>2, <1>3, <1>4, <1>9, <1>10, <1>11, RequestMoves

(* A failure that splits no unit drops no claim.                            *)
LEMMA RequestStops ==
    ASSUME TenantsInv, MaxSplits = 0, splits \in Nat, NEW r \in TenantRequests, Registry!Busy(r) \/ Registry!Fail(r)
    PROVE  TenantsInv'
  <1>1. /\ req' = Registry!Over(r)
        /\ UNCHANGED <<backend, server, registry, tenantRow, tables, founder, keys>>
    BY DEF Registry!Busy, Registry!Fail
  <1>2. req[r].pc \in InBase \cup {"routed"} /\ (req[r].pc = "closing" => req[r].put = None)
    <2>1. CASE Registry!Busy(r)
      BY <2>1 DEF Registry!Busy, Registry!Waits, InBase, InRow
    <2>2. CASE Registry!Fail(r)
      <3>1. ~Registry!Split(r)
        BY <2>2 DEF Registry!Fail
      <3> QED BY <2>2, <3>1, PhasesOfTheModule DEF Registry!Fail, Registry!Split, InBase, InRow
    <2> QED BY <2>1, <2>2
  <1>3. server = "up" /\ req[r].op \in Ops
    BY <1>2, UnderWay
  <1>4. \A t \in TenantIds : ~Claims(req[r], t)
    BY <1>2 DEF Claims
  <1> QED BY <1>1, <1>3, <1>4, RequestEnds

(* The registry commits: the row is what the request made of it.            *)
LEMMA RegistryCommits ==
    ASSUME TenantsInv, NEW r \in TenantRequests, Registry!CommitRegistry(r)
    PROVE  TenantsInv'
  <1>1. PICK n : n = [req[r] EXCEPT !.pc = "closing"]
    OBVIOUS
  <1>2. PICK of : of = req[r].op.of
    OBVIOUS
  <1>3. PICK old, new : old = tenantRow[of] /\ new = IF req[r].put = None THEN old ELSE req[r].put
    OBVIOUS
  <1>4. /\ req[r].pc = "ending" /\ req' = [req EXCEPT ![r] = n]
        /\ tenantRow' = IF req[r].put = None THEN tenantRow ELSE [tenantRow EXCEPT ![of] = req[r].put]
        /\ UNCHANGED <<backend, server, registry, tables, founder, keys>>
    BY <1>1, <1>2 DEF Registry!CommitRegistry
  <1>5. /\ server = "up" /\ req[r] \in ReqType /\ Holds(req[r]) /\ tables \subseteq TenantIds
        /\ req[r].op \in Ops /\ of \in TenantIds /\ old \in Row \cup {None}
        /\ req[r].op.kind \in {"create", "init", "update", "delete"}
        /\ req[r].op.kind = "init" => req[r].op.at = of
        /\ tenantRow \in [TenantIds -> Row \cup {None}] /\ (old # None => of \in tables)
    BY <1>2, <1>3, <1>4, UnderWay DEF InBase, InRow, TenantsInv, RegistryTyped
  <1>6. /\ n \in ReqType /\ n.op = req[r].op /\ n.put = req[r].put /\ n.seen = req[r].seen
        /\ n.told = req[r].told /\ n.pc = "closing"
    BY <1>1, <1>5 DEF ReqType, InBase, InRow
  <1>7. /\ req[r].put # None => Written(req[r], old) /\ of \in tables
        /\ req[r].op.kind # "create" => old # None
        /\ req[r].op.kind \in {"create", "update"} => req[r].put # None
    BY <1>2, <1>3, <1>4, <1>5 DEF Holds, RowHolds, PhaseHolds, Before, InBase, InRow
  <1>8. /\ new \in Row /\ new # None /\ of \in tables
        /\ req[r].op.kind = "init" /\ req[r].put # None => new.init /\ ~old.init
        /\ ~(req[r].op.kind = "init" /\ req[r].put # None) => (Initialized(new) <=> Initialized(old))
    <2>1. CASE req[r].put = None
      <3>1. new = old
        BY <1>3, <2>1
      <3>2. req[r].op.kind # "create"
        BY <1>7, <2>1
      <3>3. old # None
        BY <1>7, <3>2
      <3>4. old \in Row
        BY <1>5, <3>3
      <3>5. of \in tables
        BY <1>5, <3>3
      <3> QED BY <2>1, <3>1, <3>3, <3>4, <3>5
    <2>2. CASE req[r].put # None
      BY <1>3, <1>5, <1>7, <2>2, WrittenRow DEF Initialized
    <2> QED BY <2>1, <2>2
  <1>9. /\ tenantRow'[of] = new /\ \A t \in TenantIds \ {of} : tenantRow'[t] = tenantRow[t]
        /\ tenantRow' \in [TenantIds -> Row \cup {None}]
    <2>1. CASE req[r].put = None
      BY <1>3, <1>4, <1>5, <2>1
    <2>2. CASE req[r].put # None
      <3>1. new = req[r].put /\ tenantRow' = [tenantRow EXCEPT ![of] = new]
        BY <1>3, <1>4, <2>2
      <3>2. new \in Row
        BY <1>8
      <3> QED BY <1>5, <3>1, <3>2
    <2> QED BY <2>1, <2>2
  <1>10. /\ req' \in [TenantRequests -> ReqType] /\ req'[r] = n
         /\ \A q \in TenantRequests \ {r} : req'[q] = req[q]
    BY <1>4, <1>6 DEF TenantsInv, RegistryTyped
  <1>11. RegistryTyped'
    BY <1>4, <1>5, <1>9, <1>10 DEF TenantsInv, RegistryTyped
  <1>12. Holds(n)'
    <2>1. PhaseHolds(n)
      BY <1>4, <1>5, <1>6 DEF Holds, PhaseHolds, Tells, Differs, Before, InBase, InRow
    <2>2. RowHolds(n, new)
      BY <1>6, <1>8 DEF RowHolds, Before, InBase, InRow
    <2> QED BY <1>2, <1>6, <1>9, <2>1, <2>2 DEF Holds, InRow
  <1>13. ASSUME NEW q \in TenantRequests \ {r} PROVE Holds(req[q])'
    <2>1. req'[q] = req[q] /\ Holds(req[q]) /\ Apart(req[q], req[r]) /\ req[q] \in ReqType
      BY <1>10 DEF TenantsInv, RequestsHold, RequestsAreApart, RegistryTyped
    <2>2. PICK x : x = req[q]
      OBVIOUS
    <2>3. CASE x.pc \in {"idle", "done"}
      BY <2>1, <2>2, <2>3 DEF Holds, PhaseHolds, RowHolds, Before, InBase, InRow
    <2>4. CASE x.pc \notin {"idle", "done"}
      <3>1. x.pc \in InBase \cup {"routed"}
        BY <2>1, <2>2, <2>4 DEF ReqType
      <3>2. x.op \in Ops /\ x.op.of \in TenantIds
        BY <2>2, <3>1, UnderWay
      <3>3. CASE x.op.of # of
        BY <1>4, <1>9, <2>1, <2>2, <3>2, <3>3 DEF Holds
      <3>4. CASE x.op.of = of
        <4>1. ~(x.pc \in InRow /\ x.put # None /\ req[r].put # None)
          BY <1>2, <1>4, <2>1, <2>2, <3>4 DEF Apart, InRow
        <4>2. ~(x.pc \in Before /\ x.op.kind = "create")
          <5> SUFFICES ASSUME x.pc \in Before, x.op.kind = "create" PROVE FALSE
            OBVIOUS
          <5>1. old = None
            BY <1>3, <2>1, <2>2, <3>4 DEF Holds, RowHolds
          <5>2. req[r].op.kind = "create" /\ x.op # req[r].op
            BY <1>5, <1>7, <2>1, <2>2, <3>2, <5>1 DEF Apart
          <5> QED BY <1>2, <1>5, <3>2, <3>4, <5>2, ServerAssumption
        <4>3. PhaseHolds(x) /\ RowHolds(x, old)
          BY <1>3, <2>1, <2>2, <3>4 DEF Holds
        <4>4. x.pc \in InRow /\ x.put # None => new = old
          BY <1>3, <4>1
        <4>5. RowHolds(x, new)
          BY <1>8, <4>2, <4>3, <4>4 DEF RowHolds
        <4> QED BY <1>4, <1>8, <1>9, <2>1, <2>2, <3>4, <4>3, <4>5 DEF Holds
      <3> QED BY <3>3, <3>4
    <2> QED BY <2>3, <2>4
  <1>14. RequestsHold'
    BY <1>10, <1>12, <1>13 DEF RequestsHold
  <1>15. RequestsAreApart'
    <2>1. \A q \in TenantRequests \ {r} : Apart(req[q], n) /\ Apart(n, req[q])
      BY <1>4, <1>6, FewerLocks DEF InBase, InRow
    <2> SUFFICES ASSUME NEW p \in TenantRequests, NEW q \in TenantRequests, p # q
                 PROVE  Apart(req[p], req[q])'
      BY DEF RequestsAreApart
    <2>2. PICK x, y : x = req'[p] /\ y = req'[q]
      OBVIOUS
    <2>3. Apart(x, y)
      BY <1>10, <2>1, <2>2 DEF TenantsInv, RequestsAreApart
    <2> QED BY <1>4, <2>2, <2>3 DEF Apart, Registry!Files
  <1>16. ServerBoots'
    BY <1>4, <1>5, <1>8, <1>9 DEF TenantsInv, ServerBoots
  <1>17. ASSUME NEW t \in TenantIds PROVE Founded(t)'
    <2>1. Founded(t) /\ \A q \in TenantRequests \ {r} : Claims(req[q], t)' <=> Claims(req[q], t)
      BY <1>10 DEF TenantsInv, Claims
    <2>2. ~Claims(req[r], t)
      BY <1>4 DEF Claims
    <2>3. Claims(req[r], t)' <=> (t = of /\ req[r].op.kind = "init" /\ req[r].put # None)
      BY <1>5, <1>6, <1>10 DEF Claims
    <2>4. CASE t = of /\ req[r].op.kind = "init" /\ req[r].put # None
      <3>1. ~Initialized(tenantRow[t]) /\ Initialized(tenantRow'[t])
        BY <1>3, <1>8, <1>9, <2>4 DEF Initialized
      <3>2. keys'[t] = 0 /\ \A q \in TenantRequests : ~Claims(req[q], t)
        BY <1>4, <2>1, <3>1 DEF Founded
      <3>3. \A q \in TenantRequests : Claims(req[q], t)' <=> q = r
        BY <2>1, <2>3, <2>4, <3>2
      <3> HIDE DEF Claims, Initialized
      <3> QED BY <3>1, <3>2, <3>3 DEF Founded
    <2>5. CASE ~(t = of /\ req[r].op.kind = "init" /\ req[r].put # None)
      <3>1. \A q \in TenantRequests : Claims(req[q], t)' <=> Claims(req[q], t)
        BY <2>1, <2>2, <2>3, <2>5
      <3>2. Initialized(tenantRow'[t]) <=> Initialized(tenantRow[t])
        BY <1>3, <1>8, <1>9, <2>5
      <3> HIDE DEF Claims, Initialized
      <3>3. Initialized(tenantRow[t])' <=> Initialized(tenantRow[t])
        BY <3>2 DEF Initialized
      <3> QED BY <1>4, <2>1, <3>1, <3>3 DEF Founded
    <2> QED BY <2>4, <2>5
  <1> QED BY <1>11, <1>14, <1>15, <1>16, <1>17 DEF TenantsInv

(* Then its tenant does, and the one who claimed it is told his key.        *)
LEMMA TenantCommits ==
    ASSUME TenantsInv, NEW r \in TenantRequests, Registry!CommitTenant(r)
    PROVE  TenantsInv'
  <1>1. PICK at, claimed : at = req[r].op.at /\ claimed = (req[r].op.kind = "init" /\ req[r].put # None)
    OBVIOUS
  <1>2. /\ req[r].pc = "closing" /\ req' = Registry!Over(r)
        /\ founder' = IF claimed THEN founder \cup {at} ELSE founder
        /\ keys' = IF claimed THEN [keys EXCEPT ![at] = @ + 1] ELSE keys
        /\ UNCHANGED <<backend, server, registry, tenantRow, tables>>
    BY <1>1 DEF Registry!CommitTenant
  <1>3. /\ server = "up" /\ req[r].op \in Ops /\ at \in TenantIds
    BY <1>1, <1>2, UnderWay DEF InBase
  <1>4. CASE ~claimed
    <2>1. \A t \in TenantIds : ~Claims(req[r], t)
      BY <1>1, <1>4 DEF Claims
    <2> QED BY <1>2, <1>3, <1>4, <2>1, RequestEnds
  <1>5. CASE claimed
    <2>1. PICK n \in ReqType :
              /\ Registry!Over(r) = [req EXCEPT ![r] = n] /\ n.pc = "done"
              /\ n.op = req[r].op \/ n.op = None
              /\ Holds(n)'
      BY <1>3, EndIsOver
    <2>2. /\ req' \in [TenantRequests -> ReqType] /\ req'[r] = n
          /\ \A q \in TenantRequests \ {r} : req'[q] = req[q]
      BY <1>2, <2>1 DEF TenantsInv, RegistryTyped
    <2>3. keys' \in [TenantIds -> Nat]
      BY <1>2, <1>3 DEF TenantsInv, RegistryTyped
    <2>4. RegistryTyped'
      BY <1>2, <2>2, <2>3 DEF TenantsInv, RegistryTyped
    <2>5. RequestsHold'
      <3> SUFFICES ASSUME NEW q \in TenantRequests PROVE Holds(req[q])'
        BY DEF RequestsHold
      <3>1. CASE q = r
        BY <2>1, <2>2, <3>1
      <3>2. CASE q # r
        BY <1>2, <2>2, <3>2 DEF TenantsInv, RequestsHold, Holds
      <3> QED BY <3>1, <3>2
    <2>6. RequestsAreApart'
      <3>1. \A q \in TenantRequests \ {r} : Apart(req[q], n) /\ Apart(n, req[q])
        BY <2>1, FewerLocks DEF InBase, InRow
      <3> SUFFICES ASSUME NEW p \in TenantRequests, NEW q \in TenantRequests, p # q
                   PROVE  Apart(req[p], req[q])'
        BY DEF RequestsAreApart
      <3>2. PICK x, y : x = req'[p] /\ y = req'[q]
        OBVIOUS
      <3>3. Apart(x, y)
        BY <2>2, <3>1, <3>2 DEF TenantsInv, RequestsAreApart
      <3> QED BY <1>2, <3>2, <3>3 DEF Apart, Registry!Files
    <2>7. ServerBoots'
      BY <1>2, <1>3 DEF TenantsInv, ServerBoots
    <2>8. ASSUME NEW t \in TenantIds PROVE Founded(t)'
      <3>1. Founded(t) /\ \A q \in TenantRequests \ {r} : Claims(req[q], t)' <=> Claims(req[q], t)
        BY <2>2 DEF TenantsInv, Claims
      <3>2. ~Claims(req[r], t)'
        BY <2>1, <2>2 DEF Claims
      <3>3. Initialized(tenantRow[t])' <=> Initialized(tenantRow[t])
        BY <1>2 DEF Initialized
      <3>4. Claims(req[r], t) <=> t = at
        BY <1>1, <1>2, <1>5 DEF Claims
      <3>5. CASE t = at
        <4>1. Initialized(tenantRow[t]) /\ keys[t] = 0 /\ \A q \in TenantRequests \ {r} : ~Claims(req[q], t)
          BY <3>1, <3>4, <3>5 DEF Founded
        <4>2. keys'[t] = 1 /\ t \in founder'
          BY <1>2, <1>5, <3>5, <4>1 DEF TenantsInv, RegistryTyped
        <4>3. \A q \in TenantRequests : ~Claims(req[q], t)'
          BY <3>1, <3>2, <4>1
        <4> HIDE DEF Claims, Initialized
        <4> QED BY <3>3, <4>1, <4>2, <4>3 DEF Founded
      <3>6. CASE t # at
        <4>1. \A q \in TenantRequests : Claims(req[q], t)' <=> Claims(req[q], t)
          BY <3>1, <3>2, <3>4, <3>6
        <4>2. keys'[t] = keys[t] /\ (t \in founder' <=> t \in founder)
          BY <1>2, <1>5, <3>6 DEF TenantsInv, RegistryTyped
        <4> HIDE DEF Claims, Initialized
        <4> QED BY <3>1, <3>3, <4>1, <4>2 DEF Founded
      <3> QED BY <3>5, <3>6
    <2> QED BY <2>4, <2>5, <2>6, <2>7, <2>8 DEF TenantsInv
  <1> QED BY <1>4, <1>5

(* Without requests under way, only the rows count.                         *)
LEMMA AtRest ==
    ASSUME TenantsInv, NEW r \in TenantRequests, req[r].pc \in {"idle", "done"}
    PROVE  Holds(req[r]) /\ (UNCHANGED req => Holds(req[r])') /\ \A t \in TenantIds : ~Claims(req[r], t)
  BY DEF Holds, PhaseHolds, RowHolds, Claims, Before, InBase, InRow

LEMMA ServerStarts ==
    ASSUME TenantsInv, Registry!Boot
    PROVE  TenantsInv'
  <1>1. /\ server # "up" /\ UNCHANGED <<backend, founder, keys, req>>
        /\ server' \in {"stamped", "made", "up"} /\ registry' \in BOOLEAN
    BY DEF Registry!Boot, Registry!CreateRegistry, Registry!MakeRoot, Registry!AddRoot, Registry!Restart,
           TenantsInv, RegistryTyped
  <1>2. \A r \in TenantRequests : req[r].pc \in {"idle", "done"}
    BY <1>1 DEF TenantsInv, ServerBoots
  <1>3. Root \in TenantIds /\ tables \subseteq TenantIds /\ tenantRow \in [TenantIds -> Row \cup {None}]
    BY ServerAssumption DEF TenantsInv, RegistryTyped
  <1>4. RequestsHold'
    BY <1>1, <1>2, AtRest DEF RequestsHold
  <1>5. RequestsAreApart'
    BY <1>1 DEF TenantsInv, RequestsAreApart, Apart, Registry!Files
  <1>6. \A t \in TenantIds : \A r \in TenantRequests : ~Claims(req[r], t) /\ ~Claims(req[r], t)'
    BY <1>1, <1>2, AtRest DEF Claims
  <1>7. CASE UNCHANGED tenantRow
    <2>1. tables' \in {tables, tables \cup {Root}}
      BY <1>7, NoRow DEF Registry!Boot, Registry!CreateRegistry, Registry!MakeRoot, Registry!AddRoot,
         Registry!Restart
    <2>2. RegistryTyped'
      BY <1>1, <1>3, <1>7, <2>1 DEF TenantsInv, RegistryTyped
    <2>3. ServerBoots'
      <3>1. CASE Registry!AddRoot
        <4>1. FALSE
          <5>1. server = "made" /\ tenantRow[Root] = None
            BY <3>1 DEF Registry!AddRoot, TenantsInv, ServerBoots
          <5>2. tenantRow'[Root] = Registry!NewRow(None)
            BY <1>3, <3>1 DEF Registry!AddRoot
          <5> QED BY <1>7, <5>1, <5>2, NoRow
        <4> QED BY <4>1
      <3>2. CASE ~Registry!AddRoot
        BY <1>1, <1>2, <1>7, <3>2 DEF Registry!Boot, Registry!CreateRegistry, Registry!MakeRoot,
           Registry!Restart, TenantsInv, ServerBoots
      <3> QED BY <3>1, <3>2
    <2>4. \A t \in TenantIds : Founded(t)'
      BY <1>1, <1>6, <1>7 DEF TenantsInv, Founded, Initialized
    <2> QED BY <1>4, <1>5, <2>2, <2>3, <2>4 DEF TenantsInv
  <1>8. CASE Registry!AddRoot
    <2>1. /\ server = "made" /\ server' = "up" /\ tenantRow[Root] = None /\ Root \in tables
          /\ tenantRow' = [tenantRow EXCEPT ![Root] = Registry!NewRow(None)]
          /\ UNCHANGED <<registry, tables>>
      BY <1>8 DEF Registry!AddRoot, TenantsInv, ServerBoots
    <2>2. registry
      BY <2>1 DEF TenantsInv, ServerBoots
    <2>3. RegistryTyped'
      BY <1>1, <1>3, <2>1, NoRow DEF TenantsInv, RegistryTyped
    <2>4. ServerBoots'
      BY <1>2, <1>3, <2>1, <2>2, NoRow DEF TenantsInv, ServerBoots
    <2>5. ASSUME NEW t \in TenantIds PROVE Founded(t)'
      <3>1. Initialized(tenantRow'[t]) <=> Initialized(tenantRow[t])
        BY <1>3, <2>1, NoRow DEF Initialized
      <3>2. Founded(t)
        BY DEF TenantsInv
      <3>3. Initialized(tenantRow[t])' <=> Initialized(tenantRow[t])
        BY <3>1 DEF Initialized
      <3> HIDE DEF Initialized
      <3> QED BY <1>1, <1>6, <3>2, <3>3 DEF Founded
    <2> QED BY <1>4, <1>5, <2>3, <2>4, <2>5 DEF TenantsInv
  <1> QED BY <1>7, <1>8 DEF Registry!Boot, Registry!CreateRegistry, Registry!MakeRoot, Registry!Restart

LEMMA ServerCrashes ==
    ASSUME TenantsInv, MaxSplits = 0, splits \in Nat, Registry!Crash
    PROVE  TenantsInv'
  <1>1. /\ server = "up" /\ server' = "down"
        /\ \A r \in TenantRequests : ~Registry!Split(r)
        /\ req' = [r \in TenantRequests |-> IF req[r].pc = "routed" \/ Registry!InTenant(r)
                                            THEN Registry!Over(r)[r] ELSE req[r]]
        /\ UNCHANGED <<backend, registry, tenantRow, tables, founder, keys>>
    BY DEF Registry!Crash, Registry!Half, TenantsInv, RegistryTyped
  <1>2. ASSUME NEW r \in TenantRequests
        PROVE  /\ req'[r] \in ReqType /\ req'[r].pc \in {"idle", "done"}
               /\ req'[r].op = req[r].op \/ req'[r].op = None
    <2>1. CASE req[r].pc \in InBase \cup {"routed"}
      <3>1. req[r].op \in Ops
        BY <2>1, UnderWay
      <3>2. PICK n \in ReqType :
              /\ Registry!Over(r) = [req EXCEPT ![r] = n] /\ n.pc = "done"
              /\ n.op = req[r].op \/ n.op = None
        BY <3>1, EndIsOver
      <3>3. req'[r] = n
        BY <1>1, <2>1, <3>2, PhasesOfTheModule DEF TenantsInv, RegistryTyped
      <3> QED BY <3>2, <3>3
    <2>2. CASE req[r].pc \notin InBase \cup {"routed"}
      BY <1>1, <2>2, PhasesOfTheModule DEF TenantsInv, RegistryTyped, ReqType
    <2> QED BY <2>1, <2>2
  <1>3. req' \in [TenantRequests -> ReqType]
    BY <1>1, <1>2
  <1>4. RegistryTyped'
    BY <1>1, <1>3 DEF TenantsInv, RegistryTyped
  <1>5. RequestsHold'
    BY <1>2 DEF RequestsHold, Holds, PhaseHolds, RowHolds, Before, InBase, InRow
  <1>6. RequestsAreApart'
    <2> SUFFICES ASSUME NEW p \in TenantRequests, NEW q \in TenantRequests, p # q
                 PROVE  Apart(req[p], req[q])'
      BY DEF RequestsAreApart
    <2>1. Apart(req[p], req[q])
      BY DEF TenantsInv, RequestsAreApart
    <2> QED BY <1>2, <2>1, ServerAssumption DEF Apart, InBase, InRow
  <1>7. ServerBoots'
    BY <1>1, <1>2 DEF TenantsInv, ServerBoots
  <1>8. \A t \in TenantIds : \A r \in TenantRequests : ~Claims(req[r], t) /\ ~Claims(req[r], t)'
    BY <1>1, <1>2 DEF Claims, Registry!Split
  <1>9. \A t \in TenantIds : Founded(t)'
    BY <1>1, <1>8 DEF TenantsInv, Founded, Initialized
  <1> QED BY <1>4, <1>5, <1>6, <1>7, <1>9 DEF TenantsInv

-----------------------------------------------------------------------------
(* The logs of the tenants, on sqlite.                                      *)

IsName(e, t) == e.of = t /\ e.field = "name"
IsShare(e, o, t) == e.of = t /\ e.by = o

LEMMA NamesStay ==
    ASSUME NEW s \in Seq(Told), NEW new, NEW t,
           new = s \/ \E e \in Told : ~IsName(e, t) /\ new = Append(s, e)
    PROVE  /\ NamesOf(new, t) = NamesOf(s, t) /\ (NamesFollow(s, t) => NamesFollow(new, t))
           /\ \A name : TellsName(new, t, Len(new), name) <=> TellsName(s, t, Len(s), name)
  <1>1. CASE new = s
    BY <1>1
  <1>2. CASE new # s
    <2>1. PICK e \in Told : (e.of # t \/ e.field # "name") /\ new = Append(s, e)
      BY <1>2 DEF IsName
    <2>2. NamesOf(new, t) = NamesOf(s, t)
      BY <2>1, OtherName
    <2>3. NamesFollow(s, t) => NamesFollow(new, t)
      BY <2>1, NamesStillFollow
    <2>4. ASSUME NEW name PROVE TellsName(new, t, Len(new), name) <=> TellsName(s, t, Len(s), name)
      BY <2>1, OtherNameTells
    <2> QED BY <2>2, <2>3, <2>4
  <1> QED BY <1>1, <1>2

LEMMA SharesStay ==
    ASSUME NEW a \in Seq(Told), NEW b \in Seq(Told), NEW c, NEW d, NEW o, NEW t,
           c = a \/ \E e \in Told : ~IsShare(e, o, t) /\ c = Append(a, e),
           d = b \/ \E e \in Told : ~IsShare(e, o, t) /\ d = Append(b, e)
    PROVE  /\ AllShared(o, t, a, b) => AllShared(o, t, c, d)
           /\ \A x : AllButLast(o, t, a, b, x) => AllButLast(o, t, c, d, x)
  <1>1. c \in Seq(Told)
    BY Grows
  <1>2. /\ AllShared(o, t, a, b) => AllShared(o, t, c, b)
        /\ \A x : AllButLast(o, t, a, b, x) => AllButLast(o, t, c, b, x)
    BY OtherEntry DEF IsShare
  <1>3. /\ AllShared(o, t, c, b) => AllShared(o, t, c, d)
        /\ \A x : AllButLast(o, t, c, b, x) => AllButLast(o, t, c, d, x)
    BY <1>1, OtherEntry DEF IsShare
  <1> QED BY <1>2, <1>3

LEMMA NameStays ==
    ASSUME LogsTyped, NEW t \in TenantIds, NameIsTold(t), tenantRow'[t] = tenantRow[t],
           told'[t] = told[t] \/ \E e \in Told : ~IsName(e, t) /\ told'[t] = Append(told[t], e),
           \A q \in TenantRequests :
              \/ req'[q] = req[q]
              \/ /\ ~Ahead(req[q], t) /\ ~Late(req[q], t)
                 /\ ~Ahead(req[q], t)' /\ ~Late(req[q], t)'
    PROVE  NameIsTold(t)'
  <1>1. PICK s, new : s = told[t] /\ new = told'[t]
    OBVIOUS
  <1>2. s \in Seq(Told)
    BY <1>1 DEF LogsTyped
  <1>3. /\ NamesOf(new, t) = NamesOf(s, t) /\ (NamesFollow(s, t) => NamesFollow(new, t))
        /\ \A name : TellsName(new, t, Len(new), name) <=> TellsName(s, t, Len(s), name)
    BY <1>1, <1>2, NamesStay
  <1>4. \A name : LogTells(t, name)' <=> LogTells(t, name)
    BY <1>1, <1>3 DEF LogTells
  <1>5. NamesFollow(told[t], t)' /\ (NamesOf(told[t], t)' = NamesOf(told[t], t))
    BY <1>1, <1>3 DEF NameIsTold
  <1>6. \A q \in TenantRequests : /\ Ahead(req[q], t)' <=> Ahead(req[q], t)
                                  /\ Late(req[q], t)' <=> Late(req[q], t)
                                  /\ Ahead(req[q], t) \/ Late(req[q], t) => req'[q] = req[q]
    BY DEF Ahead, Late, Differs
  <1> HIDE DEF LogTells, Ahead, Late
  <1> QED BY <1>4, <1>5, <1>6 DEF NameIsTold

LEMMA ShareStays ==
    ASSUME LogsTyped, NEW o \in TenantIds, NEW t \in TenantIds, ShareIsTold(o, t),
           told'[o] = told[o] \/ \E e \in Told : ~IsShare(e, o, t) /\ told'[o] = Append(told[o], e),
           told'[t] = told[t] \/ \E e \in Told : ~IsShare(e, o, t) /\ told'[t] = Append(told[t], e),
           \A q \in TenantRequests :
              \/ req'[q] = req[q]
              \/ ~HasTold(req[q], o, t) /\ ~HasTold(req[q], o, t)'
              \/ /\ HasTold(req[q], o, t) /\ HasTold(req[q], o, t)'
                 /\ EntryOf(req[q])' = EntryOf(req[q])
    PROVE  ShareIsTold(o, t)'
  <1>1. PICK a, b, c, d : a = told[o] /\ b = told[t] /\ c = told'[o] /\ d = told'[t]
    OBVIOUS
  <1>2. a \in Seq(Told) /\ b \in Seq(Told)
    BY <1>1 DEF LogsTyped
  <1>3. /\ AllShared(o, t, a, b) => AllShared(o, t, c, d)
        /\ \A x : AllButLast(o, t, a, b, x) => AllButLast(o, t, c, d, x)
    BY <1>1, <1>2, SharesStay
  <1>4. \A q \in TenantRequests : /\ HasTold(req[q], o, t)' <=> HasTold(req[q], o, t)
                                  /\ HasTold(req[q], o, t) => EntryOf(req[q])' = EntryOf(req[q])
    BY DEF HasTold, EntryOf
  <1> HIDE DEF HasTold, EntryOf, AllShared, AllButLast
  <1>5. ASSUME NEW q \in TenantRequests, HasTold(req[q], o, t)'
        PROVE  AllButLast(o, t, told[o], told[t], EntryOf(req[q]))'
    <2>1. PICK e : e = EntryOf(req[q])
      OBVIOUS
    <2>2. HasTold(req[q], o, t) /\ EntryOf(req[q])' = e
      BY <1>4, <1>5, <2>1
    <2>3. AllButLast(o, t, a, b, e)
      BY <1>1, <2>1, <2>2 DEF ShareIsTold
    <2>4. AllButLast(o, t, c, d, e)
      BY <1>3, <2>3
    <2> QED BY <1>1, <2>2, <2>4
  <1>6. (\A q \in TenantRequests : ~HasTold(req[q], o, t)') => AllShared(o, t, told[o], told[t])'
    <2>1. ASSUME \A q \in TenantRequests : ~HasTold(req[q], o, t)' PROVE AllShared(o, t, c, d)
      BY <1>1, <1>3, <1>4, <2>1 DEF ShareIsTold
    <2> QED BY <1>1, <2>1
  <1> QED BY <1>5, <1>6 DEF ShareIsTold

(* Steps that tell no log and write no row.                                 *)
LEMMA LogsRest ==
    ASSUME LogsTyped, LogsInv, NEW r \in TenantRequests, NEW n,
           req \in [TenantRequests -> ReqType], req' = [req EXCEPT ![r] = n],
           UNCHANGED <<tenantRow, told>>,
           n.pc \in {"writing", "telling", "ending"} /\ n.op.kind # "create" => n.seen = tenantRow[n.op.of],
           n.pc # "closing", n.pc = "ending" => ~n.told,
           req[r].pc \in {"ending", "closing"} => ~req[r].told,
           req[r].pc = "closing" => ~Differs(req[r])
    PROVE  LogsInv'
  <1>1. req'[r] = n /\ \A q \in TenantRequests \ {r} : req'[q] = req[q]
    OBVIOUS
  <1>2. SeenIsThere'
    <2> SUFFICES ASSUME NEW q \in TenantRequests
                 PROVE  (req[q].pc \in {"writing", "telling", "ending"} /\ req[q].op.kind # "create" =>
                            req[q].seen = tenantRow[req[q].op.of])'
      BY DEF SeenIsThere
    <2>1. CASE q = r
      BY <1>1, <2>1
    <2>2. CASE q # r
      BY <1>1, <2>2 DEF LogsInv, SeenIsThere
    <2> QED BY <2>1, <2>2
  <1>3. NoneIsBehind'
    BY <1>1 DEF LogsInv, NoneIsBehind
  <1>4. ASSUME NEW t \in TenantIds PROVE NameIsTold(t)'
    <2>1. /\ ~Ahead(req[r], t) /\ ~Late(req[r], t)
          /\ ~Ahead(req[r], t)' /\ ~Late(req[r], t)'
      BY <1>1 DEF Ahead, Late
    <2> QED BY <1>1, <2>1, NameStays DEF LogsInv
  <1>5. ASSUME NEW o \in TenantIds, NEW t \in TenantIds, o # t PROVE ShareIsTold(o, t)'
    <2>1. ~HasTold(req[r], o, t) /\ ~HasTold(req[r], o, t)'
      BY <1>1 DEF HasTold
    <2> QED BY <1>1, <1>5, <2>1, ShareStays DEF LogsInv
  <1> QED BY <1>2, <1>3, <1>4, <1>5 DEF LogsInv

LEMMA EntryIsTold ==
    ASSUME TenantsInv, NEW r \in TenantRequests, req[r].pc \in InBase, Differs(req[r]), req[r].seen # None
    PROVE  /\ Registry!Entry(r) = EntryOf(req[r]) /\ EntryOf(req[r]) \in Told
           /\ EntryOf(req[r]).of = req[r].op.of /\ EntryOf(req[r]).by = req[r].op.at
           /\ EntryOf(req[r]).field = req[r].op.field /\ EntryOf(req[r]).new = req[r].op.val
           /\ EntryOf(req[r]).field = "name" => EntryOf(req[r]).old = req[r].seen.name
  <1>1. PICK x : x = req[r]
    OBVIOUS
  <1>2. /\ x \in ReqType /\ x.op \in Ops /\ x.op.at \in TenantIds /\ x.op.of \in TenantIds
        /\ x.op.field \in {"name", "on"}
    BY <1>1, UnderWay
  <1>3. x.seen \in Row
    BY <1>1, <1>2 DEF ReqType
  <1>4. x.seen[x.op.field] \in BOOLEAN \cup {First} \cup {op.val : op \in Ops}
    <2>1. CASE x.op.field = "name"
      <3>1. x.seen.name \in {First} \cup {op.val : op \in {o \in Ops : o.field = "name"}}
        BY <1>3 DEF Row, Registry!TenantRow
      <3> QED BY <2>1, <3>1
    <2>2. CASE x.op.field = "on"
      <3>1. x.seen.on \in BOOLEAN
        BY <1>3 DEF Row, Registry!TenantRow
      <3> QED BY <2>2, <3>1
    <2> QED BY <1>2, <2>1, <2>2
  <1>5. x.op.val \in {op.val : op \in Ops}
    BY <1>2
  <1>6. EntryOf(x) \in Told
    BY <1>2, <1>4, <1>5 DEF EntryOf, Told
  <1>7. Registry!Entry(r) = EntryOf(req[r])
    BY DEF Registry!Entry, EntryOf
  <1> QED BY <1>1, <1>6, <1>7 DEF EntryOf

(* On sqlite, whoever holds a lock is alone with it.                        *)
LEMMA Alone ==
    ASSUME TenantsInv, Registry!Files, NEW r \in TenantRequests, NEW q \in TenantRequests \ {r}
    PROVE  /\ req[r].pc \in InRow => req[q].pc \notin InRow
           /\ req[r].pc \in InBase /\ req[q].pc \in InBase => req[q].op.at # req[r].op.at
  BY DEF TenantsInv, RequestsAreApart, Apart

LEMMA LogsOfTold ==
    ASSUME TenantsInv, LogsTyped, Registry!Files, LogsInv, NEW r \in TenantRequests, Registry!Tell(r)
    PROVE  LogsTyped' /\ LogsInv'
  <1>1. PICK n : n = [req[r] EXCEPT !.pc = "ending", !.told = TRUE]
    OBVIOUS
  <1>2. PICK of, at, e : of = req[r].op.of /\ at = req[r].op.at /\ e = EntryOf(req[r])
    OBVIOUS
  <1>3. /\ req[r].pc = "telling" /\ req' = [req EXCEPT ![r] = n] /\ Registry!TenantIsFree(of)
        /\ UNCHANGED <<backend, server, registry, tenantRow, founder, keys>>
    BY <1>1, <1>2 DEF Registry!Tell
  <1>4. /\ req[r] \in ReqType /\ Holds(req[r]) /\ req[r].op \in Ops /\ of \in TenantIds /\ at \in TenantIds
        /\ req \in [TenantRequests -> ReqType]
    BY <1>2, <1>3, UnderWay DEF InBase, InRow, TenantsInv, RegistryTyped
  <1>5. /\ Tells(req[r]) /\ req[r].seen # None /\ tenantRow[of] # None /\ req[r].op.kind = "update" /\ of # at
    BY <1>2, <1>3, <1>4 DEF Holds, PhaseHolds, RowHolds, Tells, Differs, Before, InBase, InRow
  <1>6. /\ e = Registry!Entry(r) /\ e \in Told /\ e.of = of /\ e.by = at /\ e.field = req[r].op.field
        /\ e.new = req[r].op.val /\ (e.field = "name" => e.old = req[r].seen.name)
    BY <1>2, <1>3, <1>5, EntryIsTold DEF Tells, InBase, InRow
  <1>7. /\ told[of] \in Seq(Told) /\ told' = [told EXCEPT ![of] = Append(told[of], e)]
        /\ told'[of] = Append(told[of], e) /\ \A t \in TenantIds \ {of} : told'[t] = told[t]
    BY <1>2, <1>4, <1>6 DEF Registry!Tell, LogsTyped
  <1>8. LogsTyped'
    <2>1. PICK log_ : log_ = Append(told[of], e)
      OBVIOUS
    <2>2. log_ \in Seq(Told) /\ told' = [told EXCEPT ![of] = log_]
      BY <1>6, <1>7, <2>1, Grows
    <2> QED BY <2>2 DEF LogsTyped
  <1>9. /\ req'[r] = n /\ \A q \in TenantRequests \ {r} : req'[q] = req[q]
    BY <1>3, <1>4
  <1>10. /\ n.op = req[r].op /\ n.seen = req[r].seen /\ n.told = TRUE /\ n.pc = "ending"
    BY <1>1, <1>4 DEF ReqType
  <1>11. req[r].seen = tenantRow[of]
    BY <1>2, <1>3, <1>5 DEF LogsInv, SeenIsThere
  <1>12. \A q \in TenantRequests \ {r} :
            /\ req[q].pc \notin InRow
            /\ req[q].pc \in InBase => req[q].op.at # at /\ req[q].op.at # of
    BY <1>2, <1>3, Alone, PhasesOfTheModule DEF Registry!TenantIsFree, InBase, InRow
  <1>13. SeenIsThere'
    <2> SUFFICES ASSUME NEW q \in TenantRequests
                 PROVE  (req[q].pc \in {"writing", "telling", "ending"} /\ req[q].op.kind # "create" =>
                            req[q].seen = tenantRow[req[q].op.of])'
      BY DEF SeenIsThere
    <2>1. CASE q = r
      BY <1>2, <1>3, <1>9, <1>10, <1>11, <2>1
    <2>2. CASE q # r
      BY <1>3, <1>9, <2>2 DEF LogsInv, SeenIsThere
    <2> QED BY <2>1, <2>2
  <1>14. NoneIsBehind'
    BY <1>2, <1>9, <1>10, <1>12 DEF LogsInv, NoneIsBehind, InRow, InBase
  <1>15. ASSUME NEW t \in TenantIds PROVE NameIsTold(t)'
    <2>1. NameIsTold(t)
      BY DEF LogsInv
    <2>2. CASE ~(t = of /\ e.field = "name")
      <3>1. told'[t] = told[t] \/ \E x \in Told : ~IsName(x, t) /\ told'[t] = Append(told[t], x)
        BY <1>6, <1>7, <2>2 DEF IsName
      <3>2. /\ ~Ahead(req[r], t) /\ ~Late(req[r], t)
            /\ ~Ahead(req[r], t)' /\ ~Late(req[r], t)'
        BY <1>2, <1>3, <1>6, <1>9, <1>10, <2>2 DEF Ahead, Late
      <3> QED BY <1>3, <1>9, <2>1, <3>1, <3>2, NameStays
    <2>3. CASE t = of /\ e.field = "name"
      <3>1. \A q \in TenantRequests : ~Ahead(req[q], t) /\ ~Late(req[q], t)
        BY <1>3, <1>12, <2>3 DEF Ahead, Late, InRow, InBase
      <3>2. LogTells(t, e.old)
        <4>1. LogTells(t, tenantRow[t].name)
          BY <1>5, <2>1, <2>3, <3>1 DEF NameIsTold
        <4> QED BY <1>6, <1>11, <2>3, <4>1
      <3>3. NamesFollow(told[t], t) /\ TellsName(told[t], t, Len(told[t]), e.old)
        BY <2>1, <3>2 DEF NameIsTold, LogTells
      <3>4. NamesFollow(told'[t], t)
        BY <1>6, <1>7, <2>3, <3>3, NamesStillFollow
      <3>5. TellsName(told'[t], t, Len(told'[t]), e.new)
        BY <1>6, <1>7, <2>3, OneMoreNameTells
      <3>6. Ahead(req[r], t)' /\ (req[r].op.val)' = e.new
        BY <1>2, <1>6, <1>9, <1>10, <2>3 DEF Ahead
      <3>7. \A q \in TenantRequests \ {r} : ~Ahead(req[q], t)' /\ ~Late(req[q], t)'
        BY <1>9, <3>1 DEF Ahead, Late, Differs
      <3>8. ~Late(req[r], t)'
        BY <1>9, <1>10 DEF Late
      <3>9. LogTells(t, e.new)' /\ NamesFollow(told[t], t)' /\ tenantRow'[t] # None
        BY <1>3, <1>5, <2>3, <3>4, <3>5 DEF LogTells
      <3>10. \A q \in TenantRequests : Ahead(req[q], t)' => LogTells(t, req[q].op.val)'
        <4> SUFFICES ASSUME NEW q \in TenantRequests, Ahead(req[q], t)' PROVE LogTells(t, req[q].op.val)'
          OBVIOUS
        <4>1. q = r
          BY <3>7
        <4>2. PICK v : v = e.new
          OBVIOUS
        <4>3. LogTells(t, v)' /\ req'[r].op.val = v
          BY <3>5, <3>6, <4>2 DEF LogTells
        <4> QED BY <4>1, <4>3
      <3> HIDE DEF LogTells, Ahead, Late
      <3> QED BY <3>6, <3>7, <3>8, <3>9, <3>10 DEF NameIsTold
    <2> QED BY <2>2, <2>3
  <1>16. ASSUME NEW o \in TenantIds, NEW t \in TenantIds, o # t PROVE ShareIsTold(o, t)'
    <2>1. ShareIsTold(o, t)
      BY <1>16 DEF LogsInv
    <2>2. CASE ~(t = of /\ o = at)
      <3>1. /\ told'[o] = told[o] \/ \E x \in Told : ~IsShare(x, o, t) /\ told'[o] = Append(told[o], x)
            /\ told'[t] = told[t] \/ \E x \in Told : ~IsShare(x, o, t) /\ told'[t] = Append(told[t], x)
        BY <1>6, <1>7, <2>2 DEF IsShare
      <3>2. ~HasTold(req[r], o, t) /\ ~HasTold(req[r], o, t)'
        BY <1>2, <1>9, <1>10, <2>2 DEF HasTold
      <3> QED BY <1>9, <2>1, <3>1, <3>2, ShareStays
    <2>3. CASE t = of /\ o = at
      <3>1. \A q \in TenantRequests : ~HasTold(req[q], o, t)
        BY <1>3, <1>12, <2>3 DEF HasTold, InRow, InBase
      <3>2. AllShared(o, t, told[o], told[t])
        BY <2>1, <3>1 DEF ShareIsTold
      <3>3. told[o] \in Seq(Told) /\ told[t] \in Seq(Told) /\ told'[o] = told[o] /\ told'[t] = Append(told[t], e)
        BY <1>7, <1>16, <2>3 DEF LogsTyped
      <3>4. PICK a, b, c : a = told[o] /\ b = told[t] /\ c = told'[t]
        OBVIOUS
      <3>5. AllButLast(o, t, a, c, e)
        BY <1>6, <2>3, <3>2, <3>3, <3>4, TenantIsTold
      <3>6. \A q \in TenantRequests \ {r} : ~HasTold(req[q], o, t)'
        BY <1>9, <3>1 DEF HasTold
      <3>7. HasTold(req[r], o, t)' /\ EntryOf(req[r])' = e
        BY <1>2, <1>9, <1>10, <2>3 DEF HasTold, EntryOf
      <3>8. AllButLast(o, t, told[o], told[t], EntryOf(req[r]))'
        BY <3>3, <3>4, <3>5, <3>7
      <3> HIDE DEF HasTold, AllButLast, AllShared, EntryOf
      <3> QED BY <3>6, <3>7, <3>8 DEF ShareIsTold
    <2> QED BY <2>2, <2>3
  <1> QED BY <1>8, <1>13, <1>14, <1>15, <1>16 DEF LogsInv

(* A row is written as the log already tells, or as it is about to tell.    *)
LEMMA NameWritten ==
    ASSUME TenantsInv, LogsInv, NEW r \in TenantRequests, req[r].pc = "ending",
           NEW old, old = tenantRow[req[r].op.of],
           NEW new, new = IF req[r].put = None THEN old ELSE req[r].put
    PROVE  /\ new # None
           /\ Differs(req[r]) =>
                 /\ old # None /\ req[r].seen = old
                 /\ req[r].op.field = "name" => new.name = req[r].op.val
                 /\ req[r].told <=> req[r].op.of # req[r].op.at
           /\ req[r].told => Differs(req[r]) /\ req[r].op.of # req[r].op.at
           /\ ~(Differs(req[r]) /\ req[r].op.field = "name") =>
                 IF old = None THEN new.name = First ELSE new.name = old.name
  <1>1. /\ req[r] \in ReqType /\ Holds(req[r]) /\ req[r].op \in Ops
        /\ req[r].op.kind \in {"create", "init", "update", "delete"}
        /\ old \in Row \cup {None}
    BY UnderWay DEF InBase, InRow
  <1>2. /\ req[r].put # None => Written(req[r], old)
        /\ req[r].op.kind # "create" => old # None
        /\ req[r].op.kind \in {"create", "update"} => req[r].put # None
        /\ req[r].told <=> Tells(req[r])
    BY <1>1 DEF Holds, RowHolds, PhaseHolds, Before, InBase, InRow
  <1>3. req[r].op.kind # "create" => req[r].seen = old
    BY DEF LogsInv, SeenIsThere
  <1>4. CASE req[r].put = None
    <2>1. new = old /\ req[r].op.kind \in {"init", "delete"} /\ old # None
      BY <1>1, <1>2, <1>4
    <2>2. ~Differs(req[r]) /\ ~Tells(req[r])
      BY <2>1 DEF Differs, Tells
    <2> QED BY <1>2, <2>1, <2>2
  <1>5. CASE req[r].put # None
    <2>1. new = req[r].put /\ new # None
      BY <1>5
    <2>2. /\ req[r].op.kind = "create" => old = None /\ new.name = First
          /\ req[r].op.kind \in {"init", "delete"} => new.name = old.name
          /\ req[r].op.kind = "update" => new.name = IF req[r].op.field = "name" THEN req[r].op.val ELSE old.name
      BY <1>1, <1>2, <1>5, <2>1, WrittenRow
    <2>3. Differs(req[r]) => req[r].op.kind = "update"
      BY DEF Differs
    <2>4. req[r].op.kind = "update" /\ ~Differs(req[r]) /\ req[r].op.field = "name" => req[r].op.val = old.name
      BY <1>3 DEF Differs
    <2>5. req[r].told <=> Differs(req[r]) /\ req[r].op.of # req[r].op.at
      BY <1>2 DEF Tells
    <2> QED BY <1>1, <1>2, <1>3, <2>1, <2>2, <2>3, <2>4, <2>5
  <1> QED BY <1>4, <1>5

LEMMA FirstIsTold ==
    ASSUME LogsInv, NEW t \in TenantIds, tenantRow[t] = None
    PROVE  LogTells(t, First)
  BY DEF LogsInv, NameIsTold, LogTells, TellsName, NamesUpTo

LEMMA LogsOfRegistry ==
    ASSUME TenantsInv, LogsTyped, Registry!Files, LogsInv, NEW r \in TenantRequests, Registry!CommitRegistry(r)
    PROVE  LogsTyped' /\ LogsInv'
  <1>1. PICK n : n = [req[r] EXCEPT !.pc = "closing"]
    OBVIOUS
  <1>2. PICK of, at, old : of = req[r].op.of /\ at = req[r].op.at /\ old = tenantRow[of]
    OBVIOUS
  <1>3. PICK new : new = IF req[r].put = None THEN old ELSE req[r].put
    OBVIOUS
  <1>4. /\ req[r].pc = "ending" /\ req' = [req EXCEPT ![r] = n] /\ UNCHANGED told
        /\ tenantRow' = IF req[r].put = None THEN tenantRow ELSE [tenantRow EXCEPT ![of] = req[r].put]
    BY <1>1, <1>2 DEF Registry!CommitRegistry
  <1>5. /\ req[r] \in ReqType /\ of \in TenantIds /\ at \in TenantIds
        /\ req \in [TenantRequests -> ReqType] /\ tenantRow \in [TenantIds -> Row \cup {None}]
    BY <1>2, <1>4, UnderWay DEF InBase, InRow, TenantsInv, RegistryTyped
  <1>6. /\ n.op = req[r].op /\ n.seen = req[r].seen /\ n.told = req[r].told /\ n.pc = "closing"
    BY <1>1, <1>5 DEF ReqType
  <1>7. /\ req'[r] = n /\ \A q \in TenantRequests \ {r} : req'[q] = req[q]
    BY <1>4, <1>5
  <1>8. tenantRow'[of] = new /\ \A t \in TenantIds \ {of} : tenantRow'[t] = tenantRow[t]
    BY <1>2, <1>3, <1>4, <1>5
  <1>9. \A q \in TenantRequests \ {r} :
            /\ req[q].pc \notin InRow
            /\ req[q].pc \in InBase => req[q].op.at # at
    BY <1>2, <1>4, Alone DEF InBase, InRow
  <1>10. LogsTyped'
    BY <1>4 DEF LogsTyped
  <1>11. SeenIsThere'
    BY <1>6, <1>7, <1>9 DEF SeenIsThere, InRow
  <1>12. NoneIsBehind'
    BY <1>6, <1>7, <1>9 DEF NoneIsBehind, InRow
  <1>13. /\ new # None
         /\ Differs(req[r]) =>
               /\ old # None /\ req[r].seen = old
               /\ req[r].op.field = "name" => new.name = req[r].op.val
               /\ req[r].told <=> of # at
         /\ req[r].told => Differs(req[r]) /\ of # at
         /\ ~(Differs(req[r]) /\ req[r].op.field = "name") =>
               IF old = None THEN new.name = First ELSE new.name = old.name
    BY <1>2, <1>3, <1>4, NameWritten
  <1>14. ASSUME NEW t \in TenantIds PROVE NameIsTold(t)'
    <2>1. NameIsTold(t)
      BY DEF LogsInv
    <2>2. CASE t # of
      <3>1. /\ ~Ahead(req[r], t) /\ ~Late(req[r], t)
            /\ ~Ahead(req[r], t)' /\ ~Late(req[r], t)'
        BY <1>2, <1>6, <1>7, <2>2 DEF Ahead, Late
      <3> QED BY <1>4, <1>7, <1>8, <2>1, <2>2, <3>1, NameStays
    <2>3. CASE t = of
      <3>1. \A q \in TenantRequests : ~Ahead(req[q], t)'
        BY <1>6, <1>7, <1>9 DEF Ahead, InRow
      <3>2. \A q \in TenantRequests \ {r} : /\ ~Ahead(req[q], t)
                                            /\ Late(req[q], t)' <=> Late(req[q], t)
        BY <1>7, <1>9 DEF Ahead, Late, Differs, InRow
      <3>3. ~Late(req[r], t)
        BY <1>4 DEF Late
      <3>4. Late(req[r], t)' <=> (Differs(req[r]) /\ of = at /\ req[r].op.field = "name")
        BY <1>2, <1>6, <1>7, <2>3 DEF Late, Differs
      <3>5. Ahead(req[r], t) <=> (Differs(req[r]) /\ of # at /\ req[r].op.field = "name")
        BY <1>2, <1>4, <1>13, <2>3 DEF Ahead
      <3>6. tenantRow'[t] = new /\ tenantRow[t] = old /\ told'[t] = told[t]
        BY <1>2, <1>4, <1>8, <2>3
      <3>7. \A name : LogTells(t, name)' <=> LogTells(t, name)
        BY <3>6 DEF LogTells
      <3>8. NamesFollow(told[t], t)' /\ tenantRow'[t] # None
        BY <1>13, <2>1, <3>6 DEF NameIsTold
      <3>9. CASE Differs(req[r]) /\ of = at /\ req[r].op.field = "name"
        <4>1. \A q \in TenantRequests : ~Ahead(req[q], t) /\ ~Late(req[q], t)
          BY <1>9, <2>3, <3>2, <3>3, <3>5, <3>9 DEF Late, InBase
        <4>2. LogTells(t, old.name) /\ req[r].seen = old /\ new.name = req[r].op.val
          BY <1>13, <2>1, <3>6, <3>9, <4>1 DEF NameIsTold
        <4>3. PICK name : name = old.name
          OBVIOUS
        <4>4. LogTells(t, name)' /\ req'[r].seen.name = name /\ tenantRow'[t].name = req'[r].op.val
          BY <1>6, <1>7, <3>6, <3>7, <4>2, <4>3
        <4>5. \A q \in TenantRequests : Late(req[q], t)' => q = r
          BY <3>2, <4>1
        <4>6. Late(req[r], t)'
          BY <3>4, <3>9
        <4>7. (LogTells(t, req[r].seen.name) /\ tenantRow[t] # None /\ tenantRow[t].name = req[r].op.val)'
          BY <3>8, <4>4
        <4>8. ASSUME NEW q \in TenantRequests, Late(req[q], t)'
              PROVE  (LogTells(t, req[q].seen.name) /\ tenantRow[t] # None /\ tenantRow[t].name = req[q].op.val)'
          BY <4>5, <4>7, <4>8
        <4> HIDE DEF LogTells, Ahead, Late
        <4> QED BY <3>1, <3>8, <4>6, <4>8 DEF NameIsTold
      <3>10. CASE ~(Differs(req[r]) /\ of = at /\ req[r].op.field = "name")
        <4>1. ~Late(req[r], t)'
          BY <3>4, <3>10
        <4>2. CASE Ahead(req[r], t)
          <5>1. LogTells(t, new.name)
            <6>1. LogTells(t, req[r].op.val) /\ new.name = req[r].op.val
              BY <1>13, <2>1, <3>5, <4>2 DEF NameIsTold
            <6> QED BY <6>1
          <5>2. \A q \in TenantRequests \ {r} : ~Late(req[q], t)
            BY <1>2, <1>4, <2>3, <4>2 DEF LogsInv, NoneIsBehind, Ahead, Late
          <5>3. \A q \in TenantRequests : ~Late(req[q], t)'
            BY <3>2, <4>1, <5>2
          <5>4. LogTells(t, tenantRow[t].name)'
            <6>1. PICK name : name = new.name
              OBVIOUS
            <6>2. LogTells(t, name)' /\ tenantRow'[t].name = name
              BY <3>6, <3>7, <5>1, <6>1
            <6> QED BY <6>2
          <5> HIDE DEF LogTells, Ahead, Late
          <5> QED BY <3>1, <3>8, <5>3, <5>4 DEF NameIsTold
        <4>3. CASE ~Ahead(req[r], t)
          <5>1. IF old = None THEN new.name = First ELSE new.name = old.name
            BY <1>13, <3>5, <3>10, <4>3
          <5>2. \A q \in TenantRequests : /\ ~Ahead(req[q], t)
                                          /\ Late(req[q], t)' <=> Late(req[q], t)
            BY <3>2, <3>3, <4>1, <4>3
          <5>3. CASE old = None
            <6>1. LogTells(t, First)
              BY <3>6, <5>3, FirstIsTold
            <6>2. \A q \in TenantRequests : ~Late(req[q], t)
              BY <2>1, <3>6, <5>3 DEF NameIsTold
            <6>3. \A q \in TenantRequests : ~Late(req[q], t)'
              BY <5>2, <6>2
            <6>4. LogTells(t, tenantRow[t].name)'
              BY <3>6, <3>7, <5>1, <5>3, <6>1
            <6> HIDE DEF LogTells, Ahead, Late
            <6> QED BY <3>1, <3>8, <6>3, <6>4 DEF NameIsTold
          <5>4. CASE old # None
            <6>1. new.name = old.name
              BY <5>1, <5>4
            <6>2. PICK name : name = old.name
              OBVIOUS
            <6>3. (\A q \in TenantRequests : ~Late(req[q], t)) => LogTells(t, name)
              BY <2>1, <3>6, <5>2, <5>4, <6>2 DEF NameIsTold
            <6>4. tenantRow'[t].name = name /\ tenantRow[t].name = name
              BY <3>6, <6>1, <6>2
            <6>5. ASSUME NEW q \in TenantRequests, Late(req[q], t)'
                  PROVE  (LogTells(t, req[q].seen.name) /\ tenantRow[t] # None /\ tenantRow[t].name = req[q].op.val)'
              <7>1. q # r /\ Late(req[q], t)
                BY <4>1, <5>2, <6>5
              <7>2. req'[q] = req[q]
                BY <1>7, <7>1
              <7>3. PICK seen_ : seen_ = req[q].seen.name
                OBVIOUS
              <7>4. LogTells(t, seen_) /\ tenantRow[t].name = req[q].op.val
                BY <2>1, <7>1, <7>3 DEF NameIsTold
              <7>5. LogTells(t, seen_)' /\ tenantRow'[t].name = req'[q].op.val /\ req'[q].seen.name = seen_
                BY <3>7, <6>4, <7>2, <7>3, <7>4
              <7> QED BY <3>8, <7>5
            <6>6. (\A q \in TenantRequests : ~Late(req[q], t)') => LogTells(t, name)'
              BY <3>7, <5>2, <6>3
            <6>7. (\A q \in TenantRequests : ~Late(req[q], t)') => LogTells(t, tenantRow[t].name)'
              BY <6>4, <6>6
            <6> HIDE DEF LogTells, Ahead, Late
            <6> QED BY <3>1, <3>8, <6>5, <6>7 DEF NameIsTold
          <5> QED BY <5>3, <5>4
        <4> QED BY <4>2, <4>3
      <3> QED BY <3>9, <3>10
    <2> QED BY <2>2, <2>3
  <1>15. ASSUME NEW o \in TenantIds, NEW t \in TenantIds, o # t PROVE ShareIsTold(o, t)'
    <2>1. ShareIsTold(o, t)
      BY <1>15 DEF LogsInv
    <2>2. /\ HasTold(req[r], o, t)' <=> HasTold(req[r], o, t)
          /\ EntryOf(req[r])' = EntryOf(req[r])
      BY <1>4, <1>6, <1>7 DEF HasTold, EntryOf
    <2> QED BY <1>4, <1>7, <2>1, <2>2, ShareStays
  <1> QED BY <1>10, <1>11, <1>12, <1>14, <1>15 DEF LogsInv

LEMMA LogsOfTenant ==
    ASSUME TenantsInv, LogsTyped, Registry!Files, LogsInv, NEW r \in TenantRequests, Registry!CommitTenant(r)
    PROVE  LogsTyped' /\ LogsInv'
  <1>1. PICK of, at, e : of = req[r].op.of /\ at = req[r].op.at /\ e = EntryOf(req[r])
    OBVIOUS
  <1>2. /\ req[r].pc = "closing" /\ req' = Registry!Over(r)
        /\ UNCHANGED <<backend, server, registry, tenantRow, tables>>
        /\ told' = IF Differs(req[r]) THEN [told EXCEPT ![at] = Append(@, Registry!Entry(r))] ELSE told
    BY <1>1, PhasesOfTheModule DEF Registry!CommitTenant
  <1>3. /\ req[r] \in ReqType /\ Holds(req[r]) /\ req[r].op \in Ops /\ of \in TenantIds /\ at \in TenantIds
        /\ req \in [TenantRequests -> ReqType]
    BY <1>1, <1>2, UnderWay DEF InBase, TenantsInv, RegistryTyped
  <1>4. PICK n \in ReqType : req' = [req EXCEPT ![r] = n] /\ n.pc = "done"
    BY <1>2, <1>3, EndIsOver
  <1>5. req[r].told <=> Differs(req[r]) /\ of # at
    BY <1>1, <1>2, <1>3 DEF Holds, PhaseHolds, Tells
  <1>6. CASE ~Differs(req[r])
    <2>1. UNCHANGED told /\ ~req[r].told
      BY <1>2, <1>5, <1>6
    <2>2. LogsInv'
      BY <1>2, <1>3, <1>4, <1>6, <2>1, LogsRest
    <2> QED BY <2>1, <2>2 DEF LogsTyped
  <1>7. CASE Differs(req[r])
    <2>1. req[r].op.kind = "update" /\ req[r].seen # None /\ tenantRow[of] # None
      BY <1>1, <1>2, <1>3, <1>7 DEF Differs, Holds, PhaseHolds, RowHolds, Before, InBase, InRow
    <2>2. /\ e = Registry!Entry(r) /\ e \in Told /\ e.of = of /\ e.by = at /\ e.field = req[r].op.field
          /\ e.new = req[r].op.val /\ (e.field = "name" => e.old = req[r].seen.name)
      BY <1>1, <1>2, <1>7, <2>1, EntryIsTold DEF InBase
    <2>3. /\ told[at] \in Seq(Told) /\ told' = [told EXCEPT ![at] = Append(told[at], e)]
          /\ told'[at] = Append(told[at], e) /\ \A t \in TenantIds \ {at} : told'[t] = told[t]
      BY <1>2, <1>3, <1>7, <2>2 DEF LogsTyped
    <2>4. LogsTyped'
      <3>1. PICK log_ : log_ = Append(told[at], e)
        OBVIOUS
      <3>2. log_ \in Seq(Told) /\ told' = [told EXCEPT ![at] = log_]
        BY <2>2, <2>3, <3>1, Grows
      <3> QED BY <3>2 DEF LogsTyped
    <2>5. /\ req'[r] = n /\ \A q \in TenantRequests \ {r} : req'[q] = req[q]
      BY <1>3, <1>4
    <2>6. \A q \in TenantRequests \ {r} : req[q].pc \in InBase => req[q].op.at # at
      BY <1>1, <1>2, Alone DEF InBase
    <2>7. SeenIsThere'
      BY <1>2, <1>4, <2>5 DEF LogsInv, SeenIsThere
    <2>8. NoneIsBehind'
      BY <1>4, <2>5 DEF LogsInv, NoneIsBehind
    <2>9. ASSUME NEW t \in TenantIds PROVE NameIsTold(t)'
      <3>1. NameIsTold(t)
        BY DEF LogsInv
      <3>2. CASE ~(t = at /\ of = at /\ e.field = "name")
        <4>1. told'[t] = told[t] \/ \E x \in Told : ~IsName(x, t) /\ told'[t] = Append(told[t], x)
          BY <2>2, <2>3, <3>2 DEF IsName
        <4>2. /\ ~Ahead(req[r], t) /\ ~Late(req[r], t)
              /\ ~Ahead(req[r], t)' /\ ~Late(req[r], t)'
          BY <1>1, <1>2, <1>4, <2>2, <2>5, <3>2 DEF Ahead, Late
        <4> QED BY <1>2, <2>5, <3>1, <4>1, <4>2, NameStays
      <3>3. CASE t = at /\ of = at /\ e.field = "name"
        <4>1. Late(req[r], t)
          BY <1>1, <1>2, <1>7, <2>2, <3>3 DEF Late
        <4>2. /\ NamesFollow(told[t], t) /\ TellsName(told[t], t, Len(told[t]), e.old)
              /\ tenantRow[t] # None /\ tenantRow[t].name = e.new
          <5>1. LogTells(t, req[r].seen.name) /\ tenantRow[t] # None /\ tenantRow[t].name = req[r].op.val
            BY <3>1, <4>1 DEF NameIsTold
          <5> QED BY <2>2, <3>1, <3>3, <5>1 DEF NameIsTold, LogTells
        <4>3. NamesFollow(told'[t], t)
          BY <2>2, <2>3, <3>3, <4>2, NamesStillFollow
        <4>4. TellsName(told'[t], t, Len(told'[t]), e.new)
          BY <2>2, <2>3, <3>3, OneMoreNameTells
        <4>5. \A q \in TenantRequests : ~Ahead(req[q], t)' /\ ~Late(req[q], t)'
          <5> SUFFICES ASSUME NEW q \in TenantRequests PROVE ~Ahead(req[q], t)' /\ ~Late(req[q], t)'
            OBVIOUS
          <5>1. CASE q = r
            BY <1>4, <2>5, <5>1 DEF Ahead, Late
          <5>2. CASE q # r
            <6>1. ~Ahead(req[q], t) /\ ~Late(req[q], t)
              BY <1>1, <1>2, <2>6, <3>3, <5>2 DEF LogsInv, NoneIsBehind, Ahead, Late, InBase
            <6> QED BY <2>5, <5>2, <6>1 DEF Ahead, Late, Differs
          <5> QED BY <5>1, <5>2
        <4>6. PICK name : name = e.new
          OBVIOUS
        <4>7. LogTells(t, name)' /\ tenantRow'[t].name = name /\ tenantRow'[t] # None
          BY <1>2, <4>2, <4>4, <4>6 DEF LogTells
        <4>8. NamesFollow(told[t], t)' /\ LogTells(t, tenantRow[t].name)'
          BY <4>3, <4>7
        <4> HIDE DEF LogTells, Ahead, Late
        <4> QED BY <4>5, <4>7, <4>8 DEF NameIsTold
      <3> QED BY <3>2, <3>3
    <2>10. ASSUME NEW o \in TenantIds, NEW t \in TenantIds, o # t PROVE ShareIsTold(o, t)'
      <3>1. ShareIsTold(o, t)
        BY <2>10 DEF LogsInv
      <3>2. ~HasTold(req[r], o, t)'
        BY <1>4, <2>5 DEF HasTold
      <3>3. CASE ~(t = of /\ o = at)
        <4>1. /\ told'[o] = told[o] \/ \E x \in Told : ~IsShare(x, o, t) /\ told'[o] = Append(told[o], x)
              /\ told'[t] = told[t] \/ \E x \in Told : ~IsShare(x, o, t) /\ told'[t] = Append(told[t], x)
          BY <2>2, <2>3, <3>3 DEF IsShare
        <4>2. ~HasTold(req[r], o, t)
          BY <1>1, <3>3 DEF HasTold
        <4> QED BY <2>5, <3>1, <3>2, <4>1, <4>2, ShareStays
      <3>4. CASE t = of /\ o = at
        <4>1. HasTold(req[r], o, t)
          BY <1>1, <1>2, <1>5, <1>7, <2>10, <3>4 DEF HasTold
        <4>2. AllButLast(o, t, told[o], told[t], e)
          <5>1. AllButLast(o, t, told[o], told[t], EntryOf(req[r]))
            BY <3>1, <4>1 DEF ShareIsTold
          <5> QED BY <1>1, <5>1
        <4>3. /\ told[o] \in Seq(Told) /\ told[t] \in Seq(Told)
              /\ told'[o] = Append(told[o], e) /\ told'[t] = told[t]
          BY <2>3, <2>10, <3>4 DEF LogsTyped
        <4>4. PICK a, b, c : a = told[o] /\ b = told[t] /\ c = told'[o]
          OBVIOUS
        <4>5. AllShared(o, t, c, b)
          BY <2>2, <3>4, <4>2, <4>3, <4>4, OwnerIsTold
        <4>6. AllShared(o, t, told[o], told[t])'
          BY <4>3, <4>4, <4>5
        <4>7. \A q \in TenantRequests : ~HasTold(req[q], o, t)'
          <5> SUFFICES ASSUME NEW q \in TenantRequests PROVE ~HasTold(req[q], o, t)'
            OBVIOUS
          <5>1. CASE q = r
            BY <3>2, <5>1
          <5>2. CASE q # r
            BY <2>5, <2>6, <3>4, <5>2 DEF HasTold, InBase, InRow
          <5> QED BY <5>1, <5>2
        <4> HIDE DEF HasTold, AllShared, AllButLast
        <4> QED BY <4>6, <4>7 DEF ShareIsTold
      <3> QED BY <3>3, <3>4
    <2> QED BY <2>4, <2>7, <2>8, <2>9, <2>10 DEF LogsInv
  <1> QED BY <1>6, <1>7

(* With no request under way the logs tell the rows, and all that owners    *)
(* did.                                                                     *)
LEMMA LogsAtRest ==
    ASSUME LogsTyped, LogsInv, UNCHANGED told,
           \A t \in TenantIds : \/ tenantRow'[t] = tenantRow[t]
                                \/ /\ tenantRow[t] = None /\ tenantRow'[t] # None
                                   /\ tenantRow'[t].name = First,
           \A r \in TenantRequests : req'[r].pc \in {"idle", "done"},
           \A r \in TenantRequests, t \in TenantIds : ~Ahead(req[r], t) /\ ~Late(req[r], t),
           \A r \in TenantRequests, o, t \in TenantIds : o # t => ~HasTold(req[r], o, t)
    PROVE  LogsTyped' /\ LogsInv'
  <1>1. LogsTyped'
    BY DEF LogsTyped
  <1>2. SeenIsThere' /\ NoneIsBehind'
    BY DEF SeenIsThere, NoneIsBehind
  <1>3. \A r \in TenantRequests, t \in TenantIds : ~Ahead(req[r], t)' /\ ~Late(req[r], t)'
    BY DEF Ahead, Late
  <1>4. ASSUME NEW t \in TenantIds PROVE NameIsTold(t)'
    <2>1. NameIsTold(t)
      BY DEF LogsInv
    <2>2. CASE tenantRow'[t] = tenantRow[t]
      BY <1>3, <2>1, <2>2, NameStays
    <2>3. CASE tenantRow'[t] # tenantRow[t]
      <3>1. LogTells(t, First) /\ tenantRow'[t] # None /\ tenantRow'[t].name = First
        BY <2>3, FirstIsTold
      <3>2. PICK name : name = First
        OBVIOUS
      <3>3. LogTells(t, name)' /\ NamesFollow(told[t], t)'
        BY <2>1, <3>1, <3>2 DEF LogTells, NameIsTold
      <3>4. LogTells(t, tenantRow[t].name)'
        BY <3>1, <3>2, <3>3
      <3> HIDE DEF LogTells, Ahead, Late
      <3> QED BY <1>3, <3>1, <3>3, <3>4 DEF NameIsTold
    <2> QED BY <2>2, <2>3
  <1>5. ASSUME NEW o \in TenantIds, NEW t \in TenantIds, o # t PROVE ShareIsTold(o, t)'
    <2>1. ShareIsTold(o, t)
      BY <1>5 DEF LogsInv
    <2>2. \A r \in TenantRequests : ~HasTold(req[r], o, t) /\ ~HasTold(req[r], o, t)'
      BY <1>5 DEF HasTold
    <2> QED BY <2>1, <2>2, ShareStays
  <1> QED BY <1>1, <1>2, <1>4, <1>5 DEF LogsInv

LEMMA LogsOfBoot ==
    ASSUME TenantsInv, LogsTyped, LogsInv, Registry!Boot
    PROVE  LogsTyped' /\ LogsInv'
  <1>1. UNCHANGED <<told, req>> /\ \A r \in TenantRequests : req'[r].pc \in {"idle", "done"}
    BY DEF Registry!Boot, Registry!CreateRegistry, Registry!MakeRoot, Registry!AddRoot, Registry!Restart,
           TenantsInv, ServerBoots
  <1>2. ASSUME NEW t \in TenantIds
        PROVE  \/ tenantRow'[t] = tenantRow[t]
               \/ /\ tenantRow[t] = None /\ tenantRow'[t] # None
                  /\ tenantRow'[t].name = First
    <2>1. CASE Registry!AddRoot
      <3>1. /\ tenantRow[Root] = None /\ tenantRow' = [tenantRow EXCEPT ![Root] = Registry!NewRow(None)]
            /\ tenantRow \in [TenantIds -> Row \cup {None}] /\ Root \in TenantIds
        BY <2>1, ServerAssumption DEF Registry!AddRoot, TenantsInv, ServerBoots, RegistryTyped
      <3>2. PICK new : new = Registry!NewRow(None)
        OBVIOUS
      <3>3. new # None /\ new.name = First
        BY <3>2, NoRow
      <3>4. tenantRow' = [tenantRow EXCEPT ![Root] = new]
        BY <3>1, <3>2
      <3> QED BY <3>1, <3>3, <3>4
    <2>2. CASE ~Registry!AddRoot
      <3>1. UNCHANGED tenantRow
        BY <2>2 DEF Registry!Boot, Registry!CreateRegistry, Registry!MakeRoot, Registry!Restart
      <3> QED BY <3>1
    <2> QED BY <2>1, <2>2
  <1>3. /\ \A r \in TenantRequests, t \in TenantIds : ~Ahead(req[r], t) /\ ~Late(req[r], t)
        /\ \A r \in TenantRequests, o, t \in TenantIds : o # t => ~HasTold(req[r], o, t)
    BY <1>1 DEF Ahead, Late, HasTold
  <1> QED BY <1>1, <1>2, <1>3, LogsAtRest

LEMMA LogsOfCrash ==
    ASSUME TenantsInv, LogsTyped, LogsInv, MaxSplits = 0, splits \in Nat, Registry!Crash
    PROVE  LogsTyped' /\ LogsInv'
  <1>1. /\ \A r \in TenantRequests : ~Registry!Split(r)
        /\ req' = [r \in TenantRequests |-> IF req[r].pc = "routed" \/ Registry!InTenant(r)
                                            THEN Registry!Over(r)[r] ELSE req[r]]
        /\ UNCHANGED <<tenantRow, told>>
    BY DEF Registry!Crash, Registry!Half
  <1>2. ASSUME NEW r \in TenantRequests PROVE req'[r].pc \in {"idle", "done"}
    <2>1. CASE req[r].pc \in InBase \cup {"routed"}
      <3>1. PICK n \in ReqType : Registry!Over(r) = [req EXCEPT ![r] = n] /\ n.pc = "done"
        BY <2>1, UnderWay, EndIsOver
      <3> QED BY <1>1, <2>1, <3>1, PhasesOfTheModule DEF TenantsInv, RegistryTyped
    <2>2. CASE req[r].pc \notin InBase \cup {"routed"}
      BY <1>1, <2>2, PhasesOfTheModule DEF TenantsInv, RegistryTyped, ReqType
    <2> QED BY <2>1, <2>2
  <1>3. ASSUME NEW r \in TenantRequests
        PROVE  /\ ~(req[r].pc \in {"ending", "closing"} /\ req[r].told)
               /\ ~(req[r].pc = "closing" /\ Differs(req[r]))
    <2>1. req[r].pc = "closing" => ~Differs(req[r])
      BY <1>1, PhasesOfTheModule DEF Registry!Split
    <2>2. req[r].pc = "closing" => (req[r].told <=> Tells(req[r]))
      BY DEF TenantsInv, RequestsHold, Holds, PhaseHolds
    <2>3. req[r].pc = "ending" => ~req[r].told
      BY <1>1 DEF Registry!Split
    <2> QED BY <2>1, <2>2, <2>3 DEF Tells
  <1>4. /\ \A r \in TenantRequests, t \in TenantIds : ~Ahead(req[r], t) /\ ~Late(req[r], t)
        /\ \A r \in TenantRequests, o, t \in TenantIds : o # t => ~HasTold(req[r], o, t)
    BY <1>3 DEF Ahead, Late, HasTold
  <1>5. UNCHANGED told /\ \A t \in TenantIds : tenantRow'[t] = tenantRow[t]
    BY <1>1
  <1> HIDE DEF Ahead, Late, HasTold, LogsInv, LogsTyped
  <1> QED BY <1>2, <1>4, <1>5, LogsAtRest

LEMMA LogsOfOpen ==
    ASSUME TenantsInv, LogsTyped, LogsInv, NEW r \in TenantRequests,
           (\E op \in Ops : Registry!Route(r, op)) \/ Registry!Open(r) \/ Registry!OpenRegistry(r)
    PROVE  LogsInv'
  <1>1. req \in [TenantRequests -> ReqType] /\ req[r] \in ReqType
    BY DEF TenantsInv, RegistryTyped
  <1>2. \E n : /\ req' = [req EXCEPT ![r] = n] /\ n.pc \in {"routed", "done", "open", "reading"}
               /\ UNCHANGED <<tenantRow, told>> /\ req[r].pc \in {"idle", "routed", "open"}
    <2>1. CASE \E op \in Ops : Registry!Route(r, op)
      <3>1. PICK op \in Ops : Registry!Route(r, op)
        BY <2>1
      <3>2. PICK n : n = [Registry!Idle EXCEPT
                  !.op = op, !.pc = IF tenantRow[op.at] # None /\ tenantRow[op.at].on THEN "routed" ELSE "done"]
        OBVIOUS
      <3>3. n.pc \in {"routed", "done"}
        BY <3>2 DEF Registry!Idle
      <3>4. req' = [req EXCEPT ![r] = n]
        BY <3>1, <3>2 DEF Registry!Route
      <3>5. UNCHANGED <<tenantRow, told>> /\ req[r].pc = "idle"
        BY <3>1 DEF Registry!Route
      <3> QED BY <3>3, <3>4, <3>5
    <2>2. CASE Registry!Open(r)
      <3>1. PICK n : n = [req[r] EXCEPT !.pc = "open"]
        OBVIOUS
      <3>2. n.pc = "open"
        BY <1>1, <3>1 DEF ReqType
      <3> QED BY <2>2, <3>1, <3>2 DEF Registry!Open
    <2>3. CASE Registry!OpenRegistry(r)
      <3>1. PICK n : n = [req[r] EXCEPT !.pc = "reading"]
        OBVIOUS
      <3>2. n.pc = "reading"
        BY <1>1, <3>1 DEF ReqType
      <3> QED BY <2>3, <3>1, <3>2 DEF Registry!OpenRegistry
    <2> QED BY <2>1, <2>2, <2>3
  <1> QED BY <1>1, <1>2, LogsRest

LEMMA LogsOfEnd ==
    ASSUME TenantsInv, LogsTyped, LogsInv, NEW r \in TenantRequests, req[r].pc \in InBase \cup {"routed"},
           req' = Registry!Over(r), UNCHANGED <<tenantRow, told>>,
           req[r].pc \in {"ending", "closing"} => ~req[r].told,
           req[r].pc = "closing" => ~Differs(req[r])
    PROVE  LogsInv'
  <1>1. req \in [TenantRequests -> ReqType]
    BY DEF TenantsInv, RegistryTyped
  <1>2. PICK n \in ReqType : req' = [req EXCEPT ![r] = n] /\ n.pc = "done"
    BY UnderWay, EndIsOver
  <1> QED BY <1>1, <1>2, LogsRest

LEMMA LogsOfRead ==
    ASSUME TenantsInv, LogsTyped, LogsInv, NEW r \in TenantRequests, Registry!Read(r)
    PROVE  LogsInv'
  <1>1. req[r].pc = "reading" /\ req[r].op.kind # "create" /\ UNCHANGED <<tenantRow, told>>
    BY DEF Registry!Read
  <1>2. /\ req \in [TenantRequests -> ReqType] /\ req[r] \in ReqType /\ ~req[r].told
        /\ tenantRow[req[r].op.of] \in Row \cup {None}
    BY <1>1, UnderWay DEF InBase, InRow, TenantsInv, RegistryTyped, Holds, PhaseHolds, Before
  <1>3. CASE req' = Registry!Over(r)
    BY <1>1, <1>3, LogsOfEnd DEF InBase, InRow
  <1>4. CASE req' # Registry!Over(r)
    <2>1. PICK n : n = [req[r] EXCEPT
             !.seen = tenantRow[req[r].op.of],
             !.pc = IF req[r].op.kind = "init" /\ tenantRow[req[r].op.of].init THEN "ending" ELSE "writing"]
      OBVIOUS
    <2>2. req' = [req EXCEPT ![r] = n]
      BY <1>4, <2>1 DEF Registry!Read
    <2>3. /\ n.op = req[r].op /\ n.told = req[r].told
          /\ n.seen = tenantRow[n.op.of] /\ n.pc \in {"ending", "writing"}
      BY <1>2, <2>1 DEF ReqType
    <2> QED BY <1>1, <1>2, <2>2, <2>3, LogsRest
  <1> QED BY <1>3, <1>4

LEMMA LogsOfWrite ==
    ASSUME TenantsInv, LogsTyped, LogsInv, NEW r \in TenantRequests,
           Registry!Claim(r) \/ Registry!Change(r) \/ Registry!Delete(r) \/ Registry!Create(r)
    PROVE  LogsInv'
  <1>1. /\ UNCHANGED <<tenantRow, told>>
        /\ \/ req[r].pc = "writing" /\ req[r].op.kind # "create"
           \/ req[r].pc = "reading" /\ req[r].op.kind = "create"
    BY DEF Registry!Claim, Registry!Change, Registry!Delete, Registry!Create
  <1>2. req \in [TenantRequests -> ReqType] /\ req[r] \in ReqType /\ ~req[r].told
    BY <1>1, UnderWay DEF InBase, InRow, TenantsInv, RegistryTyped, Holds, PhaseHolds, Before
  <1>3. req[r].op.kind # "create" => req[r].seen = tenantRow[req[r].op.of]
    BY <1>1 DEF LogsInv, SeenIsThere
  <1>4. \E put, pc_ : pc_ \in {"telling", "ending"} /\ req' = [req EXCEPT ![r] = [req[r] EXCEPT !.put = put, !.pc = pc_]]
    <2>1. CASE Registry!Claim(r)
      <3>1. PICK put : put = IF tenantRow[req[r].op.of].init THEN None ELSE [tenantRow[req[r].op.of] EXCEPT !.init = TRUE]
        OBVIOUS
      <3>2. req' = [req EXCEPT ![r].pc = "ending", ![r].put = put]
        BY <2>1, <3>1 DEF Registry!Claim
      <3>3. req' = [req EXCEPT ![r] = [req[r] EXCEPT !.put = put, !.pc = "ending"]]
        BY <1>2, <3>2 DEF ReqType
      <3> QED BY <3>3
    <2>2. CASE Registry!Change(r)
      <3>1. PICK put : put = [tenantRow[req[r].op.of] EXCEPT ![req[r].op.field] = req[r].op.val]
        OBVIOUS
      <3>2. PICK pc_ : pc_ = IF Registry!Changes(r) /\ req[r].op.of # req[r].op.at THEN "telling" ELSE "ending"
        OBVIOUS
      <3> QED BY <2>2, <3>1, <3>2 DEF Registry!Change
    <2>3. CASE Registry!Delete(r)
      <3>1. PICK put : put = [tenantRow[req[r].op.of] EXCEPT !.on = FALSE, !.gone = TRUE]
        OBVIOUS
      <3> QED BY <2>3, <3>1 DEF Registry!Delete
    <2>4. CASE Registry!Create(r)
      <3>1. PICK put : put = Registry!NewRow(req[r].op.at)
        OBVIOUS
      <3>2. req' = [req EXCEPT ![r].pc = "ending", ![r].put = put]
        BY <2>4, <3>1 DEF Registry!Create
      <3>3. req' = [req EXCEPT ![r] = [req[r] EXCEPT !.put = put, !.pc = "ending"]]
        BY <1>2, <3>2 DEF ReqType
      <3> QED BY <3>3
    <2> QED BY <2>1, <2>2, <2>3, <2>4
  <1>5. PICK n : /\ req' = [req EXCEPT ![r] = n] /\ n.pc \in {"telling", "ending"}
                 /\ n.op = req[r].op /\ n.told = req[r].told /\ n.seen = req[r].seen
    <2>1. PICK put, pc_ : pc_ \in {"telling", "ending"} /\ req' = [req EXCEPT ![r] = [req[r] EXCEPT !.put = put, !.pc = pc_]]
      BY <1>4
    <2>2. PICK n : n = [req[r] EXCEPT !.put = put, !.pc = pc_]
      OBVIOUS
    <2>3. n.pc \in {"telling", "ending"} /\ n.op = req[r].op /\ n.told = req[r].told /\ n.seen = req[r].seen
      BY <1>2, <2>1, <2>2 DEF ReqType
    <2>4. req' = [req EXCEPT ![r] = n]
      BY <2>1, <2>2
    <2> QED BY <2>3, <2>4
  <1> QED BY <1>1, <1>2, <1>3, <1>5, LogsRest

LEMMA LogsOfStop ==
    ASSUME TenantsInv, LogsTyped, LogsInv, MaxSplits = 0, splits \in Nat, NEW r \in TenantRequests,
           Registry!Busy(r) \/ Registry!Fail(r)
    PROVE  LogsInv'
  <1>1. req' = Registry!Over(r) /\ UNCHANGED <<tenantRow, told>>
    BY DEF Registry!Busy, Registry!Fail
  <1>2. CASE Registry!Busy(r)
    <2>1. req[r].pc \in {"routed", "open", "reading", "telling"}
      BY <1>2 DEF Registry!Busy, Registry!Waits
    <2> QED BY <1>1, <2>1, LogsOfEnd DEF InBase, InRow
  <1>3. CASE Registry!Fail(r)
    <2>1. ~Registry!Split(r) /\ req[r].pc \in InBase
      BY <1>3, PhasesOfTheModule DEF Registry!Fail
    <2>2. req[r].pc = "closing" => ~Differs(req[r])
      BY <2>1, PhasesOfTheModule DEF Registry!Split
    <2>3. req[r].pc = "closing" => (req[r].told <=> Tells(req[r]))
      BY DEF TenantsInv, RequestsHold, Holds, PhaseHolds
    <2>4. req[r].pc = "ending" => ~req[r].told
      BY <2>1 DEF Registry!Split
    <2>5. req[r].pc \in {"ending", "closing"} => ~req[r].told
      BY <2>2, <2>3, <2>4 DEF Tells
    <2> QED BY <1>1, <2>1, <2>2, <2>5, LogsOfEnd
  <1> QED BY <1>2, <1>3

LEMMA ServerSteps ==
    ASSUME ServerInv, MaxSplits = 0, Registry!Next
    PROVE  ServerInv'
  <1> USE DEF ServerInv
  <1>1. splits' \in Nat /\ UNCHANGED backend
    <2>1. ASSUME Registry!Boot PROVE UNCHANGED <<splits, backend>>
      BY <2>1 DEF Registry!Boot, Registry!CreateRegistry, Registry!MakeRoot, Registry!AddRoot,
         Registry!Restart, Registry!units
    <2>2. ASSUME Registry!Crash PROVE splits' \in {splits, splits + 1} /\ UNCHANGED backend
      BY <2>2 DEF Registry!Crash
    <2>3. ASSUME NEW r \in TenantRequests, Registry!Fail(r)
          PROVE  splits' \in {splits, splits + 1} /\ UNCHANGED backend
      BY <2>3 DEF Registry!Fail
    <2>4. ASSUME NEW r \in TenantRequests, NEW op \in Ops, Registry!Route(r, op)
          PROVE  UNCHANGED <<splits, backend>>
      BY <2>4 DEF Registry!Route, Registry!units
    <2>5. ASSUME NEW r \in TenantRequests, Registry!RequestStep(r) PROVE UNCHANGED <<splits, backend>>
      BY <2>5 DEF Registry!RequestStep, Registry!Handle,
         Registry!Open, Registry!OpenRegistry, Registry!Read, Registry!Claim, Registry!Create,
         Registry!Change, Registry!Delete, Registry!Tell, Registry!CommitRegistry,
         Registry!CommitTenant, Registry!Busy, Registry!units
    <2> QED BY <2>1, <2>2, <2>3, <2>4, <2>5 DEF Registry!Next
  <1>2. Registry!Files' <=> Registry!Files
    BY <1>1 DEF Registry!Files
  <1>3. CASE Registry!Boot
    BY <1>1, <1>2, <1>3, ServerStarts, LogsOfBoot
  <1>4. CASE Registry!Crash
    BY <1>1, <1>2, <1>4, ServerCrashes, LogsOfCrash
  <1>5. ASSUME NEW r \in TenantRequests, NEW op \in Ops, Registry!Route(r, op)
        PROVE  ServerInv'
    <2>1. UNCHANGED told
      BY <1>5 DEF Registry!Route
    <2> QED BY <1>1, <1>2, <1>5, <2>1, RequestRouted, LogsOfOpen DEF LogsTyped
  <1>6. ASSUME NEW r \in TenantRequests, Registry!Open(r) \/ Registry!OpenRegistry(r)
        PROVE  ServerInv'
    <2>1. UNCHANGED told
      BY <1>6 DEF Registry!Open, Registry!OpenRegistry
    <2> QED BY <1>1, <1>2, <1>6, <2>1, RequestOpens, LogsOfOpen DEF LogsTyped
  <1>7. ASSUME NEW r \in TenantRequests, Registry!Read(r)
        PROVE  ServerInv'
    <2>1. UNCHANGED told
      BY <1>7 DEF Registry!Read
    <2> QED BY <1>1, <1>2, <1>7, <2>1, RequestReads, LogsOfRead DEF LogsTyped
  <1>8. ASSUME NEW r \in TenantRequests,
               Registry!Claim(r) \/ Registry!Change(r) \/ Registry!Delete(r) \/ Registry!Create(r)
        PROVE  ServerInv'
    <2>1. UNCHANGED told
      BY <1>8 DEF Registry!Claim, Registry!Change, Registry!Delete, Registry!Create
    <2> QED BY <1>1, <1>2, <1>8, <2>1, RequestWrites, RequestCreates, LogsOfWrite DEF LogsTyped
  <1>9. ASSUME NEW r \in TenantRequests, Registry!Tell(r)
        PROVE  ServerInv'
    BY <1>1, <1>2, <1>9, RequestTells, LogsOfTold
  <1>10. ASSUME NEW r \in TenantRequests, Registry!CommitRegistry(r)
         PROVE  ServerInv'
    BY <1>1, <1>2, <1>10, RegistryCommits, LogsOfRegistry
  <1>11. ASSUME NEW r \in TenantRequests, Registry!CommitTenant(r)
         PROVE  ServerInv'
    BY <1>1, <1>2, <1>11, TenantCommits, LogsOfTenant
  <1>12. ASSUME NEW r \in TenantRequests, Registry!Busy(r) \/ Registry!Fail(r)
         PROVE  ServerInv'
    <2>1. UNCHANGED told
      BY <1>12 DEF Registry!Busy, Registry!Fail
    <2> QED BY <1>1, <1>2, <1>12, <2>1, RequestStops, LogsOfStop DEF LogsTyped
  <1> HIDE DEF ServerInv
  <1> QED BY <1>3, <1>4, <1>5, <1>6, <1>7, <1>8, <1>9, <1>10, <1>11, <1>12
          DEF Registry!Next, Registry!RequestStep, Registry!Handle

-----------------------------------------------------------------------------
(* At the start.                                                            *)

LEMMA RowAtTheStart ==
    ASSUME NEW by \in TenantIds \cup {None}
    PROVE  LET row == [Registry!NewRow(by) EXCEPT !.init = TRUE] IN
           row \in Row /\ row # None /\ row.init /\ row.name = First
  <1>1. PICK row : row = [Registry!NewRow(by) EXCEPT !.init = TRUE]
    OBVIOUS
  <1>2. row \in Row /\ row.init /\ row.name = First
    BY <1>1, NoRow DEF Row, Registry!TenantRow, Registry!NewRow
  <1> QED BY <1>1, <1>2, NoRow

LEMMA StartsWhole == Registry!Init => ServerInv
  <1> SUFFICES ASSUME Registry!Init PROVE ServerInv
    OBVIOUS
  <1>1. PICK there \in Starts :
         /\ server = IF there = {} THEN "down" ELSE "up"
         /\ registry = (there # {})
         /\ tenantRow = [t \in TenantIds |-> IF t \in there
               THEN [Registry!NewRow(IF t = Root THEN None ELSE Root) EXCEPT !.init = TRUE] ELSE None]
         /\ tables = there /\ founder = there
         /\ keys = [t \in TenantIds |-> IF t \in there THEN 1 ELSE 0]
    BY DEF Registry!Init
  <1>2. /\ there \subseteq TenantIds /\ (there # {} => Root \in there) /\ Root \in TenantIds
        /\ backend \in {"file", "server"}
    BY ServerAssumption DEF Registry!Init
  <1>3. /\ told = [t \in TenantIds |-> <<>>] /\ req = [r \in TenantRequests |-> Registry!Idle]
        /\ splits = 0
    BY DEF Registry!Init
  <1>4. ASSUME NEW t \in TenantIds
        PROVE  /\ t \in there => /\ tenantRow[t] \in Row /\ tenantRow[t] # None
                                 /\ tenantRow[t].init /\ tenantRow[t].name = First
               /\ t \notin there => tenantRow[t] = None
    <2>1. CASE t \in there
      <3>1. PICK by \in TenantIds \cup {None} : by = IF t = Root THEN None ELSE Root
        BY <1>2
      <3>2. tenantRow[t] = [Registry!NewRow(by) EXCEPT !.init = TRUE]
        BY <1>1, <2>1, <3>1
      <3> QED BY <2>1, <3>2, RowAtTheStart
    <2>2. CASE t \notin there
      BY <1>1, <2>2
    <2> QED BY <2>1, <2>2
  <1>5. tenantRow \in [TenantIds -> Row \cup {None}]
    <2>1. \A t \in TenantIds : tenantRow[t] \in Row \cup {None}
      BY <1>4
    <2>2. PICK f : f = tenantRow
      OBVIOUS
    <2>3. DOMAIN f = TenantIds /\ f = [t \in TenantIds |-> f[t]]
      BY <1>1, <2>2
    <2> QED BY <2>1, <2>2, <2>3
  <1>6. ASSUME NEW r \in TenantRequests
        PROVE  /\ req[r] \in ReqType /\ req[r].pc = "idle" /\ req[r].op = None
    BY <1>3 DEF Registry!Idle, ReqType
  <1>7. RegistryTyped
    <2>1. registry \in BOOLEAN /\ server \in {"down", "up"}
      BY <1>1
    <2>2. keys \in [TenantIds -> Nat] /\ tables \subseteq TenantIds
      BY <1>1, <1>2
    <2>3. req \in [TenantRequests -> ReqType]
      BY <1>3, <1>6
    <2> QED BY <1>2, <1>5, <2>1, <2>2, <2>3 DEF RegistryTyped
  <1>8. RequestsHold
    BY <1>6 DEF RequestsHold, Holds, PhaseHolds, RowHolds, Before, InBase, InRow
  <1>9. RequestsAreApart
    BY <1>6, ServerAssumption DEF RequestsAreApart, Apart, InBase, InRow
  <1>10. ServerBoots
    <2>1. \A r \in TenantRequests : req[r].pc \in {"idle", "done"}
      BY <1>6
    <2>2. \A t \in TenantIds : tenantRow[t] # None => t \in tables
      BY <1>1, <1>4
    <2>3. CASE there = {}
      <3>1. server = "down" /\ ~registry /\ tenantRow[Root] = None
        BY <1>1, <1>2, <1>4, <2>3
      <3> QED BY <2>1, <2>2, <3>1 DEF ServerBoots
    <2>4. CASE there # {}
      <3>1. server = "up" /\ registry /\ tenantRow[Root] # None
        BY <1>1, <1>2, <1>4, <2>4
      <3> QED BY <2>1, <2>2, <3>1 DEF ServerBoots
    <2> QED BY <2>3, <2>4
  <1>11. ASSUME NEW t \in TenantIds PROVE Founded(t)
    <2>1. \A r \in TenantRequests : ~Claims(req[r], t)
      BY <1>6 DEF Claims
    <2>2. Initialized(tenantRow[t]) <=> t \in there
      BY <1>4 DEF Initialized
    <2> HIDE DEF Claims, Initialized
    <2> QED BY <1>1, <2>1, <2>2 DEF Founded
  <1>12. LogsTyped
    <2>1. <<>> \in Seq(Told)
      OBVIOUS
    <2> QED BY <1>3, <2>1 DEF LogsTyped
  <1>13. SeenIsThere /\ NoneIsBehind
    BY <1>6 DEF SeenIsThere, NoneIsBehind
  <1>14. \A t \in TenantIds : told[t] = <<>>
    BY <1>3
  <1>15. ASSUME NEW t \in TenantIds PROVE NameIsTold(t)
    <2>1. NamesOf(told[t], t) = {}
      BY <1>14 DEF NamesOf
    <2>2. \A r \in TenantRequests : ~Ahead(req[r], t) /\ ~Late(req[r], t)
      BY <1>6 DEF Ahead, Late
    <2>3. LogTells(t, First)
      BY <2>1 DEF LogTells, TellsName, NamesUpTo
    <2>4. tenantRow[t] # None => tenantRow[t].name = First
      BY <1>4
    <2>5. NamesFollow(told[t], t)
      BY <2>1 DEF NamesFollow
    <2>6. tenantRow[t] # None => LogTells(t, tenantRow[t].name)
      BY <2>3, <2>4
    <2> HIDE DEF LogTells, Ahead, Late
    <2> QED BY <2>1, <2>2, <2>5, <2>6 DEF NameIsTold
  <1>16. ASSUME NEW o \in TenantIds, NEW t \in TenantIds, o # t PROVE ShareIsTold(o, t)
    <2>1. \A r \in TenantRequests : ~HasTold(req[r], o, t)
      BY <1>6 DEF HasTold
    <2>2. Registry!ShareOf(o, t, told[o]) = {} /\ Registry!ShareOf(o, t, told[t]) = {}
      BY <1>14 DEF Registry!ShareOf
    <2>3. PICK same : same = [i \in {} |-> 0]
      OBVIOUS
    <2>4. Matches(o, t, told[o], told[t], same)
      BY <2>2, <2>3 DEF Matches
    <2>5. AllShared(o, t, told[o], told[t])
      BY <2>2, <2>4 DEF AllShared
    <2> HIDE DEF HasTold, AllShared
    <2> QED BY <2>1, <2>5 DEF ShareIsTold
  <1>17. LogsInv
    BY <1>13, <1>15, <1>16 DEF LogsInv
  <1>18. TenantsInv
    BY <1>7, <1>8, <1>9, <1>10, <1>11 DEF TenantsInv
  <1> QED BY <1>3, <1>12, <1>17, <1>18 DEF ServerInv

(* What the invariant says of the logs, in the words of the module.         *)
LEMMA LastOfNames ==
    ASSUME NEW b \in Nat, NEW S \in SUBSET (1..b), S # {}
    PROVE  \E i \in S : IsLast(S, i) /\ Registry!Max(S) = i
  <1>1. PICK T : T = {b - n : n \in S}
    OBVIOUS
  <1>2. T \in SUBSET Nat /\ T # {}
    <2>1. \A n \in S : b - n \in Nat
      OBVIOUS
    <2> QED BY <1>1, <2>1
  <1> DEFINE R == OpToRel(<, Nat)
  <1>3. IsWellFoundedOn(R, Nat)
    BY NatLessThanWellFounded
  <1>4. \A x, y \in Nat : x < y => <<x, y>> \in R
    BY DEF OpToRel
  <1> HIDE DEF R
  <1>5. PICK m \in T : \A n \in T : ~ (<<n, m>> \in R)
    BY <1>2, <1>3, WFMin
  <1>6. \A n \in T : ~ (n < m)
    BY <1>2, <1>4, <1>5
  <1>7. PICK g \in S : m = b - g
    BY <1>1
  <1>8. \A n \in S : n <= g /\ g >= n
    <2> SUFFICES ASSUME NEW n \in S PROVE n <= g /\ g >= n
      OBVIOUS
    <2>1. b - n \in T
      BY <1>1
    <2>2. ~(b - n < b - g)
      BY <1>6, <1>7, <2>1
    <2> QED BY <2>2
  <1>9. \A x \in S : (\A y \in S : x >= y) => x = g
    BY <1>8
  <1>10. Registry!Max(S) = g
    BY <1>8, <1>9 DEF Registry!Max
  <1> QED BY <1>8, <1>10 DEF IsLast

LEMMA TellsIsSays ==
    ASSUME LogsTyped, NEW t \in TenantIds, NEW n \in Nat, NEW name, TellsName(told[t], t, n, name)
    PROVE  name = Registry!Says(t, "name", First, n)
  <1>1. PICK s : s = told[t]
    OBVIOUS
  <1>2. s \in Seq(Told) /\ Len(s) \in Nat /\ DOMAIN s = 1..Len(s)
    BY <1>1 DEF LogsTyped
  <1>3. PICK S : S = NamesUpTo(s, t, n)
    OBVIOUS
  <1>4. S = {i \in Registry!ChangesOf(t, "name") : i <= n}
    BY <1>1, <1>3 DEF NamesUpTo, NamesOf, Registry!ChangesOf
  <1>5. S \in SUBSET (1..Len(s))
    BY <1>2, <1>3 DEF NamesUpTo, NamesOf
  <1>6. CASE S = {}
    BY <1>1, <1>3, <1>4, <1>6 DEF TellsName, Registry!Says
  <1>7. CASE S # {}
    <2>1. PICK i \in S : IsLast(S, i) /\ Registry!Max(S) = i
      BY <1>2, <1>5, <1>7, LastOfNames
    <2>2. name = s[i].new
      BY <1>1, <1>3, <2>1 DEF TellsName
    <2>3. Registry!Says(t, "name", First, n) = told[t][Registry!Max(S)].new
      BY <1>4, <1>7 DEF Registry!Says
    <2> QED BY <1>1, <2>1, <2>2, <2>3
  <1> QED BY <1>6, <1>7

LEMMA NameIsSaid ==
    ASSUME ServerInv, Registry!Files, NEW t \in TenantIds
    PROVE  Registry!Told(t, "name", First)
  <1>1. LogsTyped /\ NameIsTold(t) /\ TenantsInv
    BY DEF ServerInv, LogsInv
  <1>2. told[t] \in Seq(Told) /\ Len(told[t]) \in Nat /\ DOMAIN told[t] = 1..Len(told[t])
    BY <1>1 DEF LogsTyped
  <1>3. Registry!ChangesOf(t, "name") = NamesOf(told[t], t)
    BY DEF Registry!ChangesOf, NamesOf
  <1>4. ASSUME NEW i \in NamesOf(told[t], t)
        PROVE  told[t][i].old = Registry!Says(t, "name", First, i - 1)
    <2>1. PICK n, old : n = i - 1 /\ old = told[t][i].old
      OBVIOUS
    <2>2. n \in Nat
      BY <1>2, <2>1 DEF NamesOf
    <2>3. TellsName(told[t], t, n, old)
      BY <1>1, <2>1 DEF NameIsTold, NamesFollow
    <2> QED BY <1>1, <2>1, <2>2, <2>3, TellsIsSays
  <1>5. ASSUME tenantRow[t] # None, \A r \in TenantRequests : ~Registry!InTenant(r)
        PROVE  tenantRow[t]["name"] = Registry!Says(t, "name", First, Len(told[t]))
    <2>1. \A r \in TenantRequests : ~Ahead(req[r], t) /\ ~Late(req[r], t)
      BY <1>5 DEF Ahead, Late, Registry!InTenant
    <2>2. PICK name : name = tenantRow[t].name
      OBVIOUS
    <2>3. LogTells(t, name)
      BY <1>1, <1>5, <2>1, <2>2 DEF NameIsTold
    <2> QED BY <1>1, <1>2, <2>2, <2>3, TellsIsSays DEF LogTells
  <1> QED BY <1>3, <1>4, <1>5 DEF Registry!Told

LEMMA ShareIsThere ==
    ASSUME ServerInv, Registry!Files, NEW o \in TenantIds, NEW t \in TenantIds, o # t
    PROVE  Registry!Shares(o, t, \A r \in TenantRequests : ~Registry!InTenant(r))
  <1>1. LogsTyped /\ ShareIsTold(o, t)
    BY DEF ServerInv, LogsInv
  <1>2. PICK a, b, A, B : /\ a = told[o] /\ b = told[t]
                          /\ A = Registry!ShareOf(o, t, a) /\ B = Registry!ShareOf(o, t, b)
    OBVIOUS
  <1>3. CASE \A r \in TenantRequests : ~HasTold(req[r], o, t)
    <2>1. AllShared(o, t, a, b)
      BY <1>1, <1>2, <1>3 DEF ShareIsTold
    <2>2. PICK same : Matches(o, t, a, b, same) /\ \A k \in B : \E i \in DOMAIN same : k = same[i]
      BY <1>2, <2>1 DEF AllShared
    <2> QED BY <1>2, <2>2 DEF Registry!Shares, Matches
  <1>4. CASE \E r \in TenantRequests : HasTold(req[r], o, t)
    <2>1. PICK r \in TenantRequests : HasTold(req[r], o, t)
      BY <1>4
    <2>2. PICK e : e = EntryOf(req[r])
      OBVIOUS
    <2>3. AllButLast(o, t, a, b, e)
      BY <1>1, <1>2, <2>1, <2>2 DEF ShareIsTold
    <2>4. PICK same, p :
             /\ Matches(o, t, a, b, same) /\ IsLast(B, p)
             /\ \A k \in B : k = p <=> ~\E i \in DOMAIN same : k = same[i]
      BY <1>2, <2>3 DEF AllButLast
    <2>5. Registry!InTenant(r)
      BY <2>1 DEF HasTold, Registry!InTenant
    <2>6. B \subseteq 1..Len(b) /\ Len(b) \in Nat
      BY <1>1, <1>2 DEF LogsTyped, Registry!ShareOf
    <2>7. same \in [A -> B]
      BY <1>2, <2>4 DEF Matches
    <2>8. ASSUME NEW k \in B, NEW i \in DOMAIN same, k < same[i]
          PROVE  \E j \in DOMAIN same : k = same[j]
      <3>1. PICK v : v = same[i]
        OBVIOUS
      <3>2. v \in B /\ v <= p /\ p \in B /\ k < v
        BY <2>4, <2>7, <2>8, <3>1 DEF IsLast
      <3>3. k \in Nat /\ v \in Nat /\ p \in Nat
        BY <2>6, <3>2
      <3>4. k # p
        BY <3>2, <3>3
      <3> QED BY <2>4, <3>4
    <2>9. Registry!Shares(o, t, FALSE)
      BY <1>2, <2>4, <2>7, <2>8 DEF Registry!Shares, Matches
    <2>10. (\A q \in TenantRequests : ~Registry!InTenant(q)) = FALSE
      BY <2>5
    <2> QED BY <2>9, <2>10
  <1> QED BY <1>3, <1>4

LEMMA ServerAgrees == ServerInv => TenantsAndLogsAgree
  <1> SUFFICES ASSUME ServerInv PROVE TenantsAndLogsAgree
    OBVIOUS
  <1>1. TenantsInv
    BY DEF ServerInv
  <1>2. Registry!TenantsAreWhole
    <2>1. server = "up" => tenantRow[Root] # None
      BY <1>1 DEF TenantsInv, ServerBoots
    <2>2. ASSUME NEW t \in TenantIds
          PROVE  /\ tenantRow[t] # None => t \in tables
                 /\ tenantRow[t] # None /\ tenantRow[t].init =>
                      \/ t \in founder /\ keys[t] = 1
                      \/ \E r \in TenantRequests :
                            req[r].pc = "closing" /\ req[r].op.kind = "init" /\ req[r].op.at = t
      <3>1. Founded(t)
        BY <1>1 DEF TenantsInv
      <3>2. tenantRow[t] # None => t \in tables
        BY <1>1 DEF TenantsInv, ServerBoots
      <3> QED BY <3>1, <3>2 DEF Founded, Initialized, Claims
    <2> QED BY <2>1, <2>2 DEF Registry!TenantsAreWhole
  <1>3. Registry!LogsAgree
    BY NameIsSaid, ShareIsThere DEF Registry!LogsAgree
  <1> QED BY <1>2, <1>3 DEF TenantsAndLogsAgree

LEMMA ServerStepsHold ==
    ASSUME MaxSplits = 0, ServerInv, [ServerNext]_<<vars, registryVars>>
    PROVE  ServerInv'
  <1>1. CASE Registry!Next
    BY <1>1, ServerSteps
  <1>2. CASE UNCHANGED registryVars
    <2>1. UNCHANGED <<backend, server, registry, tenantRow, tables, founder, keys, told, req, splits>>
      BY <1>2 DEF registryVars
    <2>2. RegistryTyped' <=> RegistryTyped
      BY <2>1 DEF RegistryTyped
    <2>3. RequestsHold' <=> RequestsHold
      BY <2>1 DEF RequestsHold, Holds
    <2>4. RequestsAreApart' <=> RequestsAreApart
      BY <2>1 DEF RequestsAreApart, Apart, Registry!Files
    <2>5. ServerBoots' <=> ServerBoots
      BY <2>1 DEF ServerBoots
    <2>6. ASSUME NEW t \in TenantIds PROVE Founded(t)' <=> Founded(t)
      BY <2>1 DEF Founded, Claims, Initialized
    <2>7. TenantsInv' <=> TenantsInv
      BY <2>2, <2>3, <2>4, <2>5, <2>6 DEF TenantsInv
    <2>8. (LogsTyped' <=> LogsTyped) /\ (SeenIsThere' <=> SeenIsThere) /\ (NoneIsBehind' <=> NoneIsBehind)
      BY <2>1 DEF LogsTyped, SeenIsThere, NoneIsBehind
    <2>9. ASSUME LogsTyped, LogsInv, NEW t \in TenantIds PROVE NameIsTold(t)'
      BY <2>1, <2>9, NameStays DEF LogsInv
    <2>10. ASSUME LogsTyped, LogsInv, NEW o \in TenantIds, NEW t \in TenantIds, o # t
           PROVE  ShareIsTold(o, t)'
      BY <2>1, <2>10, ShareStays DEF LogsInv
    <2>11. LogsTyped /\ LogsInv => LogsInv'
      BY <2>8, <2>9, <2>10 DEF LogsInv
    <2>12. Registry!Files' <=> Registry!Files
      BY <2>1 DEF Registry!Files
    <2> QED BY <2>1, <2>7, <2>8, <2>11, <2>12 DEF ServerInv
  <1> QED BY <1>1, <1>2 DEF ServerNext

(* Whatever requests create, initialize, rename and delete tenants, and     *)
(* wherever they are cut short, but between two commits of one unit: a     *)
(* tenant that says it is initialized has its one founder, and on sqlite    *)
(* both logs tell the display names that the registry has had, in order.    *)
THEOREM TenantsHold ==
    ASSUME MaxSplits = 0
    PROVE  ServerSpec => []TenantsAndLogsAgree
  <1>1. ServerInit => ServerInv
    BY StartsWhole DEF ServerInit
  <1>2. ServerInv /\ [ServerNext]_<<vars, registryVars>> => ServerInv'
    BY ServerStepsHold
  <1>3. ServerInv => TenantsAndLogsAgree
    BY ServerAgrees
  <1> QED BY <1>1, <1>2, <1>3, PTL DEF ServerSpec
=============================================================================
