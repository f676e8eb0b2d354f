------------------------- MODULE PeriodLedgerProofs -------------------------
(***************************************************************************)
(* Proofs about PeriodLedger for every set of organizations, companies,    *)
(* closes, work, evidence and reasons.                                     *)
(***************************************************************************)
EXTENDS PeriodLedger, TLAPS

\* A close index entry names a lock of that close.
IndexNamesOwnLock ==
  \A c \in Closes : lockIndex[c] # None => lockIndex[c][1] = c

\* The inductive invariant: the lock documents, the lock-state documents and
\* the close index only make sense together.
LockInv ==
  /\ TypeOK
  /\ LockStateMatchesLocks
  /\ NoOverlappingLocks
  /\ HeldLockIsIndexed
  /\ IndexNamesOwnLock

-----------------------------------------------------------------------------

\* The code's comparison of two inclusive ranges is exactly "they share a day".
LEMMA OverlapIsSharedDay ==
  ASSUME NEW a, NEW b,
         a.start \in Int, a.end \in Int, a.start <= a.end,
         b.start \in Int, b.end \in Int, b.start <= b.end
  PROVE  RangesOverlap(a, b) <=> (a.start .. a.end) \cap (b.start .. b.end) # {}
<1>1. ASSUME RangesOverlap(a, b)
      PROVE  (a.start .. a.end) \cap (b.start .. b.end) # {}
  <2>1. CASE a.start <= b.start
    <3>1. b.start \in (a.start .. a.end) /\ b.start \in (b.start .. b.end)
      BY <1>1, <2>1 DEF RangesOverlap
    <3>2. QED  BY <3>1
  <2>2. CASE ~(a.start <= b.start)
    <3>1. a.start \in (a.start .. a.end) /\ a.start \in (b.start .. b.end)
      BY <1>1, <2>2 DEF RangesOverlap
    <3>2. QED  BY <3>1
  <2>3. QED  BY <2>1, <2>2
<1>2. ASSUME NEW d, d \in (a.start .. a.end), d \in (b.start .. b.end)
      PROVE  RangesOverlap(a, b)
  BY <1>2 DEF RangesOverlap
<1>3. QED  BY <1>1, <1>2

LEMMA CollidingCloses ==
  ASSUME NEW c \in Closes, NEW d \in Closes
  PROVE  Collide(c, d) <=> c.company = d.company /\ RangesOverlap(c, d)
BY OverlapIsSharedDay, LedgerAssumption DEF Collide

LEMMA CollidingWork ==
  ASSUME NEW w \in Works, NEW d \in Closes
  PROVE  Collide(w, d) <=> w.company = d.company /\ RangesOverlap(w, d)
BY OverlapIsSharedDay, LedgerAssumption DEF Collide

LEMMA LockIdParts ==
  ASSUME NEW l \in LockIds
  PROVE  l[1] \in Closes /\ l[2] \in Hashes /\ l = <<l[1], l[2]>>
         /\ l[1].company \in Companies /\ l # None
BY LedgerAssumption DEF LockIds

\* The two ways a lock document changes.

\* Taking a new lock, the only branch of CommitPeriodLock that writes.
NewLock(o, c, h) ==
  /\ LockIsNew(o, c, h)
  /\ lock' = [lock EXCEPT ![<<c, h>>] = [status |-> "LOCKED", org |-> o]]
  /\ lockIndex' = [lockIndex EXCEPT ![c] = <<c, h>>]
  /\ activeLocks' = [activeLocks EXCEPT ![c.company] = @ \cup {<<c, h>>}]

\* Reopening the lock a close holds, the branch of ReopenPeriodLock that writes.
Reopened(o, c, reason) ==
  /\ ReopenIsNew(o, c, reason)
  /\ lock' = MarkReopened(lockIndex[c])
  /\ activeLocks' = RemainingLocks(c.company, lockIndex[c])
  /\ UNCHANGED lockIndex

\* Every step takes one lock, reopens one lock or leaves all lock documents alone.
LEMMA StepsOnLocks ==
  ASSUME [Next]_ledgerVars
  PROVE  \/ \E o \in Orgs, c \in Closes, h \in Hashes : NewLock(o, c, h)
         \/ \E o \in Orgs, c \in Closes, r \in Reasons : Reopened(o, c, r)
         \/ UNCHANGED <<lock, lockIndex, activeLocks>>
<1> USE DEF ledgerVars
<1>1. CASE UNCHANGED ledgerVars
  BY <1>1
<1>2. CASE \E o \in Orgs, m \in Companies : RegisterProductionCompany(o, m)
  BY <1>2 DEF RegisterProductionCompany
<1>3. CASE \E o \in Orgs, w \in Works : \/ PersistPayrollRun(o, w) \/ PersistBookkeepingBatch(o, w)
                                      \/ PersistFinanceCycle(o, w)
  BY <1>3 DEF PersistPayrollRun, PersistBookkeepingBatch, PersistFinanceCycle, PersistWork
<1>4. CASE \E o \in Orgs, c \in Closes, h \in Hashes : RecordCloseApproval(o, c, h)
  BY <1>4 DEF RecordCloseApproval
<1>5. CASE \E o \in Orgs, c \in Closes, h \in Hashes : CommitPeriodLock(o, c, h)
  BY <1>5 DEF CommitPeriodLock, NewLock
<1>6. CASE \E o \in Orgs, c \in Closes, r \in Reasons : ReopenPeriodLock(o, c, r)
  BY <1>6 DEF ReopenPeriodLock, Reopened
<1>7. QED  BY <1>1, <1>2, <1>3, <1>4, <1>5, <1>6 DEF Next

-----------------------------------------------------------------------------
(* Type correctness *)

LEMMA TypeOKInit == Init => TypeOK
BY LedgerAssumption DEF Init, TypeOK, Statuses, LockIds

LEMMA TypeOKStep == TypeOK /\ [Next]_ledgerVars => TypeOK'
<1> SUFFICES ASSUME TypeOK, [Next]_ledgerVars
             PROVE  TypeOK'
  OBVIOUS
<1> USE DEF TypeOK, ledgerVars
<1>1. ASSUME NEW o \in Orgs, NEW m \in Companies, RegisterProductionCompany(o, m)
      PROVE  TypeOK'
  BY <1>1 DEF RegisterProductionCompany
<1>2. ASSUME NEW o \in Orgs, NEW w \in Works,
             PersistPayrollRun(o, w) \/ PersistBookkeepingBatch(o, w)
      PROVE  TypeOK'
  BY <1>2 DEF PersistPayrollRun, PersistBookkeepingBatch, PersistWork
<1>3. ASSUME NEW o \in Orgs, NEW w \in Works, PersistFinanceCycle(o, w)
      PROVE  TypeOK'
  BY <1>3, LedgerAssumption DEF PersistFinanceCycle, PersistWork
<1>4. ASSUME NEW o \in Orgs, NEW c \in Closes, NEW h \in Hashes,
             RecordCloseApproval(o, c, h)
      PROVE  TypeOK'
  BY <1>4 DEF RecordCloseApproval, LockIds
<1>5. ASSUME NEW o \in Orgs, NEW c \in Closes, NEW h \in Hashes,
             CommitPeriodLock(o, c, h)
      PROVE  TypeOK'
  <2>1. CASE UNCHANGED ledgerVars
    BY <2>1
  <2>2. CASE ~UNCHANGED ledgerVars
    <3>1. <<c, h>> \in LockIds /\ c.company \in Companies
      BY LedgerAssumption DEF LockIds
    <3>2. lock' \in [LockIds -> [status : Statuses, org : Orgs \cup {None}]]
      <4>1. lock' = [lock EXCEPT ![<<c, h>>] = [status |-> "LOCKED", org |-> o]]
        BY <1>5, <2>2 DEF CommitPeriodLock
      <4>2. [status |-> "LOCKED", org |-> o] \in [status : Statuses, org : Orgs \cup {None}]
        BY DEF Statuses
      <4>3. QED  BY <3>1, <4>1, <4>2
    <3>3. lockIndex' \in [Closes -> LockIds \cup {None}]
      BY <1>5, <2>2, <3>1 DEF CommitPeriodLock
    <3>4. activeLocks' \in [Companies -> SUBSET LockIds]
      <4>1. activeLocks' = [activeLocks EXCEPT ![c.company] = @ \cup {<<c, h>>}]
        BY <1>5, <2>2 DEF CommitPeriodLock
      <4>2. activeLocks[c.company] \cup {<<c, h>>} \subseteq LockIds
        BY <3>1
      <4>3. QED  BY <3>1, <4>1, <4>2
    <3>5. QED
      BY <1>5, <2>2, <3>2, <3>3, <3>4 DEF CommitPeriodLock
  <2>3. QED  BY <2>1, <2>2
<1>6. ASSUME NEW o \in Orgs, NEW c \in Closes, NEW r \in Reasons,
             ReopenPeriodLock(o, c, r)
      PROVE  TypeOK'
  BY <1>6, LedgerAssumption
  DEF ReopenPeriodLock, ReopenIsNew, MarkReopened, RemainingLocks, Statuses
<1>7. QED
  BY <1>1, <1>2, <1>3, <1>4, <1>5, <1>6 DEF Next

\* Every ledger document keeps its shape in every reachable state.
THEOREM LedgerTypeCorrect == Spec => []TypeOK
BY TypeOKInit, TypeOKStep, PTL DEF Spec

-----------------------------------------------------------------------------
(* The lock documents, the lock state and the index *)

LEMMA LockInvInit == Init => LockInv
<1> SUFFICES ASSUME Init PROVE LockInv
  OBVIOUS
<1>1. TypeOK
  BY TypeOKInit
<1>2. \A l \in LockIds : ~IsLocked(l)
  BY DEF Init, IsLocked
<1>3. LockStateMatchesLocks
  BY <1>2 DEF Init, LockStateMatchesLocks
<1>4. NoOverlappingLocks /\ HeldLockIsIndexed /\ IndexNamesOwnLock
  BY <1>2 DEF Init, NoOverlappingLocks, HeldLockIsIndexed, IndexNamesOwnLock
<1>5. QED  BY <1>1, <1>3, <1>4 DEF LockInv

\* A new lock collides with no lock held: Blocking reads the lock-state document,
\* which lists every LOCKED lock of the company.
LEMMA NewLockIsFree ==
  ASSUME LockInv, NEW o \in Orgs, NEW c \in Closes, NEW h \in Hashes,
         NewLock(o, c, h)
  PROVE  \A l \in LockIds : IsLocked(l) => ~Collide(c, l[1]) /\ l[1] # c
<1> SUFFICES ASSUME NEW l \in LockIds, IsLocked(l)
             PROVE  ~Collide(c, l[1]) /\ l[1] # c
  OBVIOUS
<1>1. l[1] \in Closes /\ l[1].company \in Companies
  BY LockIdParts
<1>2. l \in activeLocks[l[1].company]
  BY <1>1 DEF LockInv, LockStateMatchesLocks
<1>3. ~(c.company = l[1].company /\ RangesOverlap(c, l[1]))
  BY <1>2 DEF NewLock, LockIsNew, Blocking
<1>4. ~Collide(c, l[1])
  BY <1>1, <1>3, CollidingCloses
<1>5. RangesOverlap(c, c)
  BY LedgerAssumption DEF RangesOverlap
<1>6. QED  BY <1>3, <1>4, <1>5

LEMMA LockInvNewLock ==
  ASSUME LockInv, TypeOK', NEW o \in Orgs, NEW c \in Closes, NEW h \in Hashes,
         NewLock(o, c, h)
  PROVE  LockInv'
<1> DEFINE n == <<c, h>>
<1>1. n \in LockIds /\ n[1] = c /\ c.company \in Companies
  BY LedgerAssumption DEF LockIds
<1>2. \A l \in LockIds : IsLocked(l)' <=> IsLocked(l) \/ l = n
  BY <1>1 DEF NewLock, IsLocked, LockInv, TypeOK
<1>3. LockStateMatchesLocks'
  <2> SUFFICES ASSUME NEW m \in Companies
               PROVE  activeLocks'[m] = {l \in LockIds : l[1].company = m /\ IsLocked(l)'}
    BY DEF LockStateMatchesLocks, IsLocked
  <2>1. activeLocks[m] = {l \in LockIds : l[1].company = m /\ IsLocked(l)}
    BY DEF LockInv, LockStateMatchesLocks
  <2>2. activeLocks'[m] = activeLocks[m] \cup (IF m = c.company THEN {n} ELSE {})
    BY <1>1 DEF NewLock, LockInv, TypeOK
  <2>3. QED  BY <1>1, <1>2, <2>1, <2>2
<1>4. NoOverlappingLocks'
  <2> SUFFICES ASSUME NEW k \in LockIds, NEW l \in LockIds,
                      IsLocked(k)', IsLocked(l)', k # l
               PROVE  ~Collide(k[1], l[1])
    BY DEF NoOverlappingLocks, IsLocked
  <2>1. k[1] \in Closes /\ l[1] \in Closes
    BY LockIdParts
  <2>2. CASE k # n /\ l # n
    BY <1>2, <2>2 DEF LockInv, NoOverlappingLocks
  <2>3. CASE k = n
    BY <1>1, <1>2, <2>3, NewLockIsFree
  <2>4. CASE l = n
    <3>1. ~Collide(c, k[1])
      BY <1>1, <1>2, <2>4, NewLockIsFree
    <3>2. QED
      BY <1>1, <2>1, <2>4, <3>1 DEF Collide
  <2>5. QED  BY <2>2, <2>3, <2>4
<1>5. HeldLockIsIndexed'
  <2> SUFFICES ASSUME NEW l \in LockIds, IsLocked(l)'
               PROVE  lockIndex'[l[1]] = l
    BY DEF HeldLockIsIndexed, IsLocked
  <2>1. CASE l = n
    BY <1>1, <2>1 DEF NewLock, LockInv, TypeOK
  <2>2. CASE l # n
    <3>1. IsLocked(l) /\ l[1] # c /\ l[1] \in Closes
      BY <1>2, <2>2, NewLockIsFree, LockIdParts
    <3>2. QED
      BY <3>1 DEF NewLock, LockInv, TypeOK, HeldLockIsIndexed
  <2>3. QED  BY <2>1, <2>2
<1>6. IndexNamesOwnLock'
  BY <1>1 DEF IndexNamesOwnLock, NewLock, LockInv, TypeOK
<1>7. QED  BY <1>3, <1>4, <1>5, <1>6 DEF LockInv

LEMMA LockInvReopened ==
  ASSUME LockInv, TypeOK', NEW o \in Orgs, NEW c \in Closes, NEW r \in Reasons,
         Reopened(o, c, r)
  PROVE  LockInv'
<1> DEFINE n == lockIndex[c]
<1>1. n \in LockIds /\ n[1] = c /\ c.company \in Companies /\ IsLocked(n)
  BY LedgerAssumption
  DEF Reopened, ReopenIsNew, LockInv, TypeOK, IndexNamesOwnLock, IsLocked
<1>2. \A l \in LockIds : IsLocked(l)' <=> IsLocked(l) /\ l # n
  BY <1>1 DEF Reopened, MarkReopened, IsLocked, LockInv, TypeOK
<1>3. LockStateMatchesLocks'
  <2> SUFFICES ASSUME NEW m \in Companies
               PROVE  activeLocks'[m] = {l \in LockIds : l[1].company = m /\ IsLocked(l)'}
    BY DEF LockStateMatchesLocks, IsLocked
  <2>1. activeLocks[m] = {l \in LockIds : l[1].company = m /\ IsLocked(l)}
    BY DEF LockInv, LockStateMatchesLocks
  <2>2. activeLocks'[m] = activeLocks[m] \ (IF m = c.company THEN {n} ELSE {})
    BY <1>1 DEF Reopened, RemainingLocks, LockInv, TypeOK
  <2>3. QED  BY <1>1, <1>2, <2>1, <2>2
<1>4. NoOverlappingLocks'
  BY <1>2 DEF LockInv, NoOverlappingLocks, IsLocked
<1>5. HeldLockIsIndexed'
  BY <1>2 DEF LockInv, HeldLockIsIndexed, IsLocked, Reopened
<1>6. IndexNamesOwnLock'
  BY DEF LockInv, IndexNamesOwnLock, Reopened
<1>7. QED  BY <1>3, <1>4, <1>5, <1>6 DEF LockInv

LEMMA LockInvStep == LockInv /\ [Next]_ledgerVars => LockInv'
<1> SUFFICES ASSUME LockInv, [Next]_ledgerVars
             PROVE  LockInv'
  OBVIOUS
<1>1. TypeOK'
  BY TypeOKStep DEF LockInv
<1>2. CASE UNCHANGED <<lock, lockIndex, activeLocks>>
  BY <1>1, <1>2
  DEF LockInv, LockStateMatchesLocks, NoOverlappingLocks, HeldLockIsIndexed,
      IndexNamesOwnLock, IsLocked
<1>3. QED
  BY <1>1, <1>2, StepsOnLocks, LockInvNewLock, LockInvReopened

THEOREM LedgerLockInv == Spec => []LockInv
BY LockInvInit, LockInvStep, PTL DEF Spec

\* Two LOCKED periods of one company never share a day, in any deployment.
THEOREM LocksNeverOverlap == Spec => []NoOverlappingLocks
BY LedgerLockInv, PTL DEF LockInv

\* The lock-state document every transaction relies on is always exact.
THEOREM LockStateIsExact == Spec => []LockStateMatchesLocks
BY LedgerLockInv, PTL DEF LockInv

\* The lock a close holds can always be found by a reopen.
THEOREM HeldLocksAreReachable == Spec => []HeldLockIsIndexed
BY LedgerLockInv, PTL DEF LockInv

\* Locks, lock state and close index agree in every deployment.
THEOREM LockDocumentsAlwaysAgree == Spec => []LockDocumentsAgree
<1>1. LockStateMatchesLocks /\ HeldLockIsIndexed => LockDocumentsAgree
  BY DEF LockDocumentsAgree
<1>2. QED
  BY <1>1, LockStateIsExact, HeldLocksAreReachable, PTL

-----------------------------------------------------------------------------
(* What no step may do *)

LEMMA WorkStep ==
  ASSUME [Next]_ledgerVars, NEW w \in Works, recorded'[w] # recorded[w], TypeOK
  PROVE  \E o \in Orgs : PersistWork(o, w)
<1>1. PICK o \in Orgs, v \in Works : PersistWork(o, v)
  BY DEF Next, ledgerVars, RegisterProductionCompany, PersistPayrollRun,
         PersistBookkeepingBatch, PersistFinanceCycle, RecordCloseApproval,
         CommitPeriodLock, ReopenPeriodLock
<1>2. v = w
  BY <1>1 DEF PersistWork, TypeOK
<1>3. QED  BY <1>1, <1>2

LEMMA FrozenStep ==
  ASSUME LockInv, [Next]_ledgerVars
  PROVE  \A w \in Works : recorded'[w] # recorded[w] =>
           \A l \in LockIds :
             Collide(w, l[1]) => ~IsLocked(l) /\ ~IsLocked(l)'
<1> SUFFICES ASSUME NEW w \in Works, recorded'[w] # recorded[w],
                    NEW l \in LockIds, Collide(w, l[1])
             PROVE  ~IsLocked(l) /\ ~IsLocked(l)'
  OBVIOUS
<1>1. PICK o \in Orgs : PersistWork(o, w)
  BY WorkStep DEF LockInv
<1>2. l[1] \in Closes /\ l[1].company \in Companies
  BY LockIdParts
<1>3. w.company = l[1].company /\ RangesOverlap(w, l[1])
  BY <1>2, CollidingWork
<1>4. l \notin activeLocks[l[1].company]
  BY <1>1, <1>3 DEF PersistWork, Blocking
<1>5. ~IsLocked(l)
  BY <1>2, <1>4 DEF LockInv, LockStateMatchesLocks
<1>6. QED
  BY <1>1, <1>5 DEF PersistWork, IsLocked

\* The work of a locked period is frozen: no step of any behaviour records work
\* on a day some lock of the company covers.
THEOREM LockedWorkStaysFrozen == Spec => LockedWorkIsFrozen
<1>1. LockInv /\ [Next]_ledgerVars =>
        [\A w \in Works : recorded'[w] # recorded[w] =>
           \A l \in LockIds :
             Collide(w, l[1]) => ~IsLocked(l) /\ ~IsLocked(l)']_ledgerVars
  BY FrozenStep
<1>2. QED
  BY <1>1, LedgerLockInv, PTL DEF Spec, LockedWorkIsFrozen

LEMMA ForwardStep ==
  ASSUME LockInv, [Next]_ledgerVars
  PROVE  \A l \in LockIds :
           lock'[l].status # lock[l].status =>
             <<lock[l].status, lock'[l].status>> \in
               {<<"ABSENT", "LOCKED">>, <<"LOCKED", "REOPENED">>}
<1> SUFFICES ASSUME NEW l \in LockIds, lock'[l].status # lock[l].status
             PROVE  <<lock[l].status, lock'[l].status>> \in
                      {<<"ABSENT", "LOCKED">>, <<"LOCKED", "REOPENED">>}
  OBVIOUS
<1>1. ASSUME NEW o \in Orgs, NEW c \in Closes, NEW h \in Hashes, NewLock(o, c, h)
      PROVE  lock[l].status = "ABSENT" /\ lock'[l].status = "LOCKED"
  <2>1. <<c, h>> \in LockIds
    BY DEF LockIds
  <2>2. l = <<c, h>>
    BY <1>1, <2>1 DEF NewLock, LockInv, TypeOK
  <2>3. QED
    BY <1>1, <2>1, <2>2 DEF NewLock, LockIsNew, LockInv, TypeOK
<1>2. ASSUME NEW o \in Orgs, NEW c \in Closes, NEW r \in Reasons, Reopened(o, c, r)
      PROVE  lock[l].status = "LOCKED" /\ lock'[l].status = "REOPENED"
  <2>1. lockIndex[c] \in LockIds
    BY <1>2 DEF Reopened, ReopenIsNew, LockInv, TypeOK
  <2>2. l = lockIndex[c]
    BY <1>2, <2>1 DEF Reopened, MarkReopened, LockInv, TypeOK
  <2>3. QED
    BY <1>2, <2>1, <2>2 DEF Reopened, ReopenIsNew, MarkReopened, LockInv, TypeOK
<1>3. QED
  BY <1>1, <1>2, StepsOnLocks

\* A lock document only moves from absent to LOCKED to REOPENED.
THEOREM LocksMoveForward == Spec => LockHistoryMovesForward
<1>1. LockInv /\ [Next]_ledgerVars =>
        [\A l \in LockIds :
           lock'[l].status # lock[l].status =>
             <<lock[l].status, lock'[l].status>> \in
               {<<"ABSENT", "LOCKED">>, <<"LOCKED", "REOPENED">>}]_ledgerVars
  BY ForwardStep
<1>2. QED
  BY <1>1, LedgerLockInv, PTL DEF Spec, LockHistoryMovesForward

-----------------------------------------------------------------------------
(* Approvals, reopen events and tenants *)

\* What the documents say about one another beyond the locks: the current
\* approval is an approval event, so is the evidence of every lock, a reopen
\* event belongs to a REOPENED lock, and documents carry the owner of their
\* company.
RecordInv ==
  /\ \A c \in Closes : approval[c] # None => <<c, approval[c]>> \in approvalEvents
  /\ LockedEvidenceWasApproved
  /\ ReopenIsOnRecord
  /\ TenantOwnsItsDocuments
  /\ \A l \in LockIds : lock[l].status # "ABSENT" => lock[l].org # None

LEMMA RecordInvInit == Init => RecordInv
BY LedgerAssumption
DEF Init, RecordInv, LockedEvidenceWasApproved, ReopenIsOnRecord,
    TenantOwnsItsDocuments, LockIds

\* Registration, work and approval leave locks and reopen events alone.
LEMMA RecordInvDocuments ==
  ASSUME TypeOK, RecordInv, [Next]_ledgerVars, UNCHANGED <<lock, reopenEvents>>
  PROVE  RecordInv'
<1>1. approvalEvents \subseteq approvalEvents'
  BY ZenonT(40) DEF Next, ledgerVars, RegisterProductionCompany, PersistPayrollRun,
         PersistBookkeepingBatch, PersistFinanceCycle, PersistWork,
         RecordCloseApproval, CommitPeriodLock, ReopenPeriodLock
<1>2. \A c \in Closes : approval'[c] # approval[c] => <<c, approval'[c]>> \in approvalEvents'
  <2> SUFFICES ASSUME NEW c \in Closes, approval'[c] # approval[c]
               PROVE  <<c, approval'[c]>> \in approvalEvents'
    OBVIOUS
  <2>1. PICK o \in Orgs, d \in Closes, h \in Hashes :
          RecordCloseApproval(o, d, h) /\ ~UNCHANGED ledgerVars
    BY ZenonT(40) DEF Next, ledgerVars, RegisterProductionCompany, PersistPayrollRun,
           PersistBookkeepingBatch, PersistFinanceCycle, PersistWork,
           CommitPeriodLock, ReopenPeriodLock
  <2>2. c = d /\ approval'[c] = h
    BY <2>1 DEF RecordCloseApproval, TypeOK
  <2>3. QED  BY <2>1, <2>2 DEF RecordCloseApproval
<1>3. \A m \in Companies : owner[m] # None => owner'[m] = owner[m]
  BY ZenonT(40) DEF Next, ledgerVars, RegisterProductionCompany, PersistPayrollRun,
         PersistBookkeepingBatch, PersistFinanceCycle, PersistWork,
         RecordCloseApproval, CommitPeriodLock, ReopenPeriodLock, TypeOK
<1>4. \A w \in Works : recorded'[w] # recorded[w] =>
        recorded'[w] = owner[w.company] /\ owner' = owner
  <2> SUFFICES ASSUME NEW w \in Works, recorded'[w] # recorded[w]
               PROVE  recorded'[w] = owner[w.company] /\ owner' = owner
    OBVIOUS
  <2>1. PICK o \in Orgs : PersistWork(o, w)
    BY WorkStep
  <2>2. QED  BY <2>1 DEF PersistWork, Registered, TypeOK
<1>5. (\A c \in Closes : approval[c] # None => <<c, approval[c]>> \in approvalEvents)'
  BY <1>1, <1>2 DEF RecordInv
<1>6. LockedEvidenceWasApproved'
  BY <1>1 DEF RecordInv, LockedEvidenceWasApproved
<1>7. ReopenIsOnRecord'
  BY DEF RecordInv, ReopenIsOnRecord
<1>8. TenantOwnsItsDocuments'
  <2>1. ASSUME NEW w \in Works, recorded'[w] # None
        PROVE  recorded'[w] = owner'[w.company]
    <3>1. w.company \in Companies
      BY LedgerAssumption
    <3>2. CASE recorded'[w] = recorded[w]
      BY <1>3, <2>1, <3>1, <3>2 DEF RecordInv, TenantOwnsItsDocuments
    <3>3. CASE recorded'[w] # recorded[w]
      BY <1>4, <3>3
    <3>4. QED  BY <3>2, <3>3
  <2>2. ASSUME NEW l \in LockIds, lock'[l].status # "ABSENT"
        PROVE  lock'[l].org = owner'[l[1].company]
    <3>1. l[1].company \in Companies
      BY LockIdParts
    <3>2. lock[l].org = owner[l[1].company] /\ lock[l].org # None
      BY <2>2 DEF RecordInv, TenantOwnsItsDocuments
    <3>3. QED  BY <1>3, <3>1, <3>2
  <2>3. QED  BY <2>1, <2>2 DEF TenantOwnsItsDocuments
<1>9. (\A l \in LockIds : lock[l].status # "ABSENT" => lock[l].org # None)'
  BY DEF RecordInv
<1>10. QED  BY <1>5, <1>6, <1>7, <1>8, <1>9 DEF RecordInv

LEMMA RecordInvCommit ==
  ASSUME TypeOK, RecordInv, NEW o \in Orgs, NEW c \in Closes, NEW h \in Hashes,
         CommitPeriodLock(o, c, h), ~UNCHANGED ledgerVars
  PROVE  RecordInv'
<1> DEFINE n == <<c, h>>
<1>1. n \in LockIds /\ n[1] = c
  BY DEF LockIds
<1>2. /\ owner[c.company] = o /\ approval[c] = h /\ lock[n].status = "ABSENT"
      /\ lock' = [lock EXCEPT ![n] = [status |-> "LOCKED", org |-> o]]
      /\ UNCHANGED <<owner, approval, approvalEvents, reopenEvents, recorded>>
  BY DEF CommitPeriodLock, LockIsNew, LockRequestValid, Registered
<1>3. \A l \in LockIds :
        lock'[l] = IF l = n THEN [status |-> "LOCKED", org |-> o] ELSE lock[l]
  BY <1>1, <1>2 DEF TypeOK
<1>4. LockedEvidenceWasApproved'
  <2>1. n \in approvalEvents
    BY <1>2, LedgerAssumption DEF RecordInv
  <2>2. QED
    BY <1>2, <1>3, <2>1 DEF RecordInv, LockedEvidenceWasApproved
<1>5. ReopenIsOnRecord'
  BY <1>1, <1>2, <1>3 DEF RecordInv, ReopenIsOnRecord
<1>6. TenantOwnsItsDocuments'
  <2>1. \A w \in Works : recorded'[w] # None => recorded'[w] = owner'[w.company]
    BY <1>2 DEF RecordInv, TenantOwnsItsDocuments
  <2>2. \A l \in LockIds : lock'[l].status # "ABSENT" => lock'[l].org = owner'[l[1].company]
    BY <1>1, <1>2, <1>3 DEF RecordInv, TenantOwnsItsDocuments
  <2>3. QED  BY <2>1, <2>2 DEF TenantOwnsItsDocuments
<1>7. (\A l \in LockIds : lock[l].status # "ABSENT" => lock[l].org # None)'
  BY <1>3, LedgerAssumption DEF RecordInv
<1>8. QED
  BY <1>2, <1>4, <1>5, <1>6, <1>7 DEF RecordInv

LEMMA RecordInvReopen ==
  ASSUME TypeOK, RecordInv, NEW o \in Orgs, NEW c \in Closes, NEW r \in Reasons,
         ReopenPeriodLock(o, c, r), ~UNCHANGED ledgerVars
  PROVE  RecordInv'
<1> DEFINE n == lockIndex[c]
<1>1. n \in LockIds /\ lock[n].status = "LOCKED"
  BY DEF ReopenPeriodLock, ReopenIsNew, TypeOK
<1>2. /\ lock' = MarkReopened(n)
      /\ reopenEvents' = reopenEvents \cup {<<n, r>>}
      /\ UNCHANGED <<owner, approval, approvalEvents, recorded>>
  BY DEF ReopenPeriodLock
<1>3. \A l \in LockIds :
        /\ lock'[l].status = IF l = n THEN "REOPENED" ELSE lock[l].status
        /\ lock'[l].org = lock[l].org
  BY <1>1, <1>2 DEF MarkReopened, TypeOK
<1>4. LockedEvidenceWasApproved'
  BY <1>1, <1>2, <1>3 DEF RecordInv, LockedEvidenceWasApproved
<1>5. ReopenIsOnRecord'
  BY <1>2, <1>3 DEF RecordInv, ReopenIsOnRecord
<1>6. TenantOwnsItsDocuments'
  BY <1>1, <1>2, <1>3 DEF RecordInv, TenantOwnsItsDocuments
<1>7. (\A l \in LockIds : lock[l].status # "ABSENT" => lock[l].org # None)'
  BY <1>1, <1>3 DEF RecordInv
<1>8. QED
  BY <1>2, <1>4, <1>5, <1>6, <1>7 DEF RecordInv

LEMMA RecordInvStep == TypeOK /\ RecordInv /\ [Next]_ledgerVars => RecordInv'
<1> SUFFICES ASSUME TypeOK, RecordInv, [Next]_ledgerVars
             PROVE  RecordInv'
  OBVIOUS
<1>1. CASE UNCHANGED <<lock, reopenEvents>>
  BY <1>1, RecordInvDocuments
<1>2. CASE ~UNCHANGED <<lock, reopenEvents>>
  <2>1. ~UNCHANGED ledgerVars
    BY <1>2 DEF ledgerVars
  <2>2. \/ \E o \in Orgs, c \in Closes, h \in Hashes : CommitPeriodLock(o, c, h)
        \/ \E o \in Orgs, c \in Closes, r \in Reasons : ReopenPeriodLock(o, c, r)
    BY <1>2, <2>1
    DEF Next, RegisterProductionCompany, PersistPayrollRun,
        PersistBookkeepingBatch, PersistFinanceCycle, PersistWork,
        RecordCloseApproval, ledgerVars
  <2>3. QED
    BY <2>1, <2>2, RecordInvCommit, RecordInvReopen
<1>3. QED  BY <1>1, <1>2

THEOREM LedgerRecordInv == Spec => []RecordInv
BY RecordInvInit, RecordInvStep, LedgerTypeCorrect, PTL DEF Spec

\* No lock was ever taken for evidence nobody approved.
THEOREM LocksRestOnApprovals == Spec => []LockedEvidenceWasApproved
BY LedgerRecordInv, PTL DEF RecordInv

\* A lock is REOPENED exactly when the event history says so.
THEOREM ReopensAreOnRecord == Spec => []ReopenIsOnRecord
BY LedgerRecordInv, PTL DEF RecordInv

\* The event collections justify every state a lock document is ever in.
THEOREM LocksAreOnRecord == Spec => []LockHistoryIsOnRecord
<1>1. LockedEvidenceWasApproved /\ ReopenIsOnRecord => LockHistoryIsOnRecord
  BY DEF LockHistoryIsOnRecord
<1>2. QED
  BY <1>1, LocksRestOnApprovals, ReopensAreOnRecord, PTL

\* Locks and work always belong to the organization that owns the company.
THEOREM TenantsOwnTheirDocuments == Spec => []TenantOwnsItsDocuments
BY LedgerRecordInv, PTL DEF RecordInv

-----------------------------------------------------------------------------
(* The ledger implements PeriodLocking *)

LEMMA AbstractInit == Init => Abstract!SpecInit
<1> SUFFICES ASSUME Init PROVE Abstract!SpecInit
  OBVIOUS
<1>1. \A c \in Closes, h \in Hashes : ~IsLocked(<<c, h>>)
  BY DEF Init, IsLocked, LockIds
<1>2. LockedCloses = {}
  BY <1>1 DEF LockedCloses
<1>3. RecordedWork = {}
  BY DEF Init, RecordedWork
<1>4. QED  BY <1>2, <1>3 DEF Abstract!SpecInit

LEMMA SameCollision ==
  ASSUME NEW a, NEW b
  PROVE  Abstract!Collide(a, b) <=> Collide(a, b)
BY DEF Abstract!Collide, Abstract!Days, Collide

LEMMA LockedCloseHasALock ==
  ASSUME NEW d \in LockedCloses
  PROVE  \E l \in LockIds : IsLocked(l) /\ l[1] = d
<1>1. PICK h \in Hashes : IsLocked(<<d, h>>)
  BY DEF LockedCloses
<1>2. <<d, h>> \in LockIds /\ <<d, h>>[1] = d
  BY DEF LockedCloses, LockIds
<1>3. QED  BY <1>1, <1>2

LEMMA NewLockIsAbstractLock ==
  ASSUME LockInv, NEW o \in Orgs, NEW c \in Closes, NEW h \in Hashes,
         NewLock(o, c, h), UNCHANGED recorded
  PROVE  Abstract!Lock(c)
<1> DEFINE n == <<c, h>>
<1>1. n \in LockIds
  BY DEF LockIds
<1>2. \A l \in LockIds : IsLocked(l)' <=> IsLocked(l) \/ l = n
  BY <1>1 DEF NewLock, IsLocked, LockInv, TypeOK
<1>3. \A d \in LockedCloses : ~Abstract!Collide(c, d)
  BY NewLockIsFree, LockedCloseHasALock, SameCollision
<1>4. LockedCloses' = LockedCloses \cup {c}
  BY <1>2 DEF LockedCloses, LockIds
<1>5. UNCHANGED RecordedWork
  BY DEF RecordedWork
<1>6. QED  BY <1>3, <1>4, <1>5 DEF Abstract!Lock

LEMMA ReopenedIsAbstractReopen ==
  ASSUME LockInv, NEW o \in Orgs, NEW c \in Closes, NEW r \in Reasons,
         Reopened(o, c, r), UNCHANGED recorded
  PROVE  Abstract!Reopen(c)
<1> DEFINE n == lockIndex[c]
<1>1. n \in LockIds /\ n[1] = c /\ IsLocked(n)
  BY DEF Reopened, ReopenIsNew, LockInv, TypeOK, IndexNamesOwnLock, IsLocked
<1>2. \A l \in LockIds : IsLocked(l)' <=> IsLocked(l) /\ l # n
  BY <1>1 DEF Reopened, MarkReopened, IsLocked, LockInv, TypeOK
<1>3. \A l \in LockIds : IsLocked(l) /\ l[1] = c => l = n
  BY DEF LockInv, HeldLockIsIndexed
<1>4. c \in LockedCloses
  BY <1>1, LockIdParts DEF LockedCloses
<1>5. LockedCloses' = LockedCloses \ {c}
  <2>1. \A d \in Closes, h \in Hashes :
          IsLocked(<<d, h>>)' <=> IsLocked(<<d, h>>) /\ d # c
    BY <1>1, <1>2, <1>3 DEF LockIds
  <2>2. QED  BY <2>1 DEF LockedCloses
<1>6. UNCHANGED RecordedWork
  BY DEF RecordedWork
<1>7. QED  BY <1>4, <1>5, <1>6 DEF Abstract!Reopen

LEMMA WorkIsAbstractBook ==
  ASSUME LockInv, [Next]_ledgerVars, NEW o \in Orgs, NEW w \in Works,
         PersistWork(o, w)
  PROVE  Abstract!Book(w)
<1>1. recorded'[w] # recorded[w] /\ UNCHANGED lock
  BY LedgerAssumption DEF PersistWork, LockInv, TypeOK
<1>2. \A l \in LockIds : IsLocked(l) => ~Collide(w, l[1])
  BY <1>1, FrozenStep
<1>3. \A d \in LockedCloses : ~Abstract!Collide(w, d)
  BY <1>2, LockedCloseHasALock, SameCollision
<1>4. RecordedWork' = RecordedWork \cup {w}
  BY LedgerAssumption DEF RecordedWork, PersistWork, LockInv, TypeOK
<1>5. UNCHANGED LockedCloses
  BY <1>1 DEF LockedCloses, IsLocked
<1>6. QED  BY <1>3, <1>4, <1>5 DEF Abstract!Book

LEMMA AbstractStep ==
  LockInv /\ [Next]_ledgerVars => [Abstract!SpecNext]_<<LockedCloses, RecordedWork>>
<1> SUFFICES ASSUME LockInv, [Next]_ledgerVars
             PROVE  [Abstract!SpecNext]_<<LockedCloses, RecordedWork>>
  OBVIOUS
<1>1. CASE UNCHANGED <<lock, recorded>>
  BY <1>1 DEF LockedCloses, RecordedWork, IsLocked
<1>2. CASE recorded' # recorded
  <2>1. PICK o \in Orgs, w \in Works : PersistWork(o, w)
    BY <1>2
    DEF Next, ledgerVars, RegisterProductionCompany, PersistPayrollRun,
        PersistBookkeepingBatch, PersistFinanceCycle, RecordCloseApproval,
        CommitPeriodLock, ReopenPeriodLock
  <2>2. QED  BY <2>1, WorkIsAbstractBook DEF Abstract!SpecNext
<1>3. CASE lock' # lock /\ recorded' = recorded
  BY <1>3, StepsOnLocks, NewLockIsAbstractLock, ReopenedIsAbstractReopen
  DEF Abstract!SpecNext
<1>4. QED  BY <1>1, <1>2, <1>3

\* Whatever its documents, indexes and events do, the ledger behaves as
\* PeriodLocking promises.
THEOREM LedgerImplementsPeriodLocking == Spec => ImplementsPeriodLocking
BY AbstractInit, AbstractStep, LedgerLockInv, PTL
DEF Spec, ImplementsPeriodLocking, Abstract!LockingSpec, Abstract!specVars

=============================================================================
