---------------------------- MODULE PeriodLedger ----------------------------
(***************************************************************************)
(* The authoritative Firestore ledger, lib/production-ledger.ts.  Every    *)
(* exported operation is one Firestore transaction: it reads its           *)
(* documents, may refuse, and commits all its writes or none, so each is   *)
(* one atomic action here.  A refused transaction changes nothing.         *)
(*                                                                         *)
(* Documents whose id is a hash of some key are indexed by that key.  The  *)
(* period-lock document, its snapshot, its PERIOD_LOCKED event and its     *)
(* audit event all have the key (close, evidence hash), are only ever      *)
(* created together and never deleted, so `lock' stands for the four.      *)
(***************************************************************************)
EXTENDS Integers

CONSTANTS
  Orgs,       \* customer organizations
  Companies,  \* the companies they own
  Closes,     \* monthly closes: records [company, start, end, ...]
  Works,      \* payroll runs, bookkeeping batches and finance cycles:
              \*   records [kind, company, start, end, fits, close, ...]
  Hashes,     \* SHA-256 fingerprints of close evidence (injective)
  Reasons,    \* texts given for a reopen
  None        \* an absent document or field

\* A close and a piece of work belong to one company and cover an inclusive
\* range of days (ISO dates compare like integers); a finance cycle carries
\* its monthly close.
ASSUME LedgerAssumption ==
  /\ \A c \in Closes : /\ c.company \in Companies
                       /\ c.start \in Int /\ c.end \in Int /\ c.start <= c.end
  /\ \A w \in Works : /\ w.company \in Companies
                      /\ w.start \in Int /\ w.end \in Int /\ w.start <= w.end
                      /\ w.fits \in BOOLEAN
                      /\ w.kind \in {"PAYROLL_RUN", "BOOKKEEPING_BATCH", "FINANCE_CYCLE"}
                      /\ w.kind = "FINANCE_CYCLE" => w.close \in Closes
  /\ None \notin Orgs \cup Hashes \cup (Closes \X Hashes)

VARIABLES
  owner,           \* finclose_prod_companies: company -> organization
  approval,        \* finclose_prod_close_approvals: close -> approved hash
  approvalEvents,  \* finclose_prod_close_approval_events: (close, hash)
  lock,            \* finclose_prod_period_locks: (close, hash) -> [status, org]
  lockIndex,       \* finclose_prod_close_lock_index: close -> lock id
  activeLocks,     \* finclose_prod_company_lock_state.active_locks
  reopenEvents,    \* reopen events and their audit records: (lock id, reason)
  recorded,        \* payroll runs, batches and cycles: work -> organization
  closeDocs        \* finclose_prod_monthly_closes

ledgerVars == <<owner, approval, approvalEvents, lock, lockIndex, activeLocks,
                reopenEvents, recorded, closeDocs>>

LockIds == Closes \X Hashes
Statuses == {"ABSENT", "LOCKED", "REOPENED"}

Init ==
  /\ owner = [m \in Companies |-> None]
  /\ approval = [c \in Closes |-> None]
  /\ approvalEvents = {}
  /\ lock = [l \in LockIds |-> [status |-> "ABSENT", org |-> None]]
  /\ lockIndex = [c \in Closes |-> None]
  /\ activeLocks = [m \in Companies |-> {}]
  /\ reopenEvents = {}
  /\ recorded = [w \in Works |-> None]
  /\ closeDocs = {}

-----------------------------------------------------------------------------
(* Helpers *)

\* A bug to catch: comparing with <, so that a shared boundary day is missed.
RangesOverlapInside(a, b) == a.start < b.end /\ b.start < a.end

RangesOverlap(a, b) == a.start <= b.end /\ b.start <= a.end

Registered(o, m) == owner[m] = o

\* A bug to catch: only what lies within a lock is refused, not what crosses its
\* edge.
BlockingWithin(x) ==
  {l \in activeLocks[x.company] : l[1].start <= x.start /\ x.end <= l[1].end}

\* The active locks of x's company that share a day with x (a close or a work).
Blocking(x) == {l \in activeLocks[x.company] : RangesOverlap(x, l[1])}

-----------------------------------------------------------------------------
(* Companies *)

\* A bug to catch: a second organization's registration overwrites the first's.
RegisterAnyway(o, m) ==
  /\ owner' = [owner EXCEPT ![m] = o]
  /\ UNCHANGED <<approval, approvalEvents, lock, lockIndex, activeLocks,
                 reopenEvents, recorded, closeDocs>>

RegisterProductionCompany(o, m) ==
  /\ owner[m] \in {None, o}
  /\ owner' = [owner EXCEPT ![m] = o]
  /\ UNCHANGED <<approval, approvalEvents, lock, lockIndex, activeLocks,
                 reopenEvents, recorded, closeDocs>>

-----------------------------------------------------------------------------
(* Financial work *)

\* What the three persist operations share: a known document is left alone, a
\* new one needs a registered company and an open period.
PersistWork(o, w) ==
  /\ recorded[w] = None
  /\ Registered(o, w.company)
  /\ Blocking(w) = {}
  /\ recorded' = [recorded EXCEPT ![w] = o]
  /\ UNCHANGED <<owner, approval, approvalEvents, lock, lockIndex,
                 activeLocks, reopenEvents>>

PersistPayrollRun(o, w) ==
  /\ w.kind = "PAYROLL_RUN"
  /\ PersistWork(o, w)
  /\ UNCHANGED closeDocs

\* The batch and all its journals, within the journal, line and byte limits.
PersistBookkeepingBatch(o, w) ==
  /\ w.kind = "BOOKKEEPING_BATCH"
  /\ w.fits
  /\ PersistWork(o, w)
  /\ UNCHANGED closeDocs

\* The cycle together with its monthly close, which must not exist yet.
PersistFinanceCycle(o, w) ==
  /\ w.kind = "FINANCE_CYCLE"
  /\ PersistWork(o, w)
  /\ w.close \notin closeDocs
  /\ closeDocs' = closeDocs \cup {w.close}

-----------------------------------------------------------------------------
(* Approval *)

\* Nothing to do: the close is approved with this very evidence.
ApprovalStands(o, c, h) ==
  /\ Registered(o, c.company)
  /\ approval[c] = h

\* The approval event and its audit record are created, so they must be new.
ApprovalIsNew(o, c, h) ==
  /\ Registered(o, c.company)
  /\ approval[c] # h
  /\ <<c, h>> \notin approvalEvents

RecordCloseApproval(o, c, h) ==
  \/ /\ ApprovalStands(o, c, h)
     /\ UNCHANGED ledgerVars
  \/ /\ ApprovalIsNew(o, c, h)
     /\ approval' = [approval EXCEPT ![c] = h]
     /\ approvalEvents' = approvalEvents \cup {<<c, h>>}
     /\ UNCHANGED <<owner, lock, lockIndex, activeLocks, reopenEvents, recorded,
                    closeDocs>>

-----------------------------------------------------------------------------
(* Lock and reopen *)

\* A bug to catch: the lock trusts its caller about the approval.
LockRequestUnapproved(o, c, h) == Registered(o, c.company)

\* What every path of commitPeriodLock demands first.
LockRequestValid(o, c, h) ==
  /\ Registered(o, c.company)
  /\ approval[c] = h

\* A bug to catch: a retried lock does not find what it locked.
NoHeldLocks(c, h) == {}

\* The lock is held already: by this evidence, or by the close with another.
HeldLocks(c, h) ==
  IF lock[<<c, h>>].status = "LOCKED" THEN {<<c, h>>}
  ELSE {l \in Blocking(c) : l[1] = c}

\* A bug to catch: a lock is set over whatever its document says.
LockIsSet(o, c, h) == LockRequestValid(o, c, h) /\ Blocking(c) = {}

LockIsNew(o, c, h) ==
  /\ LockRequestValid(o, c, h)
  /\ Blocking(c) = {}
  /\ lock[<<c, h>>].status = "ABSENT"

CommitPeriodLock(o, c, h) ==
  \/ /\ LockRequestValid(o, c, h)
     /\ HeldLocks(c, h) # {}
     /\ UNCHANGED ledgerVars
  \/ /\ LockIsNew(o, c, h)
     /\ lock' = [lock EXCEPT ![<<c, h>>] = [status |-> "LOCKED", org |-> o]]
     /\ lockIndex' = [lockIndex EXCEPT ![c] = <<c, h>>]
     /\ activeLocks' = [activeLocks EXCEPT ![c.company] = @ \cup {<<c, h>>}]
     /\ UNCHANGED <<owner, approval, approvalEvents, reopenEvents, recorded,
                    closeDocs>>

ReopenStands(c) ==
  /\ lockIndex[c] # None
  /\ lock[lockIndex[c]].status = "REOPENED"

\* The reopen event and the audit record are keyed by the reason's hash: one
\* reason reopens a close once.
ReopenIsNew(o, c, reason) ==
  /\ lockIndex[c] # None
  /\ lock[lockIndex[c]].status = "LOCKED"
  /\ lock[lockIndex[c]].org = o
  /\ \A e \in reopenEvents : e[1][1] = c => e[2] # reason

\* A bug to catch: a status no reader of the lock knows.
MarkUnlocked(l) == [lock EXCEPT ![l].status = "UNLOCKED"]

MarkReopened(l) == [lock EXCEPT ![l].status = "REOPENED"]

\* A bug to catch: the reopen clears the company's whole list of locks.
NoRemainingLocks(m, l) == [activeLocks EXCEPT ![m] = {}]

RemainingLocks(m, l) == [activeLocks EXCEPT ![m] = @ \ {l}]

ReopenPeriodLock(o, c, reason) ==
  \/ /\ ReopenStands(c)
     /\ UNCHANGED ledgerVars
  \/ /\ ReopenIsNew(o, c, reason)
     /\ lock' = MarkReopened(lockIndex[c])
     /\ activeLocks' = RemainingLocks(c.company, lockIndex[c])
     /\ reopenEvents' = reopenEvents \cup {<<lockIndex[c], reason>>}
     /\ UNCHANGED <<owner, approval, approvalEvents, lockIndex, recorded,
                    closeDocs>>

-----------------------------------------------------------------------------

Next ==
  \E o \in Orgs :
    \/ \E m \in Companies : RegisterProductionCompany(o, m)
    \/ \E w \in Works : \/ PersistPayrollRun(o, w)
                        \/ PersistBookkeepingBatch(o, w)
                        \/ PersistFinanceCycle(o, w)
    \/ \E c \in Closes, h \in Hashes : \/ RecordCloseApproval(o, c, h)
                                       \/ CommitPeriodLock(o, c, h)
    \/ \E c \in Closes, r \in Reasons : ReopenPeriodLock(o, c, r)

Spec == Init /\ [][Next]_ledgerVars

-----------------------------------------------------------------------------
(* Properties *)

\* Every document has the shape its collection declares.
TypeOK ==
  /\ owner \in [Companies -> Orgs \cup {None}]
  /\ approval \in [Closes -> Hashes \cup {None}]
  /\ approvalEvents \subseteq LockIds
  /\ lock \in [LockIds -> [status : Statuses, org : Orgs \cup {None}]]
  /\ lockIndex \in [Closes -> LockIds \cup {None}]
  /\ activeLocks \in [Companies -> SUBSET LockIds]
  /\ reopenEvents \subseteq LockIds \X Reasons
  /\ recorded \in [Works -> Orgs \cup {None}]
  /\ closeDocs \subseteq Closes

IsLocked(l) == lock[l].status = "LOCKED"

\* Two date ranges of one company share a day, counted day by day.
Collide(a, b) ==
  /\ a.company = b.company
  /\ (a.start .. a.end) \cap (b.start .. b.end) # {}

\* Two lock documents that are both LOCKED never cover a common day of one
\* company, whichever closes and evidence they come from (the concurrent
\* overlapping-lock race of commitPeriodLock).
NoOverlappingLocks ==
  \A k, l \in LockIds :
    /\ IsLocked(k) /\ IsLocked(l) /\ k # l
    => ~Collide(k[1], l[1])

\* The per-company lock-state document, which every transaction reads instead of
\* querying the locks, lists exactly the company's LOCKED lock documents.
LockStateMatchesLocks ==
  \A m \in Companies :
    activeLocks[m] = {l \in LockIds : l[1].company = m /\ IsLocked(l)}

\* A reopen finds its lock through the close index: the index of a close names
\* the lock the close holds, so that no LOCKED period is out of reopen's reach.
HeldLockIsIndexed ==
  \A l \in LockIds : IsLocked(l) => lockIndex[l[1]] = l

\* The three documents that say which locks a company holds - the locks, the lock state
\* and the index of the closes - always tell the same.
LockDocumentsAgree == LockStateMatchesLocks /\ HeldLockIsIndexed

\* Every lock ever taken rests on an approval event for exactly its evidence.
LockedEvidenceWasApproved ==
  \A l \in LockIds : lock[l].status # "ABSENT" => l \in approvalEvents

\* A lock document is REOPENED if and only if a reopen event says so: history
\* and current state of the lock never disagree.
ReopenIsOnRecord ==
  \A l \in LockIds :
    lock[l].status = "REOPENED" <=> \E r \in Reasons : <<l, r>> \in reopenEvents

\* Nothing was ever locked or reopened without the event that allowed it.
LockHistoryIsOnRecord == LockedEvidenceWasApproved /\ ReopenIsOnRecord

\* Every lock and every work document belongs to the organization that owns its
\* company in the ledger, for ever after registration.
TenantOwnsItsDocuments ==
  /\ \A w \in Works : recorded[w] # None => recorded[w] = owner[w.company]
  /\ \A l \in LockIds : lock[l].status # "ABSENT" => lock[l].org = owner[l[1].company]

\* No step records work on a day that a lock of the company covers before or
\* after the step: the work of a locked period is frozen.
LockedWorkIsFrozen ==
  [][\A w \in Works : recorded'[w] # recorded[w] =>
       \A l \in LockIds :
         Collide(w, l[1]) => ~IsLocked(l) /\ ~IsLocked(l)']_ledgerVars

\* A lock only moves forward, ABSENT to LOCKED to REOPENED: a reopened period is
\* never silently locked again under the evidence it was reopened for.
LockHistoryMovesForward ==
  [][\A l \in LockIds :
       lock'[l].status # lock[l].status =>
         <<lock[l].status, lock'[l].status>> \in
           {<<"ABSENT", "LOCKED">>, <<"LOCKED", "REOPENED">>}]_ledgerVars

-----------------------------------------------------------------------------
(* The abstract specification this ledger implements *)

LockedCloses == {c \in Closes : \E h \in Hashes : IsLocked(<<c, h>>)}
RecordedWork == {w \in Works : recorded[w] # None}

Abstract == INSTANCE PeriodLocking WITH locked <- LockedCloses,
                                        booked <- RecordedWork

\* The ledger implements PeriodLocking: whatever the documents are, an observer
\* sees periods locked and reopened one by one and work recorded outside them.
ImplementsPeriodLocking == Abstract!LockingSpec

=============================================================================
