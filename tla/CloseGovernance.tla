-------------------------- MODULE CloseGovernance --------------------------
(***************************************************************************)
(* Monthly-close governance, lib/close-governance-engine.ts, over the two  *)
(* stores it keeps in step: the Realtime Database (RTDB), where every read *)
(* and every update is a step of its own, and, in real-data modes, the     *)
(* Firestore ledger of PeriodLedger, where every operation is atomic.      *)
(*                                                                         *)
(* The server runs many requests at once and a request may die between two *)
(* awaits.  A request is a record in `req': its operation, the await it    *)
(* has reached, and what it has read so far and still relies on.           *)
(*                                                                         *)
(* Evidence is abstract: what the source registry and the stored artifacts *)
(* amount to is one value, so is a set of account reconciliations, and the *)
(* SHA-256 fingerprint of an evidence snapshot is the pair it fingerprints.*)
(* The core controls of a close never change and `core' says they pass.    *)
(***************************************************************************)
EXTENDS Integers

CONSTANTS
  Modes,        \* values of isRealDataMode(): FALSE in LAB, TRUE in PILOT and PRODUCTION
  Org,          \* the organization of the deployment
  Closes,       \* its closes: records [company, start, end, core, ...]
  Requests,     \* requests the server may have in flight at once
  Ops,          \* the operations the users call
  Registries,   \* versions of the expected-source registry
  Artifacts,    \* versions of the period's source evidence
  CompleteSources,    \* the (registry, artifacts) that derive as complete
  Scopes,       \* versions of the balance-sheet account scope
  Entries,      \* sets of account reconciliations a user may submit
  PassingBalances,    \* the (entries, scope) that reconcile
  Reasons,      \* texts given for a reopen
  MaxCrashes,   \* bound: requests that may die half-way
  None

ASSUME GovernanceAssumption ==
  /\ Modes \subseteq BOOLEAN
  /\ \A c \in Closes : /\ c.start \in Int /\ c.end \in Int /\ c.start <= c.end
                       /\ c.core \in BOOLEAN
  /\ CompleteSources \subseteq Registries \X Artifacts
  /\ PassingBalances \subseteq Entries \X Scopes
  /\ MaxCrashes \in Nat

VARIABLES
  realData,   \* the mode the server was started in
  registry,   \* finclose_source_requirements of the deployment
  artifacts,  \* finclose_period_source_evidence of the period
  scope,      \* finclose_balance_sheet_scope of the deployment
  close,      \* finclose_monthly_closes
  source,     \* finclose_close_source_completeness, per close
  balance,    \* finclose_balance_sheet_reconciliations, per close
  mirror,     \* finclose_period_locks and finclose_period_locks_by_company
  req,        \* requests in flight
  crashes,
  owner, approval, approvalEvents, lock, lockIndex, activeLocks,
  reopenEvents, recorded, closeDocs   \* the Firestore ledger

evidenceVars == <<registry, artifacts, scope, source, balance>>
ledgerVars == <<owner, approval, approvalEvents, lock, lockIndex, activeLocks,
                reopenEvents, recorded, closeDocs>>
vars == <<realData, evidenceVars, close, mirror, req, crashes, ledgerVars>>

SourceRecords == (Registries \X Artifacts) \cup {None}
BalanceRecords == (Entries \X Scopes) \cup {None}

\* fingerprint(approvalEvidenceSnapshot(close)): the close id and its core
\* controls are fixed, so two snapshots of a close differ in these two only.
EvidenceHashes == SourceRecords \X BalanceRecords

LockIds == Closes \X EvidenceHashes

\* None is no organization, no evidence and no lock.
ASSUME NoneAssumption == None \notin {Org} \cup EvidenceHashes \cup LockIds

Ledger == INSTANCE PeriodLedger
            WITH Orgs <- {Org},
                 Companies <- {c.company : c \in Closes},
                 Works <- {},
                 Hashes <- EvidenceHashes

\* Every request register is None until the request reads it.
IdleRequest == [op |-> "none", at |-> "idle", c |-> None, view |-> None,
                src |-> None, bal |-> None, scp |-> None, id |-> None,
                why |-> None]

\* What prepareFinanceCycle leaves: closes prepared, nothing governed yet.
Init ==
  /\ realData \in Modes
  /\ registry \in Registries
  /\ artifacts \in Artifacts
  /\ scope \in Scopes
  /\ close = [c \in Closes |-> [closeStatus |-> "PREPARED_NOT_CLOSED",
                                approvalStatus |-> "BLOCKED_PENDING_LAYER_A",
                                governance |-> "NONE",
                                approvedHash |-> None,
                                lockId |-> None]]
  /\ source = [c \in Closes |-> None]
  /\ balance = [c \in Closes |-> None]
  /\ mirror = [l \in LockIds |-> [status |-> "ABSENT", hash |-> None]]
  /\ req = [r \in Requests |-> IdleRequest]
  /\ crashes = 0
  /\ owner = [m \in {c.company : c \in Closes} |-> Org]
  /\ approval = [c \in Closes |-> None]
  /\ approvalEvents = {}
  /\ lock = [l \in LockIds |-> [status |-> "ABSENT", org |-> None]]
  /\ lockIndex = [c \in Closes |-> None]
  /\ activeLocks = [m \in {c.company : c \in Closes} |-> {}]
  /\ reopenEvents = {}
  /\ recorded = [w \in {} |-> None]
  /\ closeDocs = {}

-----------------------------------------------------------------------------
(* Requests *)

At(r, op, label) == req[r].op = op /\ req[r].at = label

\* The request reaches its next await, its registers changed as given.
Goto(r, label, registers) == req' = [req EXCEPT ![r] = [registers EXCEPT !.at = label]]

\* The request answers: a result, a duplicate or an error.
Answer(r) == req' = [req EXCEPT ![r] = IdleRequest]

\* The process dies or is cut off between two awaits; what is stored stays.
Crash(r) ==
  /\ req[r].op # "none"
  /\ crashes < MaxCrashes
  /\ crashes' = crashes + 1
  /\ Answer(r)
  /\ UNCHANGED <<realData, evidenceVars, close, mirror, ledgerVars>>

\* A bug to catch: the mirror is written as in LAB, whatever the mode.
MirrorOnly(ledgerLabel, mirrorLabel) == mirrorLabel

\* In real-data modes the ledger commits before the mirror is touched.
LedgerFirst(ledgerLabel, mirrorLabel) ==
  IF realData THEN ledgerLabel ELSE mirrorLabel

Begin(r, op, c, label, registers) ==
  /\ op \in Ops
  /\ req[r] = IdleRequest
  /\ req' = [req EXCEPT ![r] = [registers EXCEPT !.op = op, !.at = label, !.c = c]]
  /\ UNCHANGED <<realData, evidenceVars, close, mirror, crashes, ledgerVars>>

-----------------------------------------------------------------------------
(* Configuration: one unconditional write each, whatever is locked *)

ConfigureSourceRequirements(v) ==
  /\ "configure" \in Ops
  /\ registry' = v
  /\ UNCHANGED <<realData, artifacts, scope, source, balance, close, mirror, req, crashes,
                 ledgerVars>>

ConfigureBalanceSheetScope(s) ==
  /\ "configure" \in Ops
  /\ scope' = s
  /\ UNCHANGED <<realData, registry, artifacts, source, balance, close, mirror, req,
                 crashes, ledgerVars>>

-----------------------------------------------------------------------------
(* recordPeriodSourceEvidence: assertDateRangeOpenForCompany asks the ledger  *)
(* and then the mirror, and the evidence is written after both.               *)

\* A bug to catch: a close looks for its own lock only.
MirrorBlocksItself(c) == \E l \in LockIds : mirror[l].status = "LOCKED" /\ l[1] = c

MirrorBlocks(c) ==
  \E l \in LockIds : /\ mirror[l].status = "LOCKED"
                     /\ l[1].company = c.company
                     /\ Ledger!RangesOverlap(c, l[1])

\* A bug to catch: only the mirror is asked.
LedgerNeverBlocks(c) == FALSE

\* assertProductionDateRangeOpen, of real-data modes
LedgerBlocks(c) == realData /\ Ledger!Blocking(c) # {}

AssertLedgerOpen(r) ==
  /\ At(r, "record", "ledgerOpen")
  /\ IF LedgerBlocks(req[r].c)
     THEN Answer(r)
     ELSE Goto(r, "mirrorOpen", req[r])
  /\ UNCHANGED <<realData, evidenceVars, close, mirror, crashes, ledgerVars>>

AssertMirrorOpen(r) ==
  /\ At(r, "record", "mirrorOpen")
  /\ IF MirrorBlocks(req[r].c) THEN Answer(r) ELSE Goto(r, "storeEvidence", req[r])
  /\ UNCHANGED <<realData, evidenceVars, close, mirror, crashes, ledgerVars>>

StoreEvidence(r) ==
  /\ At(r, "record", "storeEvidence")
  /\ artifacts' = req[r].src
  /\ Answer(r)
  /\ UNCHANGED <<realData, registry, scope, source, balance, close, mirror, crashes,
                 ledgerVars>>

-----------------------------------------------------------------------------
(* prepareBalanceSheetReconciliation: then it refreshes, below *)

ReconcileCheck(r) ==
  /\ At(r, "reconcile", "check")
  /\ IF close[req[r].c].closeStatus \in {"LOCKED", "REOPENED"}
     THEN Answer(r)
     ELSE Goto(r, "readScope", req[r])
  /\ UNCHANGED <<realData, evidenceVars, close, mirror, crashes, ledgerVars>>

ReconcileScope(r) ==
  /\ At(r, "reconcile", "readScope")
  /\ Goto(r, "storeBalance", [req[r] EXCEPT !.scp = scope])
  /\ UNCHANGED <<realData, evidenceVars, close, mirror, crashes, ledgerVars>>

StoreBalance(r) ==
  /\ At(r, "reconcile", "storeBalance")
  /\ balance' = [balance EXCEPT ![req[r].c] = <<req[r].bal, req[r].scp>>]
  /\ Goto(r, "refresh", [req[r] EXCEPT !.bal = None, !.scp = None])
  /\ UNCHANGED <<realData, registry, artifacts, scope, source, close, mirror, crashes,
                 ledgerVars>>

-----------------------------------------------------------------------------
(* refreshCloseGovernance, a routine of every operation below *)

\* Where the calling operation goes on; None: it answers.
AfterRefresh(op) ==
  CASE op = "approve" -> "approveCheck"
    [] op = "lock"    -> "lockCheck"
    [] OTHER          -> None

LeaveRefresh(r) ==
  IF AfterRefresh(req[r].op) = None THEN Answer(r)
  ELSE Goto(r, AfterRefresh(req[r].op),
            [req[r] EXCEPT !.view = None, !.src = None, !.bal = None, !.scp = None])

RefreshRead(r) ==
  LET c == req[r].c IN
  /\ req[r].at = "refresh"
  /\ IF close[c].closeStatus = "LOCKED"
     THEN LeaveRefresh(r)
     ELSE Goto(r, "evaluate", [req[r] EXCEPT !.view = close[c]])
  /\ UNCHANGED <<realData, evidenceVars, close, mirror, crashes, ledgerVars>>

\* evaluateSourceCompleteness: it reads the close again and refuses ...
EvaluateCheck(r) ==
  /\ req[r].at = "evaluate"
  /\ IF close[req[r].c].closeStatus \in {"LOCKED", "REOPENED"}
     THEN Answer(r)
     ELSE Goto(r, "derive", req[r])
  /\ UNCHANGED <<realData, evidenceVars, close, mirror, crashes, ledgerVars>>

\* ... derives completeness from registry and artifacts ...
DeriveSource(r) ==
  /\ req[r].at = "derive"
  /\ Goto(r, "storeSource", [req[r] EXCEPT !.src = <<registry, artifacts>>])
  /\ UNCHANGED <<realData, evidenceVars, close, mirror, crashes, ledgerVars>>

\* ... and stores it.  On its own (op "evaluate") it ends here.
StoreSource(r) ==
  /\ req[r].at = "storeSource"
  /\ source' = [source EXCEPT ![req[r].c] = req[r].src]
  /\ IF req[r].op = "evaluate" THEN Answer(r) ELSE Goto(r, "loadBalance", req[r])
  /\ UNCHANGED <<realData, registry, artifacts, scope, balance, close, mirror, crashes,
                 ledgerVars>>

LoadBalance(r) ==
  /\ req[r].at = "loadBalance"
  /\ Goto(r, "loadScope", [req[r] EXCEPT !.bal = balance[req[r].c]])
  /\ UNCHANGED <<realData, evidenceVars, close, mirror, crashes, ledgerVars>>

LoadScope(r) ==
  /\ req[r].at = "loadScope"
  /\ Goto(r, "storeGovernance", [req[r] EXCEPT !.scp = scope])
  /\ UNCHANGED <<realData, evidenceVars, close, mirror, crashes, ledgerVars>>

\* A bug to catch: a reconciliation counts once it is prepared.
ReadyIfPrepared(c, src, bal, scp) ==
  /\ c.core
  /\ src \in CompleteSources
  /\ bal # None
  /\ bal[2] = scp

\* Core controls pass, sources are complete, and the reconciliation passes and
\* was made for the scope in force.
Ready(c, src, bal, scp) ==
  /\ c.core
  /\ src \in CompleteSources
  /\ bal \in PassingBalances
  /\ bal[2] = scp

\* The approval status and governance status that follow from the close as it
\* was read when the refresh began.
RefreshedApproval(view, ready) ==
  CASE view.closeStatus = "LOCKED" \/ view.approvalStatus = "APPROVED"
         -> view.approvalStatus
    [] view.closeStatus = "REOPENED" -> "INVALIDATED_BY_REOPEN"
    [] ready -> "APPROVAL_REQUIRED"
    [] OTHER -> "BLOCKED_PENDING_LAYER_A"

RefreshedGovernance(view, ready) ==
  CASE view.closeStatus = "REOPENED" -> "REOPENED_REQUIRES_NEW_CLOSE"
    [] ready -> "READY_FOR_APPROVAL"
    [] OTHER -> "BLOCKED"

StoreGovernance(r) ==
  LET c == req[r].c
      q == req[r]
      ready == q.view.closeStatus # "REOPENED" /\ Ready(c, q.src, q.bal, q.scp)
  IN
  /\ q.at = "storeGovernance"
  /\ close' = [close EXCEPT
                 ![c].approvalStatus = RefreshedApproval(q.view, ready),
                 ![c].governance = RefreshedGovernance(q.view, ready)]
  /\ LeaveRefresh(r)
  /\ UNCHANGED <<realData, evidenceVars, mirror, crashes, ledgerVars>>

-----------------------------------------------------------------------------
(* approvalEvidenceSnapshot, of approve and of lock: the source record and   *)
(* the balance record are read one after the other.                          *)

SnapshotSource(r) ==
  /\ req[r].at = "snapSource"
  /\ Goto(r, "snapBalance", [req[r] EXCEPT !.src = source[req[r].c]])
  /\ UNCHANGED <<realData, evidenceVars, close, mirror, crashes, ledgerVars>>

SnapshotHash(r) == <<req[r].src, balance[req[r].c]>>

\* The hash a request has computed, once both parts are in its registers.
HashOf(q) == <<q.src, q.bal>>

-----------------------------------------------------------------------------
(* approveMonthlyClose *)

ApproveCheck(r) ==
  LET v == close[req[r].c] IN
  /\ At(r, "approve", "approveCheck")
  /\ IF /\ v.closeStatus \notin {"LOCKED", "REOPENED"}
        /\ v.governance = "READY_FOR_APPROVAL"
        /\ req[r].c.core
     THEN Goto(r, "snapSource", [req[r] EXCEPT !.view = v])
     ELSE Answer(r)
  /\ UNCHANGED <<realData, evidenceVars, close, mirror, crashes, ledgerVars>>

ApproveSnapshot(r) ==
  LET v == req[r].view IN
  /\ At(r, "approve", "snapBalance")
  /\ IF v.approvalStatus = "APPROVED" /\ v.approvedHash = SnapshotHash(r)
     THEN Answer(r)
     ELSE Goto(r, LedgerFirst("approveLedger", "approveMirror"),
               [req[r] EXCEPT !.bal = balance[req[r].c], !.view = None])
  /\ UNCHANGED <<realData, evidenceVars, close, mirror, crashes, ledgerVars>>

ApproveInLedger(r) ==
  LET c == req[r].c
      h == HashOf(req[r])
  IN
  /\ At(r, "approve", "approveLedger")
  /\ \/ /\ Ledger!RecordCloseApproval(Org, c, h)
        /\ Goto(r, "approveMirror", req[r])
     \/ /\ ~Ledger!ApprovalStands(Org, c, h)
        /\ ~Ledger!ApprovalIsNew(Org, c, h)
        /\ Answer(r)
        /\ UNCHANGED ledgerVars
  /\ UNCHANGED <<realData, evidenceVars, close, mirror, crashes>>

ApproveInMirror(r) ==
  LET c == req[r].c IN
  /\ At(r, "approve", "approveMirror")
  /\ close' = [close EXCEPT
                 ![c].approvalStatus = "APPROVED",
                 ![c].closeStatus = "APPROVED_PENDING_LOCK",
                 ![c].approvedHash = HashOf(req[r])]
  /\ Answer(r)
  /\ UNCHANGED <<realData, evidenceVars, mirror, crashes, ledgerVars>>

-----------------------------------------------------------------------------
(* lockMonthlyClose *)

LockCheck(r) ==
  LET v == close[req[r].c] IN
  /\ At(r, "lock", "lockCheck")
  /\ IF /\ v.closeStatus # "LOCKED"
        /\ v.approvalStatus = "APPROVED"
        /\ v.governance = "READY_FOR_APPROVAL"
     THEN Goto(r, "snapSource", [req[r] EXCEPT !.view = v])
     ELSE Answer(r)
  /\ UNCHANGED <<realData, evidenceVars, close, mirror, crashes, ledgerVars>>

\* A bug to catch: any approval will do.
ApprovedAtAll(r) == req[r].view.approvedHash # None

\* Else 'close evidence changed after approval; re-approval is required'.
EvidenceUnchanged(r) == req[r].view.approvedHash = SnapshotHash(r)

LockSnapshot(r) ==
  /\ At(r, "lock", "snapBalance")
  /\ IF EvidenceUnchanged(r)
     THEN Goto(r, "lockOverlap",
               [req[r] EXCEPT !.bal = balance[req[r].c], !.view = None])
     ELSE Answer(r)
  /\ UNCHANGED <<realData, evidenceVars, close, mirror, crashes, ledgerVars>>

\* The mirror's own overlap check; an overlap with the close itself answers
\* 'duplicate', with another close 409.  LAB derives the lock id itself.
LockOverlap(r) ==
  LET c == req[r].c IN
  /\ At(r, "lock", "lockOverlap")
  /\ IF MirrorBlocks(c)
     THEN Answer(r)
     ELSE Goto(r, LedgerFirst("lockLedger", "lockMirror"),
               [req[r] EXCEPT !.id = <<c, HashOf(req[r])>>])
  /\ UNCHANGED <<realData, evidenceVars, close, mirror, crashes, ledgerVars>>

\* The lock ids commitPeriodLock may return for this close and hash.
CommittedIds(c, h) ==
  IF Ledger!HeldLocks(c, h) # {} THEN Ledger!HeldLocks(c, h) ELSE {<<c, h>>}

LockInLedger(r) ==
  LET c == req[r].c
      h == HashOf(req[r])
  IN
  /\ At(r, "lock", "lockLedger")
  /\ \/ /\ Ledger!CommitPeriodLock(Org, c, h)
        /\ \E id \in CommittedIds(c, h) :
             Goto(r, "lockMirror", [req[r] EXCEPT !.id = id])
     \/ /\ ~(Ledger!LockRequestValid(Org, c, h) /\ Ledger!HeldLocks(c, h) # {})
        /\ ~Ledger!LockIsNew(Org, c, h)
        /\ Answer(r)
        /\ UNCHANGED ledgerVars
  /\ UNCHANGED <<realData, evidenceVars, close, mirror, crashes>>

LockInMirror(r) ==
  LET c == req[r].c IN
  /\ At(r, "lock", "lockMirror")
  /\ mirror' = [mirror EXCEPT
                  ![req[r].id] = [status |-> "LOCKED", hash |-> HashOf(req[r])]]
  /\ close' = [close EXCEPT ![c].closeStatus = "LOCKED",
                            ![c].lockId = req[r].id]
  /\ Answer(r)
  /\ UNCHANGED <<realData, evidenceVars, crashes, ledgerVars>>

-----------------------------------------------------------------------------
(* reopenMonthlyClose *)

ReopenCheck(r) ==
  LET v == close[req[r].c] IN
  /\ At(r, "reopen", "check")
  /\ IF v.closeStatus = "LOCKED" /\ v.lockId # None
     THEN Goto(r, "readLock", [req[r] EXCEPT !.id = v.lockId])
     ELSE Answer(r)
  /\ UNCHANGED <<realData, evidenceVars, close, mirror, crashes, ledgerVars>>

ReopenReadLock(r) ==
  LET l == mirror[req[r].id] IN
  /\ At(r, "reopen", "readLock")
  /\ IF l.status = "LOCKED"
     THEN Goto(r, LedgerFirst("reopenLedger", "reopenMirror"),
               [req[r] EXCEPT !.view = l])
     ELSE Answer(r)
  /\ UNCHANGED <<realData, evidenceVars, close, mirror, crashes, ledgerVars>>

ReopenInLedger(r) ==
  LET c == req[r].c
      why == req[r].why
  IN
  /\ At(r, "reopen", "reopenLedger")
  /\ \/ /\ Ledger!ReopenPeriodLock(Org, c, why)
        /\ Goto(r, "reopenMirror", req[r])
     \/ /\ ~Ledger!ReopenStands(c)
        /\ ~Ledger!ReopenIsNew(Org, c, why)
        /\ Answer(r)
        /\ UNCHANGED ledgerVars
  /\ UNCHANGED <<realData, evidenceVars, close, mirror, crashes>>

\* A bug to catch: the reopened close falls back to where it was before the lock.
ReopenInMirrorPending(r) ==
  LET c == req[r].c IN
  /\ At(r, "reopen", "reopenMirror")
  /\ mirror' = [mirror EXCEPT ![req[r].id] = [req[r].view EXCEPT !.status = "REOPENED"]]
  /\ close' = [close EXCEPT ![c].closeStatus = "APPROVED_PENDING_LOCK"]
  /\ Answer(r)
  /\ UNCHANGED <<realData, evidenceVars, crashes, ledgerVars>>

ReopenInMirror(r) ==
  LET c == req[r].c IN
  /\ At(r, "reopen", "reopenMirror")
  /\ mirror' = [mirror EXCEPT ![req[r].id] = [req[r].view EXCEPT !.status = "REOPENED"]]
  /\ close' = [close EXCEPT ![c].closeStatus = "REOPENED",
                            ![c].approvalStatus = "INVALIDATED_BY_REOPEN"]
  /\ Answer(r)
  /\ UNCHANGED <<realData, evidenceVars, crashes, ledgerVars>>

-----------------------------------------------------------------------------

Start(r) ==
  \E c \in Closes :
    \/ \E op \in {"get", "approve", "lock"} : Begin(r, op, c, "refresh", IdleRequest)
    \/ Begin(r, "evaluate", c, "evaluate", IdleRequest)
    \/ \E a \in Artifacts :
         Begin(r, "record", c, "ledgerOpen", [IdleRequest EXCEPT !.src = a])
    \/ \E e \in Entries :
         Begin(r, "reconcile", c, "check", [IdleRequest EXCEPT !.bal = e])
    \/ \E why \in Reasons :
         Begin(r, "reopen", c, "check", [IdleRequest EXCEPT !.why = why])

\* The request's next await.
Step(r) ==
  \/ AssertLedgerOpen(r) \/ AssertMirrorOpen(r) \/ StoreEvidence(r)
  \/ ReconcileCheck(r) \/ ReconcileScope(r) \/ StoreBalance(r)
  \/ RefreshRead(r) \/ EvaluateCheck(r) \/ DeriveSource(r) \/ StoreSource(r)
  \/ LoadBalance(r) \/ LoadScope(r) \/ StoreGovernance(r)
  \/ SnapshotSource(r)
  \/ ApproveCheck(r) \/ ApproveSnapshot(r) \/ ApproveInLedger(r) \/ ApproveInMirror(r)
  \/ LockCheck(r) \/ LockSnapshot(r) \/ LockOverlap(r) \/ LockInLedger(r)
  \/ LockInMirror(r)
  \/ ReopenCheck(r) \/ ReopenReadLock(r) \/ ReopenInLedger(r) \/ ReopenInMirror(r)

Next ==
  \/ \E r \in Requests : Start(r) \/ Step(r) \/ Crash(r)
  \/ \E v \in Registries : ConfigureSourceRequirements(v)
  \/ \E s \in Scopes : ConfigureBalanceSheetScope(s)

Spec == Init /\ [][Next]_vars

\* A user whose lock or reopen was cut off between the stores asks again.
Retry(r, c) ==
  \E l \in LockIds :
    /\ l[1] = c
    /\ \/ /\ lock[l].status = "LOCKED" /\ mirror[l].status = "ABSENT"
          /\ Begin(r, "lock", c, "refresh", IdleRequest)
       \/ /\ lock[l].status = "REOPENED" /\ mirror[l].status = "LOCKED"
          /\ \E why \in Reasons :
               Begin(r, "reopen", c, "check", [IdleRequest EXCEPT !.why = why])

\* The event loop resumes every request that is waiting, and users who were cut
\* off ask again, however often other requests come between.
FairSpec ==
  /\ Spec
  /\ \A r \in Requests : WF_vars(Step(r))
  /\ \A r \in Requests, c \in Closes : SF_vars(Retry(r, c))

-----------------------------------------------------------------------------
(* Properties *)

Progress(status) ==
  CASE status = "ABSENT" -> 0 [] status = "LOCKED" -> 1 [] status = "REOPENED" -> 2

\* Real-data modes record a lock or a reopen in Firestore first: whatever dies or
\* races, the mirror of a lock is never further along than the ledger's lock.
MirrorNeverAheadOfLedger ==
  realData => \A l \in LockIds : Progress(mirror[l].status) <= Progress(lock[l].status)

\* The workflow never shows an approval the ledger has no event of.
ApprovalInLedgerFirst ==
  realData => \A c \in Closes :
                close[c].approvedHash # None =>
                  <<c, close[c].approvedHash>> \in approvalEvents

\* In real-data modes Firestore goes first, whatever is cut off or comes between.
LedgerGoesFirst == MirrorNeverAheadOfLedger /\ ApprovalInLedgerFirst

EvidencePasses(c, h) ==
  c.core /\ h[1] \in CompleteSources /\ h[2] \in PassingBalances

\* What is approved passes: core controls, complete sources and a reconciled
\* balance sheet, in the very snapshot the approval is bound to.
ApprovedEvidencePasses ==
  \A c \in Closes :
    close[c].approvedHash # None => EvidencePasses(c, close[c].approvedHash)

\* While a close is locked, its evidence records are still the ones approved.
LockedEvidenceIsApproved ==
  \A c \in Closes :
    close[c].closeStatus = "LOCKED" => close[c].approvedHash = <<source[c], balance[c]>>

\* A close whose lock was reopened stays reopened: it takes a new close version
\* to approve or lock the period again.
ReopenedCloseIsFinal ==
  \A l \in LockIds :
    mirror[l].status = "REOPENED" => close[l[1]].closeStatus = "REOPENED"

\* With nothing in flight and nothing ever cut off, both stores hold the same
\* locks and the closes' states say so.
StoresAgreeAtRest ==
  (realData /\ crashes = 0 /\ \A r \in Requests : req[r] = IdleRequest) =>
    /\ \A l \in LockIds : mirror[l].status = lock[l].status
    /\ \A c \in Closes :
         close[c].closeStatus = "LOCKED" <=> \E l \in activeLocks[c.company] : l[1] = c

\* The locks the workflow shows never overlap either.
MirroredLocksDoNotOverlap ==
  \A k, l \in LockIds :
    /\ mirror[k].status = "LOCKED" /\ mirror[l].status = "LOCKED" /\ k # l
    => ~Ledger!Collide(k[1], l[1])

\* Source evidence of a period does not change while the ledger holds a lock on
\* any day of it, even one whose request never reached the mirror.
LockedEvidenceIsFrozen ==
  [][artifacts' # artifacts => \A c \in Closes : Ledger!Blocking(c) = {}]_vars

\* A lock or a reopen that was cut off between the stores is not left half done:
\* the two stores agree on every lock again and again.
StoresConverge ==
  realData => \A l \in LockIds : []<>(mirror[l].status = lock[l].status)

=============================================================================
