---------------------------- MODULE FinanceCycle ----------------------------
(***************************************************************************)
(* Versions of a monthly close: prepareFinanceCycle,                       *)
(* lib/finance-cycle-engine.ts, and its route, which stores a finance      *)
(* cycle and its monthly close in the Realtime Database (RTDB) and then    *)
(* persists bookkeeping batch and cycle in the Firestore ledger of         *)
(* PeriodLedger.  Every read and write of the RTDB is a step of its own.   *)
(*                                                                         *)
(* The id of a close is its period, the fingerprint of the inputs and, for *)
(* a version made after a reopen, the nonce of that reopen; a finance      *)
(* cycle is stored with its close, never without it.  Approving, locking   *)
(* and reopening, whose own interleavings are the subject of               *)
(* CloseGovernance, are one step each here.  Real-data modes only.         *)
(***************************************************************************)
EXTENDS Integers

CONSTANTS
  Org, Company, \* the deployment's owner
  Periods,      \* accounting periods: records [start, end]
  Inputs,       \* fingerprints of cycle inputs
  Requests,     \* requests the server may have in flight at once
  MaxReopens,   \* bound: reopens, each with a nonce and a reason of its own
  MaxCrashes,   \* bound: requests that may die half-way
  Interleaved,  \* whether closes are approved, locked and reopened meanwhile
  None

ASSUME CycleAssumption ==
  /\ \A p \in Periods : p.start \in Int /\ p.end \in Int /\ p.start <= p.end
  /\ MaxReopens \in Nat /\ MaxCrashes \in Nat
  /\ Interleaved \in BOOLEAN

VARIABLES
  close,     \* finclose_monthly_closes: [status, nonce, supersedes]
  batches,   \* finclose_bookkeeping_batches
  latest,    \* latest_monthly_close_id of the deployment
  mirror,    \* the closes finclose_period_locks_by_company shows LOCKED
  reopens, req, crashes,
  owner, approval, approvalEvents, lock, lockIndex, activeLocks,
  reopenEvents, recorded, closeDocs   \* the Firestore ledger

ledgerVars == <<owner, approval, approvalEvents, lock, lockIndex, activeLocks,
                reopenEvents, recorded, closeDocs>>
vars == <<close, batches, latest, mirror, reopens, req, crashes, ledgerVars>>

CloseId(p, x, n) == [company |-> Company, start |-> p.start, end |-> p.end,
                     input |-> x, nonce |-> n]
CloseIds == {CloseId(p, x, n) : p \in Periods, x \in Inputs, n \in 0 .. MaxReopens}

CycleOf(c) == [kind |-> "FINANCE_CYCLE", company |-> Company, start |-> c.start,
               end |-> c.end, fits |-> TRUE, input |-> c.input, close |-> c]
\* One batch per period and inputs, whatever the version.
BatchOf(c) == [kind |-> "BOOKKEEPING_BATCH", company |-> Company, start |-> c.start,
               end |-> c.end, fits |-> TRUE, input |-> c.input, close |-> None]
Works == {CycleOf(c) : c \in CloseIds} \cup {BatchOf(c) : c \in CloseIds}

Evidence == "evidence"

\* None is no organization, no evidence, no close and no lock.
ASSUME NoneAssumption ==
  None \notin {Org, Evidence} /\ None \notin CloseIds /\ None \notin CloseIds \X {Evidence}

Ledger == INSTANCE PeriodLedger
            WITH Orgs <- {Org}, Companies <- {Company}, Closes <- CloseIds,
                 Hashes <- {Evidence}, Reasons <- 1 .. MaxReopens

IdleRequest == [at |-> "idle", c |-> None, latest |-> None, supersedes |-> None]

Init ==
  /\ close = [c \in CloseIds |-> [status |-> "ABSENT", nonce |-> 0, supersedes |-> None]]
  /\ batches = {}
  /\ latest = None
  /\ mirror = {}
  /\ reopens = 0
  /\ req = [r \in Requests |-> IdleRequest]
  /\ crashes = 0
  /\ owner = [m \in {Company} |-> Org]
  /\ approval = [c \in CloseIds |-> None]
  /\ approvalEvents = {}
  /\ lock = [l \in Ledger!LockIds |-> [status |-> "ABSENT", org |-> None]]
  /\ lockIndex = [c \in CloseIds |-> None]
  /\ activeLocks = [m \in {Company} |-> {}]
  /\ reopenEvents = {}
  /\ recorded = [w \in Works |-> None]
  /\ closeDocs = {}

-----------------------------------------------------------------------------
(* Requests *)

Goto(r, label, registers) == req' = [req EXCEPT ![r] = [registers EXCEPT !.at = label]]
Answer(r) == req' = [req EXCEPT ![r] = IdleRequest]

\* A read, or a refusal: only the request moves on.
Reads == UNCHANGED <<close, batches, latest, mirror, reopens, crashes, ledgerVars>>

Crash(r) ==
  /\ req[r] # IdleRequest
  /\ crashes < MaxCrashes
  /\ crashes' = crashes + 1
  /\ Answer(r)
  /\ UNCHANGED <<close, batches, latest, mirror, reopens, ledgerVars>>

\* The deployment, and with it its latest close, is read first and only once.
Prepare(r, p, x) ==
  /\ req[r] = IdleRequest
  /\ Goto(r, "ledgerOpen", [IdleRequest EXCEPT !.c = CloseId(p, x, 0), !.latest = latest])
  /\ Reads

MirrorBlocks(c) == \E d \in mirror : Ledger!RangesOverlap(c, d)

\* assertDateRangeOpenForCompany, of the cycle and again of its batch
AssertLedgerOpen(r, from, to) ==
  /\ req[r].at = from
  /\ IF Ledger!Blocking(req[r].c) # {} THEN Answer(r) ELSE Goto(r, to, req[r])
  /\ Reads

AssertMirrorOpen(r, from, to) ==
  /\ req[r].at = from
  /\ IF MirrorBlocks(req[r].c) THEN Answer(r) ELSE Goto(r, to, req[r])
  /\ Reads

-----------------------------------------------------------------------------
(* Which version of the close the request is for *)

\* A bug to catch: the latest close of the period is superseded, whatever it is.
SupersedesLatestOf(l, c) == l # None /\ l.end = c.end

\* The latest close is a reopened one of the same period: a new version of it.
SupersedesLatest(l, c) ==
  /\ l # None
  /\ l.end = c.end
  /\ close[l].status = "REOPENED"

RepeatsLatest(l, c) ==
  /\ l # None
  /\ l.end = c.end
  /\ close[l].status # "REOPENED"
  /\ l.input = c.input

Duplicate(r, c) == Goto(r, "persistBatch", [req[r] EXCEPT !.c = c])

ReadLatest(r) ==
  LET c == req[r].c
      l == req[r].latest
  IN
  /\ req[r].at = "readLatest"
  /\ IF SupersedesLatest(l, c)
     THEN Goto(r, "readVersion", [req[r] EXCEPT !.c.nonce = close[l].nonce,
                                                !.supersedes = l])
     ELSE IF RepeatsLatest(l, c) THEN Duplicate(r, l)
     ELSE Goto(r, "readBase", req[r])
  /\ Reads

ReadVersion(r) ==
  /\ req[r].at = "readVersion"
  /\ IF close[req[r].c].status # "ABSENT"
     THEN Duplicate(r, req[r].c)
     ELSE Goto(r, "batchLedgerOpen", req[r])
  /\ Reads

\* A bug to catch: a known close is prepared afresh.
ReadBaseBlindly(r) ==
  /\ req[r].at = "readBase"
  /\ Goto(r, "batchLedgerOpen", req[r])
  /\ Reads

\* The very inputs were prepared before: a duplicate, unless the close was
\* reopened and the deployment has a newer one.
ReadBase(r) ==
  LET c == req[r].c IN
  /\ req[r].at = "readBase"
  /\ CASE close[c].status = "ABSENT" -> Goto(r, "batchLedgerOpen", req[r])
       [] close[c].status = "REOPENED" /\ req[r].latest # c -> Answer(r)
       [] OTHER -> Duplicate(r, c)
  /\ Reads

-----------------------------------------------------------------------------
(* Writing *)

StoreBatch(r) ==
  /\ req[r].at = "storeBatch"
  /\ batches' = batches \cup {BatchOf(req[r].c)}
  /\ Goto(r, "storeCycle", req[r])
  /\ UNCHANGED <<close, latest, mirror, reopens, crashes, ledgerVars>>

\* One multi-path update: cycle, close and the deployment's latest ids.
StoreCycle(r) ==
  /\ req[r].at = "storeCycle"
  /\ close' = [close EXCEPT ![req[r].c] = [status |-> "PREPARED_NOT_CLOSED", nonce |-> 0,
                                           supersedes |-> req[r].supersedes]]
  /\ latest' = req[r].c
  /\ Goto(r, "persistBatch", req[r])
  /\ UNCHANGED <<batches, mirror, reopens, crashes, ledgerVars>>

\* A bug to catch: the route forgets the cycle once the batch is persisted.
PersistBatchOnly(r) ==
  LET w == BatchOf(req[r].c) IN
  /\ req[r].at = "persistBatch"
  /\ Answer(r)
  /\ \/ Ledger!PersistBookkeepingBatch(Org, w)
     \/ /\ recorded[w] # None \/ Ledger!Blocking(w) # {}
        /\ UNCHANGED ledgerVars
  /\ UNCHANGED <<close, batches, latest, mirror, reopens, crashes>>

\* persistBookkeepingBatch: recorded, known already, or refused by a lock.
PersistBatch(r) ==
  LET w == BatchOf(req[r].c) IN
  /\ req[r].at = "persistBatch"
  /\ \/ /\ Ledger!PersistBookkeepingBatch(Org, w)
        /\ Goto(r, "persistCycle", req[r])
     \/ /\ recorded[w] # None
        /\ Goto(r, "persistCycle", req[r])
        /\ UNCHANGED ledgerVars
     \/ /\ recorded[w] = None
        /\ Ledger!Blocking(w) # {}
        /\ Answer(r)
        /\ UNCHANGED ledgerVars
  /\ UNCHANGED <<close, batches, latest, mirror, reopens, crashes>>

\* persistFinanceCycle, and the answer in any case.
PersistCycle(r) ==
  LET w == CycleOf(req[r].c) IN
  /\ req[r].at = "persistCycle"
  /\ \/ Ledger!PersistFinanceCycle(Org, w)
     \/ /\ recorded[w] # None \/ Ledger!Blocking(w) # {}
        /\ UNCHANGED ledgerVars
  /\ Answer(r)
  /\ UNCHANGED <<close, batches, latest, mirror, reopens, crashes>>

-----------------------------------------------------------------------------
(* Approve, lock and reopen, each with both its stores in one step *)

MayAct == Interleaved \/ \A r \in Requests : req[r] = IdleRequest

SetStatus(c, s) == close' = [close EXCEPT ![c].status = s]

Approve(c) ==
  /\ close[c].status = "PREPARED_NOT_CLOSED"
  /\ Ledger!RecordCloseApproval(Org, c, Evidence)
  /\ SetStatus(c, "APPROVED_PENDING_LOCK")
  /\ UNCHANGED <<batches, latest, mirror, reopens, req, crashes>>

LockClose(c) ==
  /\ close[c].status = "APPROVED_PENDING_LOCK"
  /\ ~MirrorBlocks(c)
  /\ Ledger!CommitPeriodLock(Org, c, Evidence)
  /\ SetStatus(c, "LOCKED")
  /\ mirror' = mirror \cup {c}
  /\ UNCHANGED <<batches, latest, reopens, req, crashes>>

Reopen(c) ==
  /\ close[c].status = "LOCKED"
  /\ reopens < MaxReopens
  /\ Ledger!ReopenPeriodLock(Org, c, reopens + 1)
  /\ close' = [close EXCEPT ![c].status = "REOPENED", ![c].nonce = reopens + 1]
  /\ mirror' = mirror \ {c}
  /\ reopens' = reopens + 1
  /\ UNCHANGED <<batches, latest, req, crashes>>

-----------------------------------------------------------------------------

Step(r) ==
  \/ AssertLedgerOpen(r, "ledgerOpen", "mirrorOpen")
  \/ AssertMirrorOpen(r, "mirrorOpen", "readLatest")
  \/ ReadLatest(r) \/ ReadVersion(r) \/ ReadBase(r)
  \/ AssertLedgerOpen(r, "batchLedgerOpen", "batchMirrorOpen")
  \/ AssertMirrorOpen(r, "batchMirrorOpen", "storeBatch")
  \/ StoreBatch(r) \/ StoreCycle(r) \/ PersistBatch(r) \/ PersistCycle(r)

Next ==
  \/ \E r \in Requests :
       \/ \E p \in Periods, x \in Inputs : Prepare(r, p, x)
       \/ Step(r)
       \/ Crash(r)
  \/ MayAct /\ \E c \in CloseIds : Approve(c) \/ LockClose(c) \/ Reopen(c)

Spec == Init /\ [][Next]_vars

-----------------------------------------------------------------------------
(* Properties *)

\* Lineage points back at reopened closes of the same period end only, and the
\* nonce of the version is that of the reopen it answers.
SupersededWasReopened ==
  \A c \in CloseIds : close[c].supersedes # None =>
    /\ close[close[c].supersedes].status = "REOPENED"
    /\ close[c].supersedes.end = c.end
    /\ c.nonce = close[close[c].supersedes].nonce

\* One reopen leads to one new version: lineage does not fork.
SupersededOnce ==
  \A c, d \in CloseIds :
    close[c].supersedes # None /\ close[c].supersedes = close[d].supersedes => c = d

\* The versions of a period's close form chains, each of a reopened close and the one
\* that answers it.
LineageIsAChain == SupersededWasReopened /\ SupersededOnce

\* Unless a request was cut off, what is locked is in the ledger: the close, its
\* cycle and its batch, not only the lock.
LockedCloseIsBooked ==
  crashes = 0 =>
    \A c \in CloseIds : close[c].status = "LOCKED" =>
      /\ c \in closeDocs
      /\ recorded[CycleOf(c)] # None
      /\ recorded[BatchOf(c)] # None

\* Submitting a cycle again never takes its close back to prepared: an approval,
\* a lock and a reopen survive every retry.
RetriesKeepTheClose ==
  [][\A c \in CloseIds :
       close[c].status \in {"APPROVED_PENDING_LOCK", "LOCKED", "REOPENED"}
       => close'[c].status # "PREPARED_NOT_CLOSED"]_vars

\* No finance cycle appears in the workflow on a day the ledger holds locked.
LockedPeriodBlocksCycles ==
  [][\A c \in CloseIds : close[c].status = "ABSENT" /\ close'[c].status # "ABSENT" =>
       \A l \in activeLocks[Company] : ~Ledger!Collide(c, l[1])]_vars

=============================================================================
