------------------------- MODULE FinanceCycleProofs -------------------------
(***************************************************************************)
(* Proofs about FinanceCycle for any number of requests, periods, inputs,  *)
(* reopens and crashes.                                                    *)
(*                                                                         *)
(* However requests interleave: types are kept, and every step is a step   *)
(* of PeriodLedger or leaves the ledger alone, so what PeriodLedgerProofs  *)
(* proves of the ledger holds here too.                                    *)
(*                                                                         *)
(* While no two requests are in flight at once (OneAtATime), and closes    *)
(* are approved, locked and reopened between requests (~Interleaved):      *)
(* what a request knows of the stores stays so until it writes (CycleInv), *)
(* and with it the versions of a close form chains, what is locked is      *)
(* booked, and no cycle appears in a locked period.                        *)
(***************************************************************************)
EXTENDS FinanceCycle, TLAPS

\* The ledger's own proofs, for the one company of the deployment.
Proved == INSTANCE PeriodLedgerProofs
            WITH Orgs <- {Org}, Companies <- {Company}, Closes <- CloseIds,
                 Hashes <- {Evidence}, Reasons <- 1 .. MaxReopens

\* The registers of a request, and the fields of a close.
IsRequest(q) ==
  q = [at |-> q.at, c |-> q.c, latest |-> q.latest, supersedes |-> q.supersedes]

IsClose(v) == v = [status |-> v.status, nonce |-> v.nonce, supersedes |-> v.supersedes]

\* What the status of a close can be.
Statuses == {"ABSENT", "PREPARED_NOT_CLOSED", "APPROVED_PENDING_LOCK", "LOCKED", "REOPENED"}

\* Every register a request has filled holds what belongs there.
IsTypedRequest(q) ==
  /\ IsRequest(q)
  /\ q.at # "idle" => /\ q.c \in CloseIds
                      /\ q.latest \in CloseIds \cup {None}
                      /\ q.supersedes \in CloseIds \cup {None}

\* What the workflow stores of closes.
ClosesAreTyped ==
  /\ DOMAIN close = CloseIds
  /\ \A c \in CloseIds : /\ IsClose(close[c]) /\ close[c].status \in Statuses
                         /\ close[c].nonce \in 0 .. MaxReopens
                         /\ close[c].supersedes \in CloseIds \cup {None}
  /\ latest \in CloseIds \cup {None}

\* The types of the stores and of every request.
TypeInv ==
  /\ ClosesAreTyped
  /\ reopens \in 0 .. MaxReopens /\ crashes \in Nat
  /\ DOMAIN req = Requests /\ \A r \in Requests : IsTypedRequest(req[r])

\* A cycle on record has its close on record.
CyclesCarryCloses ==
  /\ DOMAIN recorded = Works
  /\ \A c \in CloseIds : recorded[CycleOf(c)] # None => c \in closeDocs

-----------------------------------------------------------------------------
(* One request at a time *)

\* At most one request is in flight.
OneAtATime ==
  \A r, s \in Requests : req[r] # IdleRequest /\ req[s] # IdleRequest => r = s

\* The close, its cycle and its batch are in the ledger.
Booked(c) == /\ c \in closeDocs
             /\ recorded[CycleOf(c)] # None
             /\ recorded[BatchOf(c)] # None

\* A version that supersedes s is the one that answers the reopen of s.
Answers(c, s) ==
  close[s].status = "REOPENED" /\ s.end = c.end /\ c.nonce = close[s].nonce

\* Where a request is: past the ledger's gate, past its decision, at the ledger.
Writing == {"batchMirrorOpen", "storeBatch", "storeCycle"}
Preparing == {"batchLedgerOpen"} \cup Writing
Persisting == {"persistBatch", "persistCycle"}

\* What a request knows of the stores while no other one runs.
Knows(q) ==
  /\ q.at \notin {"idle"} \cup Persisting => q.latest = latest
  /\ q.at \in {"ledgerOpen", "mirrorOpen", "readLatest", "readBase"} => q.supersedes = None
  /\ q.at \in {"readVersion"} \cup Preparing /\ q.supersedes # None =>
       q.supersedes = latest /\ Answers(q.c, latest)
  /\ q.at \in Preparing => close[q.c].status = "ABSENT"
  /\ q.at \in Writing => Ledger!Blocking(q.c) = {}
  /\ q.at \in Persisting => close[q.c].status # "ABSENT"
  /\ q.at \in Persisting /\ crashes = 0 => Booked(q.c) \/ Ledger!Blocking(q.c) = {}
  /\ q.at = "persistCycle" => recorded[BatchOf(q.c)] # None

\* A close that is superseded was reopened, is answered by the version that supersedes it,
\* and is no longer the latest.
CloseIsGood(c) ==
  /\ close[c].status = "ABSENT" => close[c].supersedes = None
  /\ close[c].supersedes # None => /\ Answers(c, close[c].supersedes)
                                   /\ latest # close[c].supersedes

\* Lineage does not fork, and the latest close exists.
LineageIsGood ==
  /\ \A c \in CloseIds : CloseIsGood(c)
  /\ SupersededOnce
  /\ latest # None => close[latest].status # "ABSENT"

\* The request that prepared the close is about to book it.
GettingBooked(c) ==
  /\ close[c].status = "PREPARED_NOT_CLOSED"
  /\ \E r \in Requests : req[r].at \in Persisting /\ req[r].c = c

\* As long as nothing was cut off, a close is booked, or gets booked before anything else.
ClosesGetBooked ==
  crashes = 0 =>
    \A c \in CloseIds : close[c].status # "ABSENT" => Booked(c) \/ GettingBooked(c)

\* The invariant of one request at a time.
CycleInv == LineageIsGood /\ ClosesGetBooked /\ \A r \in Requests : Knows(req[r])

-----------------------------------------------------------------------------
(* Closes and the work that carries them *)

\* What an id of a close is made of.
LEMMA IdParts ==
  ASSUME NEW c \in CloseIds
  PROVE  /\ c.company = Company /\ c.start \in Int /\ c.end \in Int /\ c.start <= c.end
         /\ c.nonce \in 0 .. MaxReopens /\ c # None
         /\ BatchOf(c) \in Works /\ CycleOf(c) \in Works
<1>1. PICK p \in Periods, x \in Inputs, n \in 0 .. MaxReopens : c = CloseId(p, x, n)
  BY DEF CloseIds
<1>2. c.company = Company /\ c.start = p.start /\ c.end = p.end /\ c.nonce = n
  BY <1>1 DEF CloseId
<1>3. c # None
  BY NoneAssumption
<1>4. BatchOf(c) \in Works /\ CycleOf(c) \in Works
  BY Zenon DEF Works
<1>5. QED  BY <1>2, <1>3, <1>4, CycleAssumption

\* A version of a close is a close of the same days and inputs.
LEMMA VersionIsClose ==
  ASSUME NEW c \in CloseIds, NEW n \in 0 .. MaxReopens
  PROVE  /\ [c EXCEPT !.nonce = n] \in CloseIds
         /\ [c EXCEPT !.nonce = n].end = c.end /\ [c EXCEPT !.nonce = n].nonce = n
<1>1. PICK p \in Periods, x \in Inputs, k \in 0 .. MaxReopens : c = CloseId(p, x, k)
  BY DEF CloseIds
<1>2. [c EXCEPT !.nonce = n] = CloseId(p, x, n)
  BY <1>1 DEF CloseId
<1>3. QED  BY <1>1, <1>2 DEF CloseIds, CloseId

\* A new request is for a close.
LEMMA FirstVersionIsClose ==
  ASSUME NEW p \in Periods, NEW x \in Inputs
  PROVE  CloseId(p, x, 0) \in CloseIds
BY CycleAssumption DEF CloseIds

\* The work of a close covers its days.
LEMMA WorkOfClose ==
  ASSUME NEW c \in CloseIds
  PROVE  /\ Ledger!Blocking(BatchOf(c)) = Ledger!Blocking(c)
         /\ Ledger!Blocking(CycleOf(c)) = Ledger!Blocking(c)
         /\ BatchOf(c).company = Company /\ CycleOf(c).company = Company
         /\ CycleOf(c).close = c
         /\ BatchOf(c).kind = "BOOKKEEPING_BATCH" /\ CycleOf(c).kind = "FINANCE_CYCLE"
BY IdParts DEF BatchOf, CycleOf, Ledger!Blocking, Ledger!RangesOverlap

\* A cycle is of one close.
LEMMA CycleOfOne ==
  ASSUME NEW c, NEW d, CycleOf(c) = CycleOf(d)
  PROVE  c = d
BY DEF CycleOf

\* A batch is no cycle.
LEMMA BatchIsNoCycle ==
  ASSUME NEW c, NEW d
  PROVE  BatchOf(c) # CycleOf(d)
<1>1. BatchOf(c).kind = "BOOKKEEPING_BATCH" /\ CycleOf(d).kind = "FINANCE_CYCLE"
  BY DEF BatchOf, CycleOf
<1>2. QED  BY <1>1

-----------------------------------------------------------------------------
(* The ledger *)

\* The constants are constants of a ledger.
LEMMA LedgerConstants ==
  Proved!LedgerAssumption
<1>1. \A c \in CloseIds : /\ c.company \in {Company}
                          /\ c.start \in Int /\ c.end \in Int /\ c.start <= c.end
  BY IdParts
<1>2. \A w \in Works : /\ w.company \in {Company}
                       /\ w.start \in Int /\ w.end \in Int /\ w.start <= w.end
                       /\ w.fits \in BOOLEAN
                       /\ w.kind \in {"PAYROLL_RUN", "BOOKKEEPING_BATCH", "FINANCE_CYCLE"}
                       /\ w.kind = "FINANCE_CYCLE" => w.close \in CloseIds
  <2>1. ASSUME NEW w \in Works
        PROVE  /\ w.company \in {Company}
               /\ w.start \in Int /\ w.end \in Int /\ w.start <= w.end
               /\ w.fits \in BOOLEAN
               /\ w.kind \in {"PAYROLL_RUN", "BOOKKEEPING_BATCH", "FINANCE_CYCLE"}
               /\ w.kind = "FINANCE_CYCLE" => w.close \in CloseIds
    <3>1. PICK c \in CloseIds : w = CycleOf(c) \/ w = BatchOf(c)
      BY DEF Works
    <3>2. c.start \in Int /\ c.end \in Int /\ c.start <= c.end
      BY IdParts
    <3>3. CASE w = CycleOf(c)
      BY <3>2, <3>3 DEF CycleOf
    <3>4. CASE w = BatchOf(c)
      BY <3>2, <3>4 DEF BatchOf
    <3>5. QED  BY <3>1, <3>3, <3>4
  <2>2. QED  BY <2>1
<1>3. None \notin {Org} \cup {Evidence} \cup (CloseIds \X {Evidence})
  BY NoneAssumption
<1>4. QED  BY <1>1, <1>2, <1>3 DEF Proved!LedgerAssumption

\* What approving, locking and reopening do to the ledger.
LEMMA ClosesUseTheLedger ==
  ASSUME TypeInv, NEW c \in CloseIds, Approve(c) \/ LockClose(c) \/ Reopen(c)
  PROVE  [Ledger!Next]_ledgerVars
<1>1. CASE Approve(c)
  <2>1. Ledger!RecordCloseApproval(Org, c, Evidence)
    BY <1>1, Zenon DEF Approve
  <2>2. QED  BY <2>1, Zenon DEF Ledger!Next
<1>2. CASE LockClose(c)
  <2>1. Ledger!CommitPeriodLock(Org, c, Evidence)
    BY <1>2, Zenon DEF LockClose
  <2>2. QED  BY <2>1, Zenon DEF Ledger!Next
<1>3. CASE Reopen(c)
  <2>1. Ledger!ReopenPeriodLock(Org, c, reopens + 1) /\ reopens < MaxReopens
    BY <1>3, Zenon DEF Reopen
  <2>2. reopens + 1 \in 1 .. MaxReopens
    BY <2>1, CycleAssumption DEF TypeInv
  <2>3. QED  BY <2>1, <2>2, Zenon DEF Ledger!Next
<1>4. QED  BY <1>1, <1>2, <1>3

\* What a request does to the ledger.
LEMMA RequestsUseTheLedger ==
  ASSUME TypeInv, NEW r \in Requests, Step(r)
  PROVE  [Ledger!Next]_ledgerVars
<1>1. PICK q : q = req[r] /\ IsTypedRequest(q)
  BY DEF TypeInv
<1>2. CASE PersistBatch(r)
  <2>1. /\ q.at = "persistBatch"
        /\ Ledger!PersistBookkeepingBatch(Org, BatchOf(q.c)) \/ UNCHANGED ledgerVars
    BY <1>1, <1>2, Zenon DEF PersistBatch
  <2>2. BatchOf(q.c) \in Works
    BY <1>1, <2>1, IdParts DEF IsTypedRequest
  <2>3. QED  BY <2>1, <2>2, Zenon DEF Ledger!Next
<1>3. CASE PersistCycle(r)
  <2>1. /\ q.at = "persistCycle"
        /\ Ledger!PersistFinanceCycle(Org, CycleOf(q.c)) \/ UNCHANGED ledgerVars
    BY <1>1, <1>3, Zenon DEF PersistCycle
  <2>2. CycleOf(q.c) \in Works
    BY <1>1, <2>1, IdParts DEF IsTypedRequest
  <2>3. QED  BY <2>1, <2>2, Zenon DEF Ledger!Next
<1>4. CASE ~PersistBatch(r) /\ ~PersistCycle(r)
  BY <1>4, Zenon DEF Step, AssertLedgerOpen, AssertMirrorOpen, ReadLatest, ReadVersion,
                     ReadBase, StoreBatch, StoreCycle, Reads
<1>5. QED  BY <1>2, <1>3, <1>4

\* No step does to the ledger what the ledger does not offer.
LEMMA LedgerUsed ==
  ASSUME TypeInv, [Next]_vars
  PROVE  [Ledger!Next]_ledgerVars
<1>1. CASE UNCHANGED vars
  BY <1>1 DEF vars
<1>2. ASSUME NEW r \in Requests, (\E p \in Periods, x \in Inputs : Prepare(r, p, x)) \/ Crash(r)
      PROVE  [Ledger!Next]_ledgerVars
  BY <1>2, Zenon DEF Prepare, Crash, Reads
<1>3. QED  BY <1>1, <1>2, RequestsUseTheLedger, ClosesUseTheLedger, Zenon DEF Next

\* The ledger's operations are those its proofs are about.
LEMMA SameLedger ==
  ASSUME [Ledger!Next]_ledgerVars
  PROVE  [Proved!Next]_(Proved!ledgerVars)
BY DEF Ledger!Next, Ledger!RegisterProductionCompany, Ledger!RecordCloseApproval,
       Ledger!CommitPeriodLock, Ledger!ReopenPeriodLock, Ledger!ApprovalStands,
       Ledger!ApprovalIsNew, Ledger!LockRequestValid, Ledger!HeldLocks, Ledger!LockIsNew,
       Ledger!ReopenStands, Ledger!ReopenIsNew, Ledger!MarkReopened, Ledger!RemainingLocks,
       Ledger!Registered, Ledger!Blocking, Ledger!RangesOverlap, Ledger!ledgerVars,
       Ledger!PersistPayrollRun, Ledger!PersistBookkeepingBatch, Ledger!PersistFinanceCycle,
       Ledger!PersistWork,
       Proved!Next, Proved!RegisterProductionCompany, Proved!RecordCloseApproval,
       Proved!CommitPeriodLock, Proved!ReopenPeriodLock, Proved!ApprovalStands,
       Proved!ApprovalIsNew, Proved!LockRequestValid, Proved!HeldLocks, Proved!LockIsNew,
       Proved!ReopenStands, Proved!ReopenIsNew, Proved!MarkReopened, Proved!RemainingLocks,
       Proved!Registered, Proved!Blocking, Proved!RangesOverlap, Proved!ledgerVars,
       Proved!PersistPayrollRun, Proved!PersistBookkeepingBatch, Proved!PersistFinanceCycle,
       Proved!PersistWork, ledgerVars

\* Nothing is locked or recorded at first.
LEMMA LedgerInit ==
  ASSUME Init
  PROVE  Proved!LockInv /\ CyclesCarryCloses
<1>1. Proved!TypeOK
  BY DEF Init, Proved!TypeOK, Proved!LockIds, Proved!Statuses, Ledger!LockIds
<1>2. \A l \in Proved!LockIds : lock[l].status = "ABSENT"
  BY DEF Init, Proved!LockIds, Ledger!LockIds
<1>3. \A m \in {Company} : activeLocks[m] = {}
  BY DEF Init
<1>4. \A c \in CloseIds : lockIndex[c] = None
  BY DEF Init
<1>5. Proved!LockInv
  BY <1>1, <1>2, <1>3, <1>4
     DEF Proved!LockInv, Proved!LockStateMatchesLocks, Proved!NoOverlappingLocks,
         Proved!HeldLockIsIndexed, Proved!IndexNamesOwnLock, Proved!IsLocked
<1>6. CyclesCarryCloses
  BY IdParts DEF Init, CyclesCarryCloses
<1>7. QED  BY <1>5, <1>6

\* The locks, the lock state and the index of the closes agree after every step.
LEMMA LedgerStep ==
  ASSUME TypeInv, Proved!LockInv, [Next]_vars
  PROVE  Proved!LockInv'
BY LedgerUsed, SameLedger, LedgerConstants, Proved!LockInvStep

\* Work is recorded as it was, or as a work that is new.
LEMMA RecordedWork ==
  ASSUME [Ledger!Next]_ledgerVars
  PROVE  \/ recorded' = recorded /\ closeDocs' = closeDocs
         \/ \E w \in Works :
              /\ recorded' = [recorded EXCEPT ![w] = Org]
              /\ closeDocs' = IF w.kind = "FINANCE_CYCLE" THEN closeDocs \cup {w.close}
                                                          ELSE closeDocs
<1> USE DEF Ledger!ledgerVars, ledgerVars
<1>1. CASE \E w \in Works : Ledger!PersistPayrollRun(Org, w) \/ Ledger!PersistBookkeepingBatch(Org, w)
  BY <1>1 DEF Ledger!PersistPayrollRun, Ledger!PersistBookkeepingBatch, Ledger!PersistWork
<1>2. CASE \E w \in Works : Ledger!PersistFinanceCycle(Org, w)
  BY <1>2 DEF Ledger!PersistFinanceCycle, Ledger!PersistWork
<1>3. CASE \E m \in {Company} : Ledger!RegisterProductionCompany(Org, m)
  BY <1>3 DEF Ledger!RegisterProductionCompany
<1>4. CASE \E c \in CloseIds, h \in {Evidence} : Ledger!RecordCloseApproval(Org, c, h)
  BY <1>4 DEF Ledger!RecordCloseApproval
<1>5. CASE \E c \in CloseIds, h \in {Evidence} : Ledger!CommitPeriodLock(Org, c, h)
  BY <1>5 DEF Ledger!CommitPeriodLock
<1>6. CASE \E c \in CloseIds, r \in 1 .. MaxReopens : Ledger!ReopenPeriodLock(Org, c, r)
  BY <1>6 DEF Ledger!ReopenPeriodLock
<1>7. CASE UNCHANGED Ledger!ledgerVars
  BY <1>7
<1>8. QED  BY <1>1, <1>2, <1>3, <1>4, <1>5, <1>6, <1>7 DEF Ledger!Next

\* A cycle is recorded with its close, and what is booked stays booked.
LEMMA BookedStays ==
  ASSUME CyclesCarryCloses, [Ledger!Next]_ledgerVars
  PROVE  /\ CyclesCarryCloses'
         /\ \A w \in Works : recorded[w] # None => recorded'[w] # None
         /\ \A c \in CloseIds : Booked(c) => Booked(c)'
<1>1. CASE recorded' = recorded /\ closeDocs' = closeDocs
  BY <1>1 DEF CyclesCarryCloses, Booked
<1>2. ASSUME NEW w \in Works, recorded' = [recorded EXCEPT ![w] = Org],
             closeDocs' = IF w.kind = "FINANCE_CYCLE" THEN closeDocs \cup {w.close}
                                                      ELSE closeDocs
      PROVE  /\ CyclesCarryCloses'
             /\ \A v \in Works : recorded[v] # None => recorded'[v] # None
             /\ \A c \in CloseIds : Booked(c) => Booked(c)'
  <2>1. \A v \in Works : recorded'[v] = IF v = w THEN Org ELSE recorded[v]
    BY <1>2 DEF CyclesCarryCloses
  <2>2. Org # None
    BY NoneAssumption
  <2>3. ASSUME NEW c \in CloseIds, recorded'[CycleOf(c)] # None
        PROVE  c \in closeDocs'
    <3>1. CASE w = CycleOf(c)
      BY <1>2, <3>1, WorkOfClose
    <3>2. CASE w # CycleOf(c)
      BY <1>2, <2>1, <2>3, <3>2, IdParts DEF CyclesCarryCloses
    <3>3. QED  BY <3>1, <3>2
  <2>4. CyclesCarryCloses'
    BY <1>2, <2>3 DEF CyclesCarryCloses
  <2>5. \A c \in CloseIds : Booked(c) => Booked(c)'
    BY <1>2, <2>1, <2>2, IdParts DEF Booked
  <2>6. QED  BY <2>1, <2>2, <2>4, <2>5
<1>3. QED  BY <1>1, <1>2, RecordedWork

-----------------------------------------------------------------------------
(* How a request moves *)

\* The request becomes m, IdleRequest when it is answered, and no other one changes.
MovesTo(r, m) == req' = [req EXCEPT ![r] = m]

\* How the requests are after one moved.
LEMMA OneMoves ==
  ASSUME TypeInv, NEW r \in Requests, NEW m, MovesTo(r, m)
  PROVE  /\ DOMAIN req' = Requests /\ req'[r] = m
         /\ \A s \in Requests : s # r => req'[s] = req[s]
         /\ IsTypedRequest(m) => \A s \in Requests : IsTypedRequest(req'[s])
BY DEF MovesTo, TypeInv

\* A request that is not in flight is typed and relies on nothing.
LEMMA IdleIsGood ==
  IsTypedRequest(IdleRequest) /\ Knows(IdleRequest)
  /\ IdleRequest.at \notin Persisting /\ IdleRequest.at = "idle"
BY DEF IsTypedRequest, IsRequest, IdleRequest, Knows, Preparing, Writing, Persisting

\* The request a step moves on.
Moved(m, q, label, c, s) ==
  m = [at |-> label, c |-> c, latest |-> q.latest, supersedes |-> s]

\* The request goes on at another label.
LEMMA Going ==
  ASSUME NEW r, NEW q, q = req[r], IsRequest(q), NEW label, Goto(r, label, req[r])
  PROVE  \E m : MovesTo(r, m) /\ Moved(m, q, label, q.c, q.supersedes)
<1>1. PICK m : m = [q EXCEPT !.at = label]
  OBVIOUS
<1>2. MovesTo(r, m)
  BY <1>1 DEF Goto, MovesTo
<1>3. m = [at |-> label, c |-> q.c, latest |-> q.latest, supersedes |-> q.supersedes]
  BY <1>1 DEF IsRequest
<1>4. QED  BY <1>2, <1>3 DEF Moved

\* The request goes on for another version of its close.
LEMMA GoingElsewhere ==
  ASSUME NEW r, NEW q, q = req[r], IsRequest(q), NEW label, NEW c,
         Goto(r, label, [req[r] EXCEPT !.c = c])
  PROVE  \E m : MovesTo(r, m) /\ Moved(m, q, label, c, q.supersedes)
<1>1. PICK k : k = [q EXCEPT !.c = c]
  OBVIOUS
<1>2. PICK m : m = [k EXCEPT !.at = label]
  OBVIOUS
<1>3. MovesTo(r, m)
  BY <1>1, <1>2 DEF Goto, MovesTo
<1>4. k = [at |-> q.at, c |-> c, latest |-> q.latest, supersedes |-> q.supersedes]
  BY <1>1 DEF IsRequest
<1>5. m = [at |-> label, c |-> c, latest |-> q.latest, supersedes |-> q.supersedes]
  BY <1>2, <1>4
<1>6. QED  BY <1>3, <1>5 DEF Moved

\* Nothing changes that a request relies on.
Still == UNCHANGED <<close, latest, reopens, crashes, recorded, closeDocs, activeLocks>>

\* A read is still.
LEMMA ReadingIsStill ==
  ASSUME Reads
  PROVE  Still
BY DEF Reads, Still, ledgerVars

\* What a request knows does not change by itself.
LEMMA KnowledgeStays ==
  ASSUME Still, NEW q, Knows(q)
  PROVE  Knows(q)'
BY DEF Still, Knows, Answers, Booked, Ledger!Blocking

\* Lineage does not change by itself.
LEMMA LineageStays ==
  ASSUME LineageIsGood, UNCHANGED <<close, latest>>
  PROVE  LineageIsGood'
BY DEF LineageIsGood, CloseIsGood, Answers, SupersededOnce

\* A step of one request that leaves the stores alone.
LEMMA ReadStep ==
  ASSUME TypeInv, Still, NEW r \in Requests, NEW m, MovesTo(r, m), IsTypedRequest(m)
  PROVE  /\ TypeInv'
         /\ CycleInv /\ Knows(m) /\ req[r].at \notin Persisting => CycleInv'
<1>1. TypeInv'
  BY OneMoves DEF Still, TypeInv, ClosesAreTyped
<1>2. ASSUME CycleInv, Knows(m), req[r].at \notin Persisting
      PROVE  CycleInv'
  <2>1. LineageIsGood'
    BY <1>2, LineageStays DEF CycleInv, Still
  <2>2. ASSUME crashes' = 0, NEW c \in CloseIds, close'[c].status # "ABSENT"
        PROVE  Booked(c)' \/ GettingBooked(c)'
    <3>1. Booked(c) \/ GettingBooked(c)
      BY <1>2, <2>2 DEF Still, CycleInv, ClosesGetBooked
    <3>2. ASSUME Booked(c)
          PROVE  Booked(c)'
      BY <3>2 DEF Still, Booked
    <3>3. ASSUME NEW s \in Requests, req[s].at \in Persisting, req[s].c = c
          PROVE  req'[s] = req[s]
      BY <1>2, <3>3, OneMoves
    <3>4. QED  BY <3>1, <3>2, <3>3 DEF GettingBooked, Still
  <2>3. ASSUME NEW s \in Requests
        PROVE  Knows(req[s])'
    <3>1. PICK n : n = req'[s]
      OBVIOUS
    <3>2. Knows(n)
      BY <1>2, <3>1, OneMoves DEF CycleInv
    <3>3. Knows(n)'
      BY <3>2, KnowledgeStays
    <3>4. QED  BY <3>1, <3>3 DEF Knows, Answers, Booked, Ledger!Blocking
  <2>4. QED  BY <2>1, <2>2, <2>3 DEF CycleInv, ClosesGetBooked
<1>3. QED  BY <1>1, <1>2

\* An answer that leaves the stores alone.
LEMMA AnswerStep ==
  ASSUME TypeInv, Still, NEW r \in Requests, Answer(r), req[r].at \notin Persisting
  PROVE  TypeInv' /\ (CycleInv => CycleInv')
<1>1. MovesTo(r, IdleRequest)
  BY DEF Answer, MovesTo
<1>2. QED  BY <1>1, IdleIsGood, ReadStep

-----------------------------------------------------------------------------
(* The reads *)

\* A request comes in.
LEMMA PrepareStep ==
  ASSUME TypeInv, NEW r \in Requests, NEW p \in Periods, NEW x \in Inputs, Prepare(r, p, x)
  PROVE  TypeInv' /\ (CycleInv => CycleInv')
<1>1. req[r] = IdleRequest /\ Reads
      /\ Goto(r, "ledgerOpen", [IdleRequest EXCEPT !.c = CloseId(p, x, 0), !.latest = latest])
  BY Zenon DEF Prepare
<1>2. PICK c \in CloseIds : c = CloseId(p, x, 0)
  BY FirstVersionIsClose
<1>3. PICK k : k = [IdleRequest EXCEPT !.c = c]
  OBVIOUS
<1>4. PICK n : n = [k EXCEPT !.latest = latest]
  OBVIOUS
<1>5. PICK m : m = [n EXCEPT !.at = "ledgerOpen"]
  OBVIOUS
<1>6. MovesTo(r, m)
  BY <1>1, <1>2, <1>3, <1>4, <1>5 DEF Goto, MovesTo
<1>7. k = [at |-> "idle", c |-> c, latest |-> None, supersedes |-> None]
  BY <1>3 DEF IdleRequest
<1>8. n = [at |-> "idle", c |-> c, latest |-> latest, supersedes |-> None]
  BY <1>4, <1>7
<1>9. m = [at |-> "ledgerOpen", c |-> c, latest |-> latest, supersedes |-> None]
  BY <1>5, <1>8
<1>10. IsTypedRequest(m)
  BY <1>9 DEF IsTypedRequest, IsRequest, TypeInv, ClosesAreTyped
<1>11. Knows(m)
  BY <1>9 DEF Knows, Preparing, Writing, Persisting
<1>12. req[r].at \notin Persisting
  BY <1>1, IdleIsGood
<1>13. QED  BY <1>1, <1>6, <1>10, <1>11, <1>12, ReadingIsStill, ReadStep

\* The two gates, asked for the cycle and again for its batch.
Gates == {<<"ledgerOpen", "mirrorOpen">>, <<"mirrorOpen", "readLatest">>,
          <<"batchLedgerOpen", "batchMirrorOpen">>, <<"batchMirrorOpen", "storeBatch">>}

\* A gate lets the request on or answers it.
LEMMA GateStep ==
  ASSUME TypeInv, NEW r \in Requests, NEW from, NEW to, <<from, to>> \in Gates,
         req[r].at = from, Reads, Answer(r) \/ Goto(r, to, req[r]),
         Goto(r, to, req[r]) /\ to = "batchMirrorOpen" => Ledger!Blocking(req[r].c) = {}
  PROVE  TypeInv' /\ (CycleInv => CycleInv')
<1>1. PICK q : q = req[r] /\ IsTypedRequest(q) /\ q.at = from
  BY DEF TypeInv
<1>2. req[r].at \notin Persisting
  BY <1>1 DEF Gates, Persisting
<1>3. CASE Answer(r)
  BY <1>2, <1>3, ReadingIsStill, AnswerStep
<1>4. CASE Goto(r, to, req[r])
  <2>1. PICK m : MovesTo(r, m) /\ Moved(m, q, to, q.c, q.supersedes)
    BY <1>1, <1>4, Going DEF IsTypedRequest
  <2>2. /\ m.at = to /\ m.c = q.c /\ m.latest = q.latest /\ m.supersedes = q.supersedes
        /\ IsRequest(m)
    BY <2>1 DEF Moved, IsRequest
  <2>3. q.at # "idle"
    BY <1>1 DEF Gates
  <2>4. IsTypedRequest(m)
    BY <1>1, <2>2, <2>3 DEF IsTypedRequest
  <2>5. ASSUME CycleInv
        PROVE  Knows(m)
    <3>1. Knows(q)
      BY <1>1, <2>5 DEF CycleInv
    <3>2. CASE from = "ledgerOpen" /\ to = "mirrorOpen"
      BY <1>1, <2>2, <3>1, <3>2 DEF Knows, Preparing, Writing, Persisting
    <3>3. CASE from = "mirrorOpen" /\ to = "readLatest"
      BY <1>1, <2>2, <3>1, <3>3 DEF Knows, Preparing, Writing, Persisting
    <3>4. CASE from = "batchLedgerOpen" /\ to = "batchMirrorOpen"
      BY <1>1, <1>4, <2>2, <3>1, <3>4 DEF Knows, Preparing, Writing, Persisting
    <3>5. CASE from = "batchMirrorOpen" /\ to = "storeBatch"
      BY <1>1, <2>2, <3>1, <3>5 DEF Knows, Preparing, Writing, Persisting
    <3>6. QED  BY <3>2, <3>3, <3>4, <3>5 DEF Gates
  <2>6. QED  BY <1>2, <2>1, <2>4, <2>5, ReadingIsStill, ReadStep
<1>5. QED  BY <1>3, <1>4

\* The gates of the ledger.
LEMMA LedgerGateStep ==
  ASSUME TypeInv, NEW r \in Requests,
         \/ AssertLedgerOpen(r, "ledgerOpen", "mirrorOpen")
         \/ AssertLedgerOpen(r, "batchLedgerOpen", "batchMirrorOpen")
  PROVE  TypeInv' /\ (CycleInv => CycleInv')
<1>1. ASSUME NEW from, NEW to, <<from, to>> \in Gates, AssertLedgerOpen(r, from, to)
      PROVE  TypeInv' /\ (CycleInv => CycleInv')
  <2>1. /\ req[r].at = from /\ Reads
        /\ \/ Answer(r)
           \/ Goto(r, to, req[r]) /\ Ledger!Blocking(req[r].c) = {}
    BY <1>1, Zenon DEF AssertLedgerOpen
  <2>2. CASE Answer(r)
    <3>1. req[r].at \notin Persisting
      BY <1>1, <2>1 DEF Gates, Persisting
    <3>2. QED  BY <2>1, <2>2, <3>1, ReadingIsStill, AnswerStep
  <2>3. CASE Goto(r, to, req[r]) /\ Ledger!Blocking(req[r].c) = {}
    BY <1>1, <2>1, <2>3, GateStep
  <2>4. QED  BY <2>1, <2>2, <2>3
<1>2. QED  BY <1>1 DEF Gates

\* The gates of the mirror.
LEMMA MirrorGateStep ==
  ASSUME TypeInv, NEW r \in Requests,
         \/ AssertMirrorOpen(r, "mirrorOpen", "readLatest")
         \/ AssertMirrorOpen(r, "batchMirrorOpen", "storeBatch")
  PROVE  TypeInv' /\ (CycleInv => CycleInv')
<1>1. ASSUME NEW from, NEW to, <<from, to>> \in Gates, to # "batchMirrorOpen",
             AssertMirrorOpen(r, from, to)
      PROVE  TypeInv' /\ (CycleInv => CycleInv')
  <2>1. req[r].at = from /\ Reads /\ (Answer(r) \/ Goto(r, to, req[r]))
    BY <1>1, Zenon DEF AssertMirrorOpen
  <2>2. QED  BY <1>1, <2>1, GateStep
<1>2. QED  BY <1>1 DEF Gates

-----------------------------------------------------------------------------
(* Versions *)

\* No other request runs.
Alone(r) == \A s \in Requests : s # r => req[s] = IdleRequest

\* The close is there already: while no other request runs it is booked, unless one was
\* cut off.
LEMMA DuplicateStep ==
  ASSUME TypeInv, NEW r \in Requests, NEW c \in CloseIds, Reads, Duplicate(r, c),
         req[r].at \notin {"idle"} \cup Persisting
  PROVE  /\ TypeInv'
         /\ CycleInv /\ Alone(r) /\ close[c].status # "ABSENT" => CycleInv'
<1>1. PICK q : q = req[r] /\ IsTypedRequest(q)
  BY DEF TypeInv
<1>2. Goto(r, "persistBatch", [req[r] EXCEPT !.c = c])
  BY DEF Duplicate
<1>3. PICK m : MovesTo(r, m) /\ Moved(m, q, "persistBatch", c, q.supersedes)
  BY <1>1, <1>2, GoingElsewhere DEF IsTypedRequest
<1>4. /\ m.at = "persistBatch" /\ m.c = c /\ m.latest = q.latest
      /\ m.supersedes = q.supersedes /\ IsRequest(m)
  BY <1>3 DEF Moved, IsRequest
<1>5. IsTypedRequest(m)
  BY <1>1, <1>4 DEF IsTypedRequest
<1>6. ASSUME CycleInv, Alone(r), close[c].status # "ABSENT"
      PROVE  Knows(m)
  <2>1. \A s \in Requests : req[s].at \notin Persisting
    BY <1>6, IdleIsGood DEF Alone
  <2>2. crashes = 0 => Booked(c)
    BY <1>6, <2>1 DEF CycleInv, ClosesGetBooked, GettingBooked
  <2>3. QED  BY <1>4, <1>6, <2>2 DEF Knows, Preparing, Writing, Persisting
<1>7. QED  BY <1>3, <1>5, <1>6, ReadingIsStill, ReadStep

\* The close is new.
LEMMA FreshStep ==
  ASSUME TypeInv, NEW r \in Requests, Reads, Goto(r, "batchLedgerOpen", req[r]),
         req[r].at \in {"readVersion", "readBase"}, close[req[r].c].status = "ABSENT"
  PROVE  TypeInv' /\ (CycleInv => CycleInv')
<1>1. PICK q : q = req[r] /\ IsTypedRequest(q)
  BY DEF TypeInv
<1>2. PICK m : MovesTo(r, m) /\ Moved(m, q, "batchLedgerOpen", q.c, q.supersedes)
  BY <1>1, Going DEF IsTypedRequest
<1>3. /\ m.at = "batchLedgerOpen" /\ m.c = q.c /\ m.latest = q.latest
      /\ m.supersedes = q.supersedes /\ IsRequest(m)
  BY <1>2 DEF Moved, IsRequest
<1>4. IsTypedRequest(m)
  BY <1>1, <1>3 DEF IsTypedRequest
<1>5. ASSUME CycleInv
      PROVE  Knows(m)
  <2>1. Knows(q)
    BY <1>1, <1>5 DEF CycleInv
  <2>2. QED  BY <1>1, <1>3, <2>1 DEF Knows, Preparing, Writing, Persisting
<1>6. req[r].at \notin Persisting
  BY DEF Persisting
<1>7. QED  BY <1>2, <1>4, <1>5, <1>6, ReadingIsStill, ReadStep

\* The versions: which close the request is for.
LEMMA ReadLatestStep ==
  ASSUME TypeInv, NEW r \in Requests, ReadLatest(r)
  PROVE  TypeInv' /\ (CycleInv /\ Alone(r) => CycleInv')
<1>1. PICK q : q = req[r] /\ IsTypedRequest(q)
  BY DEF TypeInv
<1>2. PICK c, l : c = q.c /\ l = q.latest
  OBVIOUS
<1>3. /\ q.at = "readLatest" /\ Reads
      /\ \/ /\ SupersedesLatest(l, c)
            /\ Goto(r, "readVersion", [req[r] EXCEPT !.c.nonce = close[l].nonce,
                                                     !.supersedes = l])
         \/ RepeatsLatest(l, c) /\ Duplicate(r, l)
         \/ Goto(r, "readBase", req[r])
  BY <1>1, <1>2, Zenon DEF ReadLatest
<1>4. /\ c \in CloseIds /\ l \in CloseIds \cup {None} /\ IsRequest(q)
      /\ q.supersedes \in CloseIds \cup {None} /\ q.at \notin Persisting
  BY <1>1, <1>2, <1>3 DEF IsTypedRequest, Persisting
<1>5. CycleInv => q.latest = latest /\ q.supersedes = None
  BY <1>1, <1>3 DEF CycleInv, Knows, Persisting
<1>6. CASE /\ SupersedesLatest(l, c)
           /\ Goto(r, "readVersion", [req[r] EXCEPT !.c.nonce = close[l].nonce,
                                                    !.supersedes = l])
  <2>1. l \in CloseIds /\ l.end = c.end /\ close[l].status = "REOPENED"
        /\ close[l].nonce \in 0 .. MaxReopens
    BY <1>4, <1>6 DEF SupersedesLatest, TypeInv, ClosesAreTyped
  <2>2. PICK v : v = [c EXCEPT !.nonce = close[l].nonce]
    OBVIOUS
  <2>3. v \in CloseIds /\ v.end = c.end /\ v.nonce = close[l].nonce
    BY <1>4, <2>1, <2>2, VersionIsClose
  <2>4. PICK k : k = [q EXCEPT !.c = v]
    OBVIOUS
  <2>5. k = [at |-> q.at, c |-> v, latest |-> l, supersedes |-> q.supersedes]
    BY <1>2, <1>4, <2>4 DEF IsRequest
  <2>6. PICK n : n = [k EXCEPT !.supersedes = l]
    OBVIOUS
  <2>7. n = [at |-> q.at, c |-> v, latest |-> l, supersedes |-> l]
    BY <2>5, <2>6
  <2>8. PICK m : m = [n EXCEPT !.at = "readVersion"]
    OBVIOUS
  <2>9. m = [at |-> "readVersion", c |-> v, latest |-> l, supersedes |-> l]
    BY <2>7, <2>8
  <2>10. n = [req[r] EXCEPT !.c.nonce = close[l].nonce, !.supersedes = l]
    BY <1>1, <1>2, <2>2, <2>4, <2>6
  <2>11. MovesTo(r, m)
    BY <1>6, <2>8, <2>10 DEF Goto, MovesTo
  <2>12. IsTypedRequest(m)
    BY <2>1, <2>3, <2>9 DEF IsTypedRequest, IsRequest
  <2>13. CycleInv => Knows(m)
    BY <1>2, <1>5, <2>1, <2>3, <2>9 DEF Knows, Answers, Preparing, Writing, Persisting
  <2>14. QED  BY <1>1, <1>3, <1>4, <2>11, <2>12, <2>13, ReadingIsStill, ReadStep
<1>7. CASE RepeatsLatest(l, c) /\ Duplicate(r, l)
  <2>1. l \in CloseIds
    BY <1>4, <1>7 DEF RepeatsLatest
  <2>2. CycleInv => close[l].status # "ABSENT"
    BY <1>2, <1>5, <2>1, IdParts DEF CycleInv, LineageIsGood
  <2>3. QED  BY <1>1, <1>3, <1>4, <1>7, <2>1, <2>2, DuplicateStep
<1>8. CASE Goto(r, "readBase", req[r])
  <2>1. PICK m : MovesTo(r, m) /\ Moved(m, q, "readBase", q.c, q.supersedes)
    BY <1>1, <1>4, <1>8, Going
  <2>2. /\ m.at = "readBase" /\ m.c = q.c /\ m.latest = q.latest
        /\ m.supersedes = q.supersedes /\ IsRequest(m)
    BY <2>1 DEF Moved, IsRequest
  <2>3. IsTypedRequest(m)
    BY <1>2, <1>4, <2>2 DEF IsTypedRequest
  <2>4. CycleInv => Knows(m)
    BY <1>5, <2>2 DEF Knows, Preparing, Writing, Persisting
  <2>5. QED  BY <1>1, <1>3, <1>4, <2>1, <2>3, <2>4, ReadingIsStill, ReadStep
<1>9. QED  BY <1>3, <1>6, <1>7, <1>8

\* Is this version of the close stored already?
LEMMA ReadVersionStep ==
  ASSUME TypeInv, NEW r \in Requests, ReadVersion(r)
  PROVE  TypeInv' /\ (CycleInv /\ Alone(r) => CycleInv')
<1>1. PICK q : q = req[r] /\ IsTypedRequest(q)
  BY DEF TypeInv
<1>2. /\ q.at = "readVersion" /\ Reads
      /\ \/ close[q.c].status # "ABSENT" /\ Duplicate(r, q.c)
         \/ close[q.c].status = "ABSENT" /\ Goto(r, "batchLedgerOpen", req[r])
  BY <1>1, Zenon DEF ReadVersion
<1>3. q.c \in CloseIds /\ q.at \notin Persisting /\ q.at # "idle"
  BY <1>1, <1>2 DEF IsTypedRequest, Persisting
<1>4. CASE close[q.c].status # "ABSENT" /\ Duplicate(r, q.c)
  BY <1>1, <1>2, <1>3, <1>4, DuplicateStep
<1>5. CASE close[q.c].status = "ABSENT" /\ Goto(r, "batchLedgerOpen", req[r])
  BY <1>1, <1>2, <1>3, <1>5, FreshStep
<1>6. QED  BY <1>2, <1>4, <1>5

\* Were these inputs prepared before?
LEMMA ReadBaseStep ==
  ASSUME TypeInv, NEW r \in Requests, ReadBase(r)
  PROVE  TypeInv' /\ (CycleInv /\ Alone(r) => CycleInv')
<1>1. PICK q : q = req[r] /\ IsTypedRequest(q)
  BY DEF TypeInv
<1>2. /\ q.at = "readBase" /\ Reads
      /\ CASE close[q.c].status = "ABSENT" -> Goto(r, "batchLedgerOpen", req[r])
           [] close[q.c].status = "REOPENED" /\ q.latest # q.c -> Answer(r)
           [] OTHER -> Duplicate(r, q.c)
  BY <1>1, Zenon DEF ReadBase
<1>3. q.c \in CloseIds /\ q.at \notin Persisting /\ q.at # "idle"
  BY <1>1, <1>2 DEF IsTypedRequest, Persisting
<1>4. CASE close[q.c].status = "ABSENT"
  <2>1. Goto(r, "batchLedgerOpen", req[r])
    BY <1>2, <1>4
  <2>2. QED  BY <1>1, <1>2, <1>3, <1>4, <2>1, FreshStep
<1>5. CASE close[q.c].status # "ABSENT"
  <2>1. Answer(r) \/ Duplicate(r, q.c)
    BY <1>2, <1>5
  <2>2. CASE Answer(r)
    BY <1>1, <1>2, <1>3, <2>2, ReadingIsStill, AnswerStep
  <2>3. CASE Duplicate(r, q.c)
    BY <1>1, <1>2, <1>3, <1>5, <2>3, DuplicateStep
  <2>4. QED  BY <2>1, <2>2, <2>3
<1>6. QED  BY <1>4, <1>5

-----------------------------------------------------------------------------
(* The writes *)

\* The batch is stored; no close depends on it.
LEMMA StoreBatchStep ==
  ASSUME TypeInv, NEW r \in Requests, StoreBatch(r)
  PROVE  TypeInv' /\ (CycleInv => CycleInv')
<1>1. PICK q : q = req[r] /\ IsTypedRequest(q)
  BY DEF TypeInv
<1>2. /\ q.at = "storeBatch" /\ Goto(r, "storeCycle", req[r])
      /\ UNCHANGED <<close, latest, reopens, crashes, ledgerVars>>
  BY <1>1, Zenon DEF StoreBatch
<1>3. Still
  BY <1>2 DEF Still, ledgerVars
<1>4. PICK m : MovesTo(r, m) /\ Moved(m, q, "storeCycle", q.c, q.supersedes)
  BY <1>1, <1>2, Going DEF IsTypedRequest
<1>5. /\ m.at = "storeCycle" /\ m.c = q.c /\ m.latest = q.latest
      /\ m.supersedes = q.supersedes /\ IsRequest(m)
  BY <1>4 DEF Moved, IsRequest
<1>6. IsTypedRequest(m)
  BY <1>1, <1>2, <1>5 DEF IsTypedRequest
<1>7. ASSUME CycleInv
      PROVE  Knows(m)
  <2>1. Knows(q)
    BY <1>1, <1>7 DEF CycleInv
  <2>2. QED  BY <1>2, <1>5, <2>1 DEF Knows, Preparing, Writing, Persisting
<1>8. req[r].at \notin Persisting
  BY <1>1, <1>2 DEF Persisting
<1>9. QED  BY <1>3, <1>4, <1>6, <1>7, <1>8, ReadStep

\* The close c, which was not there, is stored as the version that supersedes s.
LEMMA LineageGrows ==
  ASSUME TypeInv, LineageIsGood, NEW c \in CloseIds, NEW s \in CloseIds \cup {None},
         close[c].status = "ABSENT",
         s # None => s = latest /\ Answers(c, s),
         close' = [close EXCEPT ![c] = [status |-> "PREPARED_NOT_CLOSED", nonce |-> 0,
                                        supersedes |-> s]],
         latest' = c
  PROVE  LineageIsGood'
<1>1. /\ \A d \in CloseIds : d # c => close'[d] = close[d]
      /\ close'[c].status = "PREPARED_NOT_CLOSED" /\ close'[c].supersedes = s
  BY DEF TypeInv, ClosesAreTyped
<1>2. \A d \in CloseIds : close[d].status = "REOPENED" => d # c /\ close'[d] = close[d]
  BY <1>1
<1>3. ASSUME NEW d \in CloseIds
      PROVE  CloseIsGood(d)'
  <2>1. CASE d = c
    <3>1. s # None => s \in CloseIds /\ close[s].status = "REOPENED"
      BY DEF Answers
    <3>2. s # None => s # c /\ close'[s] = close[s]
      BY <1>2, <3>1
    <3>3. QED  BY <1>1, <2>1, <3>2 DEF CloseIsGood, Answers
  <2>2. CASE d # c
    <3>1. PICK t : t = close[d].supersedes
      OBVIOUS
    <3>2. t # None => t \in CloseIds /\ Answers(d, t)
      BY <3>1 DEF LineageIsGood, CloseIsGood, TypeInv, ClosesAreTyped
    <3>3. t # None => t # c /\ close'[t] = close[t]
      BY <1>2, <3>2 DEF Answers
    <3>4. QED
      BY <1>1, <2>2, <3>1, <3>2, <3>3 DEF LineageIsGood, CloseIsGood, Answers
  <2>3. QED  BY <2>1, <2>2
<1>4. ASSUME NEW d \in CloseIds, NEW e \in CloseIds, close'[d].supersedes # None,
             close'[d].supersedes = close'[e].supersedes
      PROVE  d = e
  <2>1. CASE d # c /\ e # c
    BY <1>1, <1>4, <2>1 DEF LineageIsGood, SupersededOnce
  <2>2. ASSUME NEW f \in CloseIds, f # c, close[f].supersedes = s, s # None
        PROVE  FALSE
    BY <2>2 DEF LineageIsGood, CloseIsGood
  <2>3. QED  BY <1>1, <1>4, <2>1, <2>2
<1>5. latest' # None => close'[latest'].status # "ABSENT"
  BY <1>1
<1>6. QED  BY <1>3, <1>4, <1>5 DEF LineageIsGood, SupersededOnce

\* The cycle is stored with its close.
LEMMA StoreCycleStep ==
  ASSUME TypeInv, NEW r \in Requests, StoreCycle(r)
  PROVE  TypeInv' /\ (CycleInv /\ Alone(r) => CycleInv')
<1>1. PICK q : q = req[r] /\ IsTypedRequest(q)
  BY DEF TypeInv
<1>2. PICK c, s : c = q.c /\ s = q.supersedes
  OBVIOUS
<1>3. /\ q.at = "storeCycle" /\ Goto(r, "persistBatch", req[r])
      /\ close' = [close EXCEPT ![c] = [status |-> "PREPARED_NOT_CLOSED", nonce |-> 0,
                                        supersedes |-> s]]
      /\ latest' = c
      /\ UNCHANGED <<reopens, crashes, ledgerVars>>
  BY <1>1, <1>2, Zenon DEF StoreCycle
<1>4. c \in CloseIds /\ s \in CloseIds \cup {None}
  BY <1>1, <1>2, <1>3 DEF IsTypedRequest
<1>5. PICK m : MovesTo(r, m) /\ Moved(m, q, "persistBatch", c, s)
  BY <1>1, <1>2, <1>3, Going DEF IsTypedRequest
<1>6. /\ m.at = "persistBatch" /\ m.c = c /\ m.latest = q.latest
      /\ m.supersedes = s /\ IsRequest(m)
  BY <1>5 DEF Moved, IsRequest
<1>7. IsTypedRequest(m)
  BY <1>1, <1>3, <1>4, <1>6 DEF IsTypedRequest
<1>8. /\ DOMAIN close' = CloseIds
      /\ \A d \in CloseIds : d # c => close'[d] = close[d]
      /\ close'[c] = [status |-> "PREPARED_NOT_CLOSED", nonce |-> 0, supersedes |-> s]
  BY <1>3, <1>4 DEF TypeInv, ClosesAreTyped
<1>9. TypeInv'
  <2>1. 0 \in 0 .. MaxReopens
    BY CycleAssumption
  <2>2. ClosesAreTyped'
    BY <1>3, <1>4, <1>8, <2>1 DEF TypeInv, ClosesAreTyped, IsClose, Statuses
  <2>3. QED  BY <1>3, <1>5, <1>7, <2>2, OneMoves DEF TypeInv
<1>10. ASSUME CycleInv, Alone(r)
       PROVE  CycleInv'
  <2>1. /\ close[c].status = "ABSENT" /\ Ledger!Blocking(c) = {}
        /\ s # None => s = latest /\ Answers(c, s)
    BY <1>1, <1>2, <1>3, <1>10 DEF CycleInv, Knows, Preparing, Writing
  <2>2. LineageIsGood'
    BY <1>3, <1>4, <1>10, <2>1, LineageGrows DEF CycleInv
  <2>3. activeLocks' = activeLocks /\ recorded' = recorded /\ closeDocs' = closeDocs
        /\ crashes' = crashes
    BY <1>3 DEF ledgerVars
  <2>4. Knows(m)'
    BY <1>6, <1>8, <2>1, <2>3
       DEF Knows, Preparing, Writing, Persisting, Ledger!Blocking, Ledger!RangesOverlap
  <2>5. ASSUME NEW t \in Requests
        PROVE  Knows(req[t])'
    <3>1. PICK n : n = req'[t]
      OBVIOUS
    <3>2. n = m \/ n = IdleRequest
      BY <1>5, <1>10, <3>1, OneMoves DEF Alone
    <3>3. Knows(n)'
      BY <2>4, <3>2, IdleIsGood DEF Knows, Preparing, Writing, Persisting
    <3>4. QED  BY <3>1, <3>3 DEF Knows, Answers, Booked, Ledger!Blocking
  <2>6. ASSUME crashes' = 0, NEW d \in CloseIds, close'[d].status # "ABSENT"
        PROVE  Booked(d)' \/ GettingBooked(d)'
    <3>1. CASE d = c
      BY <1>5, <1>6, <1>8, <3>1, OneMoves DEF GettingBooked, Persisting
    <3>2. CASE d # c
      <4>1. \A t \in Requests : req[t].at \notin Persisting
        BY <1>1, <1>3, <1>10, IdleIsGood DEF Alone, Persisting
      <4>2. Booked(d)
        BY <1>8, <1>10, <2>3, <2>6, <3>2, <4>1 DEF CycleInv, ClosesGetBooked, GettingBooked
      <4>3. QED  BY <2>3, <4>2 DEF Booked
    <3>3. QED  BY <3>1, <3>2
  <2>7. QED  BY <2>2, <2>5, <2>6 DEF CycleInv, ClosesGetBooked
<1>11. QED  BY <1>9, <1>10

\* A step of the only request into the ledger, which locks nothing.
LEMMA PersistStep ==
  ASSUME TypeInv, CyclesCarryCloses, NEW r \in Requests, NEW m, MovesTo(r, m),
         IsTypedRequest(m), NEW c, c = req[r].c, req[r].at \in Persisting, [Ledger!Next]_ledgerVars,
         UNCHANGED <<close, latest, reopens, crashes, activeLocks>>
  PROVE  /\ TypeInv'
         /\ CycleInv /\ Alone(r) /\ Knows(m)'
              /\ (crashes = 0 => Booked(c)' \/ (m.at \in Persisting /\ m.c = c))
            => CycleInv'
<1>1. TypeInv'
  BY OneMoves DEF TypeInv, ClosesAreTyped
<1>2. ASSUME CycleInv, Alone(r), Knows(m)',
             crashes = 0 => Booked(c)' \/ (m.at \in Persisting /\ m.c = c)
      PROVE  CycleInv'
  <2>1. LineageIsGood'
    BY <1>2, LineageStays DEF CycleInv
  <2>2. ASSUME NEW t \in Requests
        PROVE  Knows(req[t])'
    <3>1. PICK n : n = req'[t]
      OBVIOUS
    <3>2. n = m \/ n = IdleRequest
      BY <1>2, <3>1, OneMoves DEF Alone
    <3>3. Knows(n)'
      BY <1>2, <3>2, IdleIsGood DEF Knows, Preparing, Writing, Persisting
    <3>4. QED  BY <3>1, <3>3 DEF Knows, Answers, Booked, Ledger!Blocking
  <2>3. ASSUME crashes' = 0, NEW d \in CloseIds, close'[d].status # "ABSENT"
        PROVE  Booked(d)' \/ GettingBooked(d)'
    <3>1. CASE d = c
      <4>1. Booked(d) \/ close[d].status = "PREPARED_NOT_CLOSED"
        BY <1>2, <2>3 DEF CycleInv, ClosesGetBooked, GettingBooked
      <4>2. Booked(d) => Booked(d)'
        BY BookedStays
      <4>3. QED  BY <1>2, <2>3, <3>1, <4>1, <4>2, OneMoves DEF GettingBooked
    <3>2. CASE d # c
      <4>1. \A t \in Requests : req[t].at \in Persisting => t = r
        BY <1>2, IdleIsGood DEF Alone
      <4>2. Booked(d)
        BY <1>2, <2>3, <3>2, <4>1 DEF CycleInv, ClosesGetBooked, GettingBooked
      <4>3. QED  BY <4>2, BookedStays
    <3>3. QED  BY <3>1, <3>2
  <2>4. QED  BY <2>1, <2>2, <2>3 DEF CycleInv, ClosesGetBooked
<1>3. QED  BY <1>1, <1>2

\* The batch goes into the ledger.
LEMMA PersistBatchStep ==
  ASSUME TypeInv, CyclesCarryCloses, NEW r \in Requests, PersistBatch(r)
  PROVE  TypeInv' /\ (CycleInv /\ Alone(r) => CycleInv')
<1>1. PICK q : q = req[r] /\ IsTypedRequest(q)
  BY DEF TypeInv
<1>2. PICK w : w = BatchOf(q.c)
  OBVIOUS
<1>3. /\ q.at = "persistBatch"
      /\ \/ /\ \/ Ledger!PersistBookkeepingBatch(Org, w)
               \/ recorded[w] # None /\ UNCHANGED ledgerVars
            /\ Goto(r, "persistCycle", req[r])
         \/ /\ recorded[w] = None /\ Ledger!Blocking(w) # {}
            /\ Answer(r) /\ UNCHANGED ledgerVars
      /\ UNCHANGED <<close, latest, reopens, crashes>>
  BY <1>1, <1>2, Zenon DEF PersistBatch
<1>4. q.c \in CloseIds /\ w \in Works
  BY <1>1, <1>2, <1>3, IdParts DEF IsTypedRequest
<1>5. [Ledger!Next]_ledgerVars
  BY <1>3, <1>4, Zenon DEF Ledger!Next
<1>6. activeLocks' = activeLocks
  BY <1>3 DEF Ledger!PersistBookkeepingBatch, Ledger!PersistWork, ledgerVars
<1>7. req[r].at \in Persisting
  BY <1>1, <1>3 DEF Persisting
<1>8. CASE Answer(r) /\ recorded[w] = None /\ Ledger!Blocking(w) # {}
  <2>1. MovesTo(r, IdleRequest)
    BY <1>8 DEF Answer, MovesTo
  <2>2. Knows(IdleRequest)'
    BY IdleIsGood DEF Knows, Preparing, Writing, Persisting
  <2>3. CycleInv => crashes # 0
    BY <1>1, <1>2, <1>4, <1>7, <1>8, WorkOfClose DEF CycleInv, Knows, Booked
  <2>4. QED
    BY <1>3, <1>5, <1>6, <1>7, <2>1, <2>2, <2>3, IdleIsGood, PersistStep
<1>9. CASE /\ \/ Ledger!PersistBookkeepingBatch(Org, w)
              \/ recorded[w] # None /\ UNCHANGED ledgerVars
           /\ Goto(r, "persistCycle", req[r])
  <2>1. PICK m : MovesTo(r, m) /\ Moved(m, q, "persistCycle", q.c, q.supersedes)
    BY <1>1, <1>9, Going DEF IsTypedRequest
  <2>2. /\ m.at = "persistCycle" /\ m.c = q.c /\ m.latest = q.latest
        /\ m.supersedes = q.supersedes /\ IsRequest(m)
    BY <2>1 DEF Moved, IsRequest
  <2>3. IsTypedRequest(m)
    BY <1>1, <1>3, <2>2 DEF IsTypedRequest
  <2>4. ASSUME CycleInv
        PROVE  Knows(m)'
    <3>1. /\ close[q.c].status # "ABSENT"
          /\ crashes = 0 => Booked(q.c) \/ Ledger!Blocking(q.c) = {}
      BY <1>1, <1>7, <2>4 DEF CycleInv, Knows
    <3>2. recorded'[w] # None
      <4>1. CASE Ledger!PersistBookkeepingBatch(Org, w)
        <5>1. recorded' = [recorded EXCEPT ![w] = Org]
          BY <4>1 DEF Ledger!PersistBookkeepingBatch, Ledger!PersistWork
        <5>2. QED  BY <1>4, <5>1, NoneAssumption DEF CyclesCarryCloses
      <4>2. CASE recorded[w] # None /\ UNCHANGED ledgerVars
        BY <4>2 DEF ledgerVars
      <4>3. QED  BY <1>9, <4>1, <4>2
    <3>3. crashes' = 0 => Booked(q.c)' \/ (Ledger!Blocking(q.c) = {})'
      BY <1>3, <1>4, <1>5, <1>6, <3>1, BookedStays DEF Ledger!Blocking
    <3>4. QED
      BY <1>2, <1>3, <2>2, <3>1, <3>2, <3>3
         DEF Knows, Preparing, Writing, Persisting, Booked, Ledger!Blocking
  <2>5. m.at \in Persisting
    BY <2>2 DEF Persisting
  <2>6. QED
    BY <1>1, <1>3, <1>5, <1>6, <1>7, <2>1, <2>2, <2>3, <2>4, <2>5, PersistStep
<1>10. QED  BY <1>3, <1>8, <1>9

\* The cycle goes into the ledger with its close, and the request is answered.
LEMMA PersistCycleStep ==
  ASSUME TypeInv, CyclesCarryCloses, NEW r \in Requests, PersistCycle(r)
  PROVE  TypeInv' /\ (CycleInv /\ Alone(r) => CycleInv')
<1>1. PICK q : q = req[r] /\ IsTypedRequest(q)
  BY DEF TypeInv
<1>2. PICK w : w = CycleOf(q.c)
  OBVIOUS
<1>3. /\ q.at = "persistCycle"
      /\ \/ Ledger!PersistFinanceCycle(Org, w)
         \/ (recorded[w] # None \/ Ledger!Blocking(w) # {}) /\ UNCHANGED ledgerVars
      /\ Answer(r)
      /\ UNCHANGED <<close, latest, reopens, crashes>>
  BY <1>1, <1>2, Zenon DEF PersistCycle
<1>4. q.c \in CloseIds /\ w \in Works
  BY <1>1, <1>2, <1>3, IdParts DEF IsTypedRequest
<1>5. [Ledger!Next]_ledgerVars
  BY <1>3, <1>4, Zenon DEF Ledger!Next
<1>6. activeLocks' = activeLocks
  BY <1>3 DEF Ledger!PersistFinanceCycle, Ledger!PersistWork, ledgerVars
<1>7. req[r].at \in Persisting
  BY <1>1, <1>3 DEF Persisting
<1>8. MovesTo(r, IdleRequest)
  BY <1>3 DEF Answer, MovesTo
<1>9. Knows(IdleRequest)'
  BY IdleIsGood DEF Knows, Preparing, Writing, Persisting
<1>10. ASSUME CycleInv, crashes = 0
       PROVE  Booked(q.c)'
  <2>1. Booked(q.c) \/ Ledger!Blocking(q.c) = {}
    BY <1>1, <1>7, <1>10 DEF CycleInv, Knows
  <2>2. recorded[BatchOf(q.c)] # None
    BY <1>1, <1>3, <1>10 DEF CycleInv, Knows
  <2>3. recorded'[w] # None /\ q.c \in closeDocs'
    <3>1. CASE Ledger!PersistFinanceCycle(Org, w)
      <4>1. /\ recorded' = [recorded EXCEPT ![w] = Org]
            /\ closeDocs' = closeDocs \cup {w.close}
        BY <3>1 DEF Ledger!PersistFinanceCycle, Ledger!PersistWork
      <4>2. QED
        BY <1>2, <1>4, <4>1, WorkOfClose, NoneAssumption DEF CyclesCarryCloses
    <3>2. CASE (recorded[w] # None \/ Ledger!Blocking(w) # {}) /\ UNCHANGED ledgerVars
      <4>1. recorded[w] # None /\ q.c \in closeDocs
        BY <1>2, <1>4, <2>1, <3>2, WorkOfClose DEF CyclesCarryCloses, Booked
      <4>2. QED  BY <3>2, <4>1 DEF ledgerVars
    <3>3. QED  BY <1>3, <3>1, <3>2
  <2>4. recorded'[BatchOf(q.c)] # None
    BY <1>4, <1>5, <2>2, BookedStays, IdParts
  <2>5. QED  BY <1>2, <2>3, <2>4 DEF Booked
<1>11. QED
  BY <1>1, <1>3, <1>5, <1>6, <1>7, <1>8, <1>9, <1>10, IdleIsGood, PersistStep

-----------------------------------------------------------------------------
(* Crashes, and what happens between requests *)

\* A request dies.
LEMMA CrashStep ==
  ASSUME TypeInv, NEW r \in Requests, Crash(r)
  PROVE  TypeInv' /\ (CycleInv => CycleInv')
<1>1. /\ crashes' = crashes + 1 /\ MovesTo(r, IdleRequest)
      /\ UNCHANGED <<close, latest, reopens, recorded, closeDocs, activeLocks>>
  BY DEF Crash, Answer, MovesTo, ledgerVars
<1>2. crashes' \in Nat /\ crashes' # 0
  BY <1>1 DEF TypeInv
<1>3. TypeInv'
  BY <1>1, <1>2, IdleIsGood, OneMoves DEF TypeInv, ClosesAreTyped
<1>4. ASSUME CycleInv
      PROVE  CycleInv'
  <2>1. LineageIsGood'
    BY <1>1, <1>4, LineageStays DEF CycleInv
  <2>2. ASSUME NEW t \in Requests
        PROVE  Knows(req[t])'
    <3>1. PICK n : n = req'[t]
      OBVIOUS
    <3>2. Knows(n)
      BY <1>1, <1>4, <3>1, OneMoves, IdleIsGood DEF CycleInv
    <3>3. Knows(n)'
      BY <1>1, <1>2, <3>2 DEF Knows, Answers, Ledger!Blocking
    <3>4. QED  BY <3>1, <3>3 DEF Knows, Answers, Booked, Ledger!Blocking
  <2>3. QED  BY <1>2, <2>1, <2>2 DEF CycleInv, ClosesGetBooked
<1>5. QED  BY <1>3, <1>4

\* Approving, locking and reopening change one close, in one of three ways.
LEMMA CloseChanges ==
  ASSUME TypeInv, NEW c \in CloseIds, Approve(c) \/ LockClose(c) \/ Reopen(c)
  PROVE  /\ DOMAIN close' = CloseIds
         /\ \A d \in CloseIds : d # c => close'[d] = close[d]
         /\ close[c].status \in Statuses \ {"ABSENT", "REOPENED"}
         /\ close'[c].status \in Statuses \ {"ABSENT", "PREPARED_NOT_CLOSED"}
         /\ IsClose(close'[c]) /\ close'[c].supersedes = close[c].supersedes
         /\ close'[c].nonce \in 0 .. MaxReopens
         /\ reopens' \in 0 .. MaxReopens
         /\ UNCHANGED <<latest, req, crashes>>
<1>1. IsClose(close[c]) /\ DOMAIN close = CloseIds /\ close[c].nonce \in 0 .. MaxReopens
      /\ reopens \in 0 .. MaxReopens
  BY DEF TypeInv, ClosesAreTyped
<1>2. ASSUME NEW s \in {"APPROVED_PENDING_LOCK", "LOCKED"}, SetStatus(c, s)
      PROVE  /\ DOMAIN close' = CloseIds
             /\ \A d \in CloseIds : d # c => close'[d] = close[d]
             /\ close'[c] = [status |-> s, nonce |-> close[c].nonce,
                             supersedes |-> close[c].supersedes]
  <2>1. close' = [close EXCEPT ![c].status = s]
    BY <1>2 DEF SetStatus
  <2>2. close'[c] = [close[c] EXCEPT !.status = s]
    BY <1>1, <2>1
  <2>3. close'[c] = [status |-> s, nonce |-> close[c].nonce, supersedes |-> close[c].supersedes]
    BY <1>1, <2>2 DEF IsClose
  <2>4. QED  BY <1>1, <2>1, <2>3
<1>3. CASE Approve(c)
  <2>1. /\ close[c].status = "PREPARED_NOT_CLOSED" /\ SetStatus(c, "APPROVED_PENDING_LOCK")
        /\ UNCHANGED <<latest, reopens, req, crashes>>
    BY <1>3, Zenon DEF Approve
  <2>2. QED  BY <1>1, <1>2, <2>1 DEF IsClose, Statuses
<1>4. CASE LockClose(c)
  <2>1. /\ close[c].status = "APPROVED_PENDING_LOCK" /\ SetStatus(c, "LOCKED")
        /\ UNCHANGED <<latest, reopens, req, crashes>>
    BY <1>4, Zenon DEF LockClose
  <2>2. QED  BY <1>1, <1>2, <2>1 DEF IsClose, Statuses
<1>5. CASE Reopen(c)
  <2>1. /\ close[c].status = "LOCKED" /\ reopens < MaxReopens /\ reopens' = reopens + 1
        /\ close' = [close EXCEPT ![c].status = "REOPENED", ![c].nonce = reopens + 1]
        /\ UNCHANGED <<latest, req, crashes>>
    BY <1>5, Zenon DEF Reopen
  <2>2. PICK v : v = [close EXCEPT ![c].status = "REOPENED"]
    OBVIOUS
  <2>3. close' = [v EXCEPT ![c].nonce = reopens + 1]
    BY <2>1, <2>2
  <2>4. /\ DOMAIN v = CloseIds /\ \A d \in CloseIds : d # c => v[d] = close[d]
        /\ v[c] = [close[c] EXCEPT !.status = "REOPENED"]
    BY <1>1, <2>2
  <2>5. v[c] = [status |-> "REOPENED", nonce |-> close[c].nonce,
                supersedes |-> close[c].supersedes]
    BY <1>1, <2>4 DEF IsClose
  <2>6. /\ DOMAIN close' = CloseIds /\ \A d \in CloseIds : d # c => close'[d] = close[d]
        /\ close'[c] = [v[c] EXCEPT !.nonce = reopens + 1]
    BY <2>3, <2>4
  <2>7. close'[c] = [status |-> "REOPENED", nonce |-> reopens + 1,
                     supersedes |-> close[c].supersedes]
    BY <2>5, <2>6
  <2>8. reopens' \in 0 .. MaxReopens
    BY <1>1, <2>1, CycleAssumption
  <2>9. QED  BY <2>1, <2>6, <2>7, <2>8 DEF IsClose, Statuses
<1>6. QED  BY <1>3, <1>4, <1>5

\* They keep lineage: what is superseded was reopened before, and stays so.
LEMMA CloseStep ==
  ASSUME TypeInv, CyclesCarryCloses, NEW c \in CloseIds,
         Approve(c) \/ LockClose(c) \/ Reopen(c)
  PROVE  /\ TypeInv'
         /\ CycleInv /\ (\A r \in Requests : req[r] = IdleRequest) => CycleInv'
<1>1. TypeInv'
  <2>1. ClosesAreTyped'
    BY CloseChanges DEF TypeInv, ClosesAreTyped
  <2>2. QED  BY <2>1, CloseChanges DEF TypeInv
<1>2. ASSUME CycleInv, \A r \in Requests : req[r] = IdleRequest
      PROVE  CycleInv'
  <2>1. \A d \in CloseIds : /\ close'[d].supersedes = close[d].supersedes
                            /\ close[d].status = "REOPENED" => close'[d] = close[d]
                            /\ close'[d].status = "ABSENT" => close[d].status = "ABSENT"
                            /\ close[d].status = "ABSENT" => close'[d].status = "ABSENT"
    BY CloseChanges
  <2>2. ASSUME NEW d \in CloseIds
        PROVE  CloseIsGood(d)'
    <3>1. PICK t : t = close[d].supersedes
      OBVIOUS
    <3>2. t # None => t \in CloseIds /\ Answers(d, t) /\ latest # t
      BY <1>2, <3>1 DEF CycleInv, LineageIsGood, CloseIsGood, TypeInv, ClosesAreTyped
    <3>3. t # None => Answers(d, t)'
      BY <2>1, <3>2 DEF Answers
    <3>4. close[d].status = "ABSENT" => close[d].supersedes = None
      BY <1>2 DEF CycleInv, LineageIsGood, CloseIsGood
    <3>5. latest' = latest
      BY CloseChanges
    <3>6. QED
      BY <2>1, <3>1, <3>2, <3>3, <3>4, <3>5 DEF CloseIsGood, Answers
  <2>3. LineageIsGood'
    <3>1. SupersededOnce'
      BY <1>2, <2>1 DEF CycleInv, LineageIsGood, SupersededOnce
    <3>2. (latest # None => close[latest].status # "ABSENT")'
      BY <1>2, <2>1, CloseChanges DEF CycleInv, LineageIsGood, TypeInv, ClosesAreTyped
    <3>3. QED  BY <2>2, <3>1, <3>2 DEF LineageIsGood
  <2>4. ASSUME NEW r \in Requests
        PROVE  Knows(req[r])'
    BY <1>2, CloseChanges, IdleIsGood DEF Knows, Preparing, Writing, Persisting
  <2>5. ASSUME crashes' = 0, NEW d \in CloseIds, close'[d].status # "ABSENT"
        PROVE  Booked(d)'
    <3>1. Booked(d)
      BY <1>2, <2>1, <2>5, CloseChanges, IdleIsGood
         DEF CycleInv, ClosesGetBooked, GettingBooked
    <3>2. QED  BY <3>1, ClosesUseTheLedger, BookedStays
  <2>6. QED  BY <2>3, <2>4, <2>5 DEF CycleInv, ClosesGetBooked
<1>3. QED  BY <1>1, <1>2

-----------------------------------------------------------------------------
(* Every step *)

\* The invariant of any interleaving.
StoresInv == TypeInv /\ CyclesCarryCloses /\ Proved!LockInv

\* Nothing happened yet.
LEMMA CycleInit ==
  ASSUME Init
  PROVE  StoresInv /\ CycleInv
<1>1. TypeInv
  <2>1. ClosesAreTyped
    BY CycleAssumption DEF Init, ClosesAreTyped, IsClose, Statuses
  <2>2. QED  BY <2>1, IdleIsGood, CycleAssumption DEF Init, TypeInv
<1>2. \A c \in CloseIds : close[c].status = "ABSENT" /\ close[c].supersedes = None
  BY DEF Init
<1>3. LineageIsGood
  BY <1>2 DEF Init, LineageIsGood, CloseIsGood, SupersededOnce
<1>4. ClosesGetBooked
  BY <1>2 DEF ClosesGetBooked
<1>5. \A r \in Requests : Knows(req[r])
  BY IdleIsGood DEF Init
<1>6. QED  BY <1>1, <1>3, <1>4, <1>5, LedgerInit DEF StoresInv, CycleInv

\* A step is one of a request that is in flight.
LEMMA SteppingIsBusy ==
  ASSUME NEW r \in Requests, Step(r)
  PROVE  req[r] # IdleRequest
<1>1. req[r].at # "idle"
  BY Zenon DEF Step, AssertLedgerOpen, AssertMirrorOpen, ReadLatest, ReadVersion, ReadBase,
               StoreBatch, StoreCycle, PersistBatch, PersistCycle
<1>2. QED  BY <1>1 DEF IdleRequest

\* A step of a request keeps the types, and what it knows if no other request runs.
LEMMA RequestStep ==
  ASSUME TypeInv, CyclesCarryCloses, NEW r \in Requests, Step(r)
  PROVE  TypeInv' /\ (CycleInv /\ Alone(r) => CycleInv')
<1>1. CASE \/ AssertLedgerOpen(r, "ledgerOpen", "mirrorOpen")
           \/ AssertLedgerOpen(r, "batchLedgerOpen", "batchMirrorOpen")
           \/ AssertMirrorOpen(r, "mirrorOpen", "readLatest")
           \/ AssertMirrorOpen(r, "batchMirrorOpen", "storeBatch")
  BY <1>1, LedgerGateStep, MirrorGateStep
<1>2. CASE ReadLatest(r) \/ ReadVersion(r) \/ ReadBase(r)
  BY <1>2, ReadLatestStep, ReadVersionStep, ReadBaseStep
<1>3. CASE StoreBatch(r) \/ StoreCycle(r) \/ PersistBatch(r) \/ PersistCycle(r)
  BY <1>3, StoreBatchStep, StoreCycleStep, PersistBatchStep, PersistCycleStep
<1>4. QED  BY <1>1, <1>2, <1>3, Zenon DEF Step

\* Every step keeps the types and the ledger, and what requests know while they come one at
\* a time and nothing happens to a close meanwhile.
LEMMA CycleStep ==
  ASSUME StoresInv, [Next]_vars
  PROVE  StoresInv' /\ (CycleInv /\ OneAtATime /\ ~Interleaved => CycleInv')
<1>1. TypeInv /\ CyclesCarryCloses /\ Proved!LockInv
  BY DEF StoresInv
<1>2. Proved!LockInv' /\ CyclesCarryCloses'
  BY <1>1, LedgerStep, LedgerUsed, BookedStays
<1>3. CASE UNCHANGED vars
  <2>1. Still /\ req' = req
    BY <1>3 DEF vars, Still, ledgerVars
  <2>2. TypeInv'
    BY <1>1, <2>1 DEF Still, TypeInv, ClosesAreTyped
  <2>3. ASSUME CycleInv
        PROVE  CycleInv'
    <3>1. LineageIsGood'
      BY <2>1, <2>3, LineageStays DEF CycleInv, Still
    <3>2. ClosesGetBooked'
      BY <2>1, <2>3 DEF CycleInv, ClosesGetBooked, GettingBooked, Booked, Still
    <3>3. ASSUME NEW t \in Requests
          PROVE  Knows(req[t])'
      <4>1. PICK n : n = req[t]
        OBVIOUS
      <4>2. Knows(n)'
        BY <2>1, <2>3, <4>1, KnowledgeStays DEF CycleInv
      <4>3. QED  BY <2>1, <4>1, <4>2 DEF Knows, Answers, Booked, Ledger!Blocking
    <3>4. QED  BY <3>1, <3>2, <3>3 DEF CycleInv
  <2>4. QED  BY <1>2, <2>2, <2>3 DEF StoresInv
<1>4. ASSUME NEW r \in Requests,
             (\E p \in Periods, x \in Inputs : Prepare(r, p, x)) \/ Crash(r)
      PROVE  TypeInv' /\ (CycleInv => CycleInv')
  BY <1>1, <1>4, PrepareStep, CrashStep
<1>5. ASSUME NEW r \in Requests, Step(r)
      PROVE  TypeInv' /\ (CycleInv /\ OneAtATime => CycleInv')
  <2>1. OneAtATime => Alone(r)
    BY <1>5, SteppingIsBusy DEF OneAtATime, Alone
  <2>2. QED  BY <1>1, <1>5, <2>1, RequestStep
<1>6. ASSUME MayAct, NEW c \in CloseIds, Approve(c) \/ LockClose(c) \/ Reopen(c)
      PROVE  TypeInv' /\ (CycleInv /\ ~Interleaved => CycleInv')
  BY <1>1, <1>6, CloseStep DEF MayAct
<1>7. CASE Next
  BY <1>2, <1>4, <1>5, <1>6, <1>7, Zenon DEF StoresInv, Next
<1>8. QED  BY <1>3, <1>7

\* Only StoreCycle makes a close a prepared one, and its close is that of a request that
\* found none, in a period without locks.
LEMMA OnlyStoreCyclePrepares ==
  ASSUME StoresInv, CycleInv, [Next]_vars,
         NEW c \in CloseIds, close'[c] # close[c],
         \/ close'[c].status = "PREPARED_NOT_CLOSED"
         \/ close[c].status = "ABSENT"
  PROVE  close[c].status = "ABSENT" /\ Ledger!Blocking(c) = {}
<1>1. TypeInv
  BY DEF StoresInv
<1>2. \A d \in CloseIds : ~Approve(d) /\ ~LockClose(d) /\ ~Reopen(d)
  BY <1>1, CloseChanges
<1>3. ASSUME NEW r \in Requests, StoreCycle(r)
      PROVE  close[c].status = "ABSENT" /\ Ledger!Blocking(c) = {}
  <2>1. PICK q : q = req[r]
    OBVIOUS
  <2>2. q.at = "storeCycle" /\ Knows(q)
    BY <1>3, <2>1 DEF StoreCycle, CycleInv
  <2>3. close' = [close EXCEPT ![q.c] = [status |-> "PREPARED_NOT_CLOSED", nonce |-> 0,
                                         supersedes |-> q.supersedes]]
    BY <1>3, <2>1, Zenon DEF StoreCycle
  <2>4. c = q.c
    BY <1>1, <2>3 DEF TypeInv, ClosesAreTyped
  <2>5. QED  BY <2>2, <2>4 DEF Knows, Preparing, Writing
<1>4. ASSUME close' = close
      PROVE  FALSE
  BY <1>4
<1>5. ASSUME NEW r \in Requests, Step(r), ~StoreCycle(r)
      PROVE  FALSE
  BY <1>4, <1>5, Zenon DEF Step, AssertLedgerOpen, AssertMirrorOpen, ReadLatest, ReadVersion,
                           ReadBase, StoreBatch, PersistBatch, PersistCycle, Reads
<1>6. ASSUME NEW r \in Requests,
             (\E p \in Periods, x \in Inputs : Prepare(r, p, x)) \/ Crash(r)
      PROVE  FALSE
  BY <1>4, <1>6, Zenon DEF Prepare, Crash, Reads
<1>7. CASE UNCHANGED vars
  BY <1>4, <1>7, Zenon DEF vars
<1>8. CASE Next
  BY <1>2, <1>3, <1>5, <1>6, <1>8, Zenon DEF Next
<1>9. QED  BY <1>7, <1>8

-----------------------------------------------------------------------------
(* The theorems *)

\* However requests interleave and die, and whatever happens to the closes meanwhile: types
\* are kept, the ledger's lock documents agree, and a cycle on record has its close there.
THEOREM StoresAreAlwaysTyped == Spec => []StoresInv
<1>1. Init => StoresInv
  BY CycleInit
<1>2. StoresInv /\ [Next]_vars => StoresInv'
  BY CycleStep
<1>3. QED  BY <1>1, <1>2, PTL DEF Spec

\* The composition: every step of the cycles is a step of PeriodLedger or none of its
\* business.  (Its initial states are not PeriodLedger's: the company is registered.)
THEOREM CyclesUseTheLedger == Spec => [][Ledger!Next]_ledgerVars
<1>1. StoresInv /\ [Next]_vars => [Ledger!Next]_ledgerVars
  BY LedgerUsed DEF StoresInv
<1>2. QED  BY <1>1, StoresAreAlwaysTyped, PTL DEF Spec

\* What the ledger promises holds under the cycles, for any interleaving.
THEOREM LedgerStaysGood ==
  Spec => [](Ledger!NoOverlappingLocks /\ Ledger!LockDocumentsAgree)
<1>1. StoresInv => Ledger!NoOverlappingLocks
  BY DEF StoresInv, Proved!LockInv, Proved!NoOverlappingLocks, Proved!LockIds,
         Proved!IsLocked, Proved!Collide, Ledger!NoOverlappingLocks, Ledger!LockIds,
         Ledger!IsLocked, Ledger!Collide
<1>2. StoresInv => Ledger!LockDocumentsAgree
  BY DEF StoresInv, Proved!LockInv, Proved!LockStateMatchesLocks, Proved!HeldLockIsIndexed,
         Proved!LockIds, Proved!IsLocked, Ledger!LockDocumentsAgree,
         Ledger!LockStateMatchesLocks, Ledger!HeldLockIsIndexed, Ledger!LockIds,
         Ledger!IsLocked
<1>3. QED  BY <1>1, <1>2, StoresAreAlwaysTyped, PTL

\* One request at a time, and nothing happens to a close meanwhile: what a request knows of
\* the stores stays so until it writes.
THEOREM OneRequestKnowsTheStores ==
  ASSUME ~Interleaved
  PROVE  Spec /\ []OneAtATime => []CycleInv
<1>1. Init => CycleInv
  BY CycleInit
<1>2. StoresInv /\ CycleInv /\ OneAtATime /\ [Next]_vars => CycleInv'
  BY CycleStep
<1>3. QED  BY <1>1, <1>2, StoresAreAlwaysTyped, PTL DEF Spec

\* One request at a time: the versions of a close form chains, each of a reopened close and
\* the one version that answers its reopen.
THEOREM LineageIsAlwaysAChain ==
  ASSUME ~Interleaved
  PROVE  Spec /\ []OneAtATime => []LineageIsAChain
<1>1. CycleInv => LineageIsAChain
  BY DEF CycleInv, LineageIsGood, CloseIsGood, Answers, LineageIsAChain, SupersededWasReopened
<1>2. QED  BY <1>1, OneRequestKnowsTheStores, PTL

\* One request at a time and none cut off: a locked close is in the ledger with its cycle
\* and its batch.
THEOREM LockedClosesAreBooked ==
  ASSUME ~Interleaved
  PROVE  Spec /\ []OneAtATime => []LockedCloseIsBooked
<1>1. CycleInv => LockedCloseIsBooked
  BY DEF CycleInv, ClosesGetBooked, GettingBooked, Booked, LockedCloseIsBooked
<1>2. QED  BY <1>1, OneRequestKnowsTheStores, PTL

\* One request at a time, retries of requests that died included: an approval, a lock and a
\* reopen survive every cycle that is submitted again.
THEOREM RetriesAlwaysKeepTheClose ==
  ASSUME ~Interleaved
  PROVE  Spec /\ []OneAtATime => RetriesKeepTheClose
<1>1. StoresInv /\ CycleInv /\ [Next]_vars =>
        [\A c \in CloseIds :
           close[c].status \in {"APPROVED_PENDING_LOCK", "LOCKED", "REOPENED"}
           => close'[c].status # "PREPARED_NOT_CLOSED"]_vars
  BY OnlyStoreCyclePrepares
<1>2. QED
  BY <1>1, OneRequestKnowsTheStores, StoresAreAlwaysTyped, PTL DEF Spec, RetriesKeepTheClose

\* What the lock state lists are locks of closes; days are compared as the ledger does.
LEMMA NoBlockingNoCollision ==
  ASSUME StoresInv, NEW c \in CloseIds, Ledger!Blocking(c) = {}
  PROVE  \A l \in activeLocks[Company] : ~Ledger!Collide(c, l[1])
<1>1. ASSUME NEW l \in activeLocks[Company]
      PROVE  ~Ledger!Collide(c, l[1])
  <2>1. l \in CloseIds \X {Evidence}
    BY DEF StoresInv, Proved!LockInv, Proved!TypeOK, Proved!LockIds
  <2>2. PICK d \in CloseIds : d = l[1]
    BY <2>1
  <2>3. /\ c.start \in Int /\ c.end \in Int /\ c.start <= c.end /\ c.company = Company
        /\ d.start \in Int /\ d.end \in Int /\ d.start <= d.end
    BY IdParts
  <2>4. ~Ledger!RangesOverlap(c, d)
    BY <2>2, <2>3 DEF Ledger!Blocking
  <2>5. ~Proved!RangesOverlap(c, d)
    BY <2>4 DEF Ledger!RangesOverlap, Proved!RangesOverlap
  <2>6. (c.start .. c.end) \cap (d.start .. d.end) = {}
    BY <2>3, <2>5, LedgerConstants, Proved!OverlapIsSharedDay
  <2>7. QED  BY <2>2, <2>6 DEF Ledger!Collide
<1>2. QED  BY <1>1

\* One request at a time: no finance cycle appears on a day the ledger holds locked.
THEOREM LockedPeriodsBlockCycles ==
  ASSUME ~Interleaved
  PROVE  Spec /\ []OneAtATime => LockedPeriodBlocksCycles
<1>1. StoresInv /\ CycleInv /\ [Next]_vars =>
        [\A c \in CloseIds : close[c].status = "ABSENT" /\ close'[c].status # "ABSENT" =>
           \A l \in activeLocks[Company] : ~Ledger!Collide(c, l[1])]_vars
  BY OnlyStoreCyclePrepares, NoBlockingNoCollision
<1>2. QED
  BY <1>1, OneRequestKnowsTheStores, StoresAreAlwaysTyped, PTL
     DEF Spec, LockedPeriodBlocksCycles

=============================================================================
