------------------------- MODULE CloseGovernanceProofs -------------------------
(***************************************************************************)
(* Proofs about CloseGovernance for any number of requests, closes and     *)
(* versions of the evidence.                                               *)
(*                                                                         *)
(* Whatever dies or races between the two stores: in real-data modes       *)
(* Firestore goes first (LedgerGoesFirst), and every step is a step of     *)
(* PeriodLedger or leaves the ledger alone, so what PeriodLedgerProofs     *)
(* proves of the ledger holds under the workflow.                          *)
(*                                                                         *)
(* While no two requests are in flight at once (OneAtATime), whatever dies *)
(* half-way: what a request has read stays so until it writes, and with it *)
(* an approval rests on passing evidence, a lock on the approved evidence, *)
(* and the two stores agree at rest.  SerialInv is the invariant.          *)
(***************************************************************************)
EXTENDS CloseGovernance, TLAPS

\* The registers of a request, and the fields of what the two stores hold.
IsRequest(q) ==
  q = [op |-> q.op, at |-> q.at, c |-> q.c, view |-> q.view, src |-> q.src, bal |-> q.bal,
       scp |-> q.scp, id |-> q.id, why |-> q.why]

IsClose(v) ==
  v = [closeStatus |-> v.closeStatus, approvalStatus |-> v.approvalStatus,
       governance |-> v.governance, approvedHash |-> v.approvedHash, lockId |-> v.lockId]

IsMirrored(v) == v = [status |-> v.status, hash |-> v.hash]
IsLock(v) == v = [status |-> v.status, org |-> v.org]

LockStatuses == {"ABSENT", "LOCKED", "REOPENED"}

\* The ledger: a lock that is held is listed and indexed, what is listed was locked, and
\* the current approval of a close is an event.
LedgerIsGood ==
  /\ DOMAIN lock = LockIds /\ DOMAIN approval = Closes /\ DOMAIN lockIndex = Closes
  /\ DOMAIN activeLocks = {c.company : c \in Closes}
  /\ \A l \in LockIds : IsLock(lock[l]) /\ lock[l].status \in LockStatuses
  /\ \A l \in LockIds : lock[l].status = "LOCKED" =>
       l \in activeLocks[l[1].company] /\ lockIndex[l[1]] = l
  /\ \A c \in Closes : \A l \in activeLocks[c.company] :
       l \in LockIds => lock[l].status # "ABSENT"
  /\ \A c \in Closes : approval[c] # None => <<c, approval[c]>> \in approvalEvents

\* The mirror of a lock is behind the lock.
MirrorIsGood ==
  /\ DOMAIN mirror = LockIds
  /\ \A l \in LockIds :
       /\ IsMirrored(mirror[l]) /\ mirror[l].status \in LockStatuses
       /\ mirror[l].status = "LOCKED" => lock[l].status # "ABSENT"
       /\ mirror[l].status = "REOPENED" => lock[l].status = "REOPENED"

\* A close shows a lock of its own and an approval that is an event.
ClosesAreGood ==
  /\ DOMAIN close = Closes
  /\ \A c \in Closes :
       /\ IsClose(close[c])
       /\ close[c].lockId # None /\ close[c].lockId \in LockIds => close[c].lockId[1] = c
       /\ close[c].approvedHash # None => <<c, close[c].approvedHash>> \in approvalEvents

\* What a request between the two stores knows of the ledger.
RequestIsGood(locks, events, q) ==
  /\ IsRequest(q)
  /\ q.at # "idle" => q.c \in Closes
  /\ q.at \in {"readLock", "reopenLedger", "lockMirror"} => (q.id \in LockIds => q.id[1] = q.c)
  /\ q.at \in {"reopenLedger", "lockMirror"} =>
       (q.id \in LockIds => locks[q.id].status # "ABSENT")
  /\ q.at = "reopenMirror" => (q.id \in LockIds => locks[q.id].status = "REOPENED")
  /\ q.at \in {"reopenLedger", "reopenMirror"} => (q.id \in LockIds => IsMirrored(q.view))
  /\ q.at = "approveMirror" => (HashOf(q) # None => <<q.c, HashOf(q)>> \in events)

RequestsAreGood ==
  /\ DOMAIN req = Requests
  /\ \A r \in Requests : RequestIsGood(lock, approvalEvents, req[r])

StoresAreGood == LedgerIsGood /\ MirrorIsGood /\ ClosesAreGood

GovernanceInv == realData => StoresAreGood /\ RequestsAreGood

\* The ledger only moves forward.
LedgerMoves ==
  /\ \A l \in LockIds :
       /\ lock[l].status # "ABSENT" => lock'[l].status # "ABSENT"
       /\ lock[l].status = "REOPENED" => lock'[l].status = "REOPENED"
  /\ approvalEvents \subseteq approvalEvents'

\* The steps are looked at in real-data modes, where the invariant says something.
Good == realData /\ StoresAreGood /\ RequestsAreGood

-----------------------------------------------------------------------------
(* How a step moves its request *)

\* The request becomes m and no other one changes.
MovesTo(r, m) == req' = [req EXCEPT ![r] = m]

SameRegisters(m, q) ==
  /\ m.c = q.c /\ m.view = q.view /\ m.src = q.src /\ m.bal = q.bal /\ m.id = q.id
  /\ m.why = q.why

\* A request that goes on, at that label with those registers.
LEMMA GotoMoves ==
  ASSUME NEW r, NEW label, NEW q, IsRequest(q), Goto(r, label, q)
  PROVE  \E m : MovesTo(r, m) /\ IsRequest(m) /\ m.at = label /\ SameRegisters(m, q)
<1> DEFINE m == [q EXCEPT !.at = label]
<1>1. MovesTo(r, m)
  BY DEF Goto, MovesTo
<1>2. IsRequest(m) /\ m.at = label /\ SameRegisters(m, q)
  BY DEF IsRequest, SameRegisters
<1> HIDE DEF m
<1>3. QED  BY <1>1, <1>2

\* Registers are set one after the other: those a refresh clears.
LEMMA FourRegisters ==
  ASSUME NEW q, IsRequest(q), NEW n,
         n = [q EXCEPT !.view = None, !.src = None, !.bal = None, !.scp = None]
  PROVE  IsRequest(n) /\ n.c = q.c
<1> DEFINE k == [q EXCEPT !.view = None]
<1> DEFINE l == [k EXCEPT !.src = None]
<1> DEFINE m == [l EXCEPT !.bal = None]
<1>1. n = [m EXCEPT !.scp = None]
  BY DEF IsRequest
<1>2. IsRequest(k) /\ k.c = q.c
  BY DEF IsRequest
<1> HIDE DEF k
<1>3. IsRequest(l) /\ l.c = q.c
  BY <1>2 DEF IsRequest
<1> HIDE DEF l
<1>4. IsRequest(m) /\ m.c = q.c
  BY <1>3 DEF IsRequest
<1> HIDE DEF m
<1>5. QED  BY <1>1, <1>4 DEF IsRequest

\* One that is answered is idle.
LEMMA IdleIsGood ==
  ASSUME NEW locks, NEW events
  PROVE  RequestIsGood(locks, events, IdleRequest)
BY DEF RequestIsGood, IsRequest, IdleRequest

\* Where a request knows something of the ledger.
Knowing == {"idle", "readLock", "reopenLedger", "lockMirror", "reopenMirror", "approveMirror"}

\* Elsewhere it knows nothing.
LEMMA RestIsGood ==
  ASSUME NEW q, IsRequest(q), q.at \notin Knowing, q.c \in Closes, NEW locks, NEW events
  PROVE  RequestIsGood(locks, events, q)
BY DEF RequestIsGood, Knowing

-----------------------------------------------------------------------------
(* What a step of one request leaves to the others *)

\* What the invariant says of one request.
LEMMA RequestsHold ==
  ASSUME Good, NEW r \in Requests
  PROVE  RequestIsGood(lock, approvalEvents, req[r]) /\ IsRequest(req[r])
BY DEF Good, RequestsAreGood, RequestIsGood

\* What a request knows stays true while the ledger moves forward.
LEMMA RequestStaysGood ==
  ASSUME LedgerMoves, NEW q, RequestIsGood(lock, approvalEvents, q)
  PROVE  RequestIsGood(lock', approvalEvents', q)
BY DEF LedgerMoves, RequestIsGood

\* A step of one request keeps the invariant if the ledger moves forward, the stores stay
\* good and the request that moved knows only what is so.
LEMMA StepIsGood ==
  ASSUME Good, NEW r \in Requests, NEW m, MovesTo(r, m), LedgerMoves, realData' = realData,
         StoresAreGood', RequestIsGood(lock', approvalEvents', m)
  PROVE  Good'
<1>1. DOMAIN req' = Requests /\ req'[r] = m /\ \A s \in Requests \ {r} : req'[s] = req[s]
  BY DEF Good, RequestsAreGood, MovesTo
<1>2. ASSUME NEW s \in Requests
      PROVE  RequestIsGood(lock', approvalEvents', req'[s])
  <2>1. CASE s = r
    BY <1>1, <2>1
  <2>2. CASE s # r
    <3>1. RequestIsGood(lock', approvalEvents', req[s])
      BY RequestsHold, RequestStaysGood
    <3>2. QED  BY <1>1, <2>2, <3>1
  <2>3. QED  BY <2>1, <2>2
<1>3. RequestsAreGood'
  BY <1>1, <1>2 DEF RequestsAreGood
<1>4. QED  BY <1>3 DEF Good

\* The stores left alone.
LEMMA StoresStayGood ==
  ASSUME StoresAreGood, UNCHANGED <<close, mirror, ledgerVars>>
  PROVE  StoresAreGood' /\ LedgerMoves
<1>1. /\ close' = close /\ mirror' = mirror /\ lock' = lock /\ approval' = approval
      /\ lockIndex' = lockIndex /\ activeLocks' = activeLocks
      /\ approvalEvents' = approvalEvents
  BY DEF ledgerVars
<1>2. QED
  BY <1>1 DEF StoresAreGood, LedgerIsGood, MirrorIsGood, ClosesAreGood, LedgerMoves

\* A request that goes on where it knows nothing.
LEMMA GotoIsGood ==
  ASSUME Good, NEW r \in Requests, NEW label, label \notin Knowing,
         NEW q, IsRequest(q), q.c \in Closes, Goto(r, label, q),
         realData' = realData, StoresAreGood', LedgerMoves
  PROVE  Good'
<1>1. PICK m : MovesTo(r, m) /\ IsRequest(m) /\ m.at = label /\ m.c = q.c
  BY GotoMoves DEF SameRegisters
<1>2. RequestIsGood(lock', approvalEvents', m)
  BY <1>1, RestIsGood
<1>3. QED  BY <1>1, <1>2, StepIsGood

\* One that is answered.
LEMMA AnswerIsGood ==
  ASSUME Good, NEW r \in Requests, Answer(r),
         realData' = realData, StoresAreGood', LedgerMoves
  PROVE  Good'
<1>1. MovesTo(r, IdleRequest)
  BY DEF Answer, MovesTo
<1>2. RequestIsGood(lock', approvalEvents', IdleRequest)
  BY IdleIsGood
<1>3. QED  BY <1>1, <1>2, StepIsGood

\* One that leaves the refresh, for the operation that called it or with an answer.
LEMMA LeaveIsGood ==
  ASSUME Good, NEW r \in Requests, req[r].c \in Closes, LeaveRefresh(r),
         realData' = realData, StoresAreGood', LedgerMoves
  PROVE  Good'
<1> DEFINE q == req[r]
<1> DEFINE n == [q EXCEPT !.view = None, !.src = None, !.bal = None, !.scp = None]
<1>1. IsRequest(n) /\ n.c = q.c
  <2>1. IsRequest(q)
    BY RequestsHold
  <2>2. n = [q EXCEPT !.view = None, !.src = None, !.bal = None, !.scp = None]
    OBVIOUS
  <2> HIDE DEF n, q
  <2>3. QED  BY <2>1, <2>2, FourRegisters, Zenon
<1>2. AfterRefresh(q.op) # None => AfterRefresh(q.op) \in {"approveCheck", "lockCheck"}
  BY DEF AfterRefresh
<1>3. \/ AfterRefresh(q.op) = None /\ Answer(r)
      \/ AfterRefresh(q.op) # None /\ Goto(r, AfterRefresh(q.op), n)
  BY Zenon DEF LeaveRefresh
<1> HIDE DEF n, q
<1>4. CASE Answer(r)
  BY <1>4, AnswerIsGood
<1>5. ASSUME NEW label \in {"approveCheck", "lockCheck"}, Goto(r, label, n)
      PROVE  Good'
  <2>1. label \notin Knowing
    BY DEF Knowing
  <2>2. n.c \in Closes
    BY <1>1 DEF q
  <2>3. QED  BY <1>1, <1>5, <2>1, <2>2, GotoIsGood
<1>6. QED  BY <1>2, <1>3, <1>4, <1>5

\* A request that begins.
LEMMA QuietBegin ==
  ASSUME Good, NEW r \in Requests, NEW op, NEW c \in Closes, NEW label, label \notin Knowing,
         NEW q, IsRequest(q), Begin(r, op, c, label, q)
  PROVE  Good'
<1> DEFINE m == [q EXCEPT !.op = op, !.at = label, !.c = c]
<1> DEFINE a == [q EXCEPT !.op = op]
<1> DEFINE b == [a EXCEPT !.at = label]
<1>1. MovesTo(r, m)
  BY DEF Begin, MovesTo
<1>2. m = [b EXCEPT !.c = c]
  BY DEF IsRequest
<1>3. IsRequest(a)
  BY DEF IsRequest
<1> HIDE DEF a
<1>4. IsRequest(b) /\ b.at = label
  BY <1>3 DEF IsRequest
<1> HIDE DEF b
<1>5. IsRequest([b EXCEPT !.c = c]) /\ [b EXCEPT !.c = c].at = label
      /\ [b EXCEPT !.c = c].c = c
  BY <1>4 DEF IsRequest
<1> HIDE DEF m
<1>6. IsRequest(m) /\ m.at = label /\ m.c = c
  BY <1>2, <1>5
<1>7. RequestIsGood(lock', approvalEvents', m)
  BY <1>6, RestIsGood
<1>8. UNCHANGED <<realData, close, mirror, ledgerVars>>
  BY DEF Begin
<1>9. StoresAreGood' /\ LedgerMoves
  BY <1>8, StoresStayGood DEF Good
<1>10. QED  BY <1>1, <1>7, <1>8, <1>9, StepIsGood

\* A user calls an operation.
LEMMA StartIsGood ==
  ASSUME Good, NEW r \in Requests, Start(r)
  PROVE  Good'
<1>i. IsRequest(IdleRequest)
  BY DEF IsRequest, IdleRequest
<1>l. /\ "refresh" \notin Knowing /\ "evaluate" \notin Knowing
      /\ "ledgerOpen" \notin Knowing /\ "check" \notin Knowing
  BY DEF Knowing
<1>1. ASSUME NEW c \in Closes, NEW op, Begin(r, op, c, "refresh", IdleRequest)
      PROVE  Good'
  BY <1>1, <1>i, <1>l, QuietBegin
<1>2. ASSUME NEW c \in Closes, Begin(r, "evaluate", c, "evaluate", IdleRequest)
      PROVE  Good'
  BY <1>2, <1>i, <1>l, QuietBegin
<1>3. ASSUME NEW c \in Closes, NEW x,
             Begin(r, "record", c, "ledgerOpen", [IdleRequest EXCEPT !.src = x])
      PROVE  Good'
  <2>1. IsRequest([IdleRequest EXCEPT !.src = x])
    BY <1>i DEF IsRequest
  <2>2. QED  BY <1>3, <1>l, <2>1, QuietBegin
<1>4. ASSUME NEW c \in Closes, NEW x,
             Begin(r, "reconcile", c, "check", [IdleRequest EXCEPT !.bal = x])
      PROVE  Good'
  <2>1. IsRequest([IdleRequest EXCEPT !.bal = x])
    BY <1>i DEF IsRequest
  <2>2. QED  BY <1>4, <1>l, <2>1, QuietBegin
<1>5. ASSUME NEW c \in Closes, NEW x,
             Begin(r, "reopen", c, "check", [IdleRequest EXCEPT !.why = x])
      PROVE  Good'
  <2>1. IsRequest([IdleRequest EXCEPT !.why = x])
    BY <1>i DEF IsRequest
  <2>2. QED  BY <1>5, <1>l, <2>1, QuietBegin
<1>6. QED  BY <1>1, <1>2, <1>3, <1>4, <1>5, Zenon DEF Start

-----------------------------------------------------------------------------
(* Steps that leave close, mirror and ledger alone *)

\* The step leaves closes, mirror and ledger alone.
Quiet == UNCHANGED <<realData, close, mirror, ledgerVars>>

\* The three ways to go on, of a step that leaves the stores alone.
LEMMA QuietGoto ==
  ASSUME Good, NEW r \in Requests, NEW label, label \notin Knowing,
         NEW q, IsRequest(q), q.c \in Closes, Goto(r, label, q), Quiet
  PROVE  Good'
<1>1. StoresAreGood' /\ LedgerMoves /\ realData' = realData
  BY StoresStayGood DEF Good, Quiet
<1>2. QED  BY <1>1, GotoIsGood

\* It is answered.
LEMMA QuietAnswer ==
  ASSUME Good, NEW r \in Requests, Answer(r), Quiet
  PROVE  Good'
<1>1. StoresAreGood' /\ LedgerMoves /\ realData' = realData
  BY StoresStayGood DEF Good, Quiet
<1>2. QED  BY <1>1, AnswerIsGood

\* It leaves the refresh.
LEMMA QuietLeave ==
  ASSUME Good, NEW r \in Requests, req[r].c \in Closes, LeaveRefresh(r), Quiet
  PROVE  Good'
<1>1. StoresAreGood' /\ LedgerMoves /\ realData' = realData
  BY StoresStayGood DEF Good, Quiet
<1>2. QED  BY <1>1, LeaveIsGood

\* Where the request of a step stands.
LEMMA BusyRequest ==
  ASSUME Good, NEW r \in Requests, req[r].at # "idle"
  PROVE  req[r].c \in Closes /\ IsRequest(req[r])
BY RequestsHold DEF RequestIsGood

\* The labels at which a request waits for a read of its own.
LEMMA RestLabels ==
  \A label \in {"mirrorOpen", "storeEvidence", "readScope", "storeBalance", "refresh", "evaluate",
              "derive", "storeSource", "loadBalance", "loadScope", "storeGovernance",
              "snapSource", "snapBalance", "approveLedger", "lockOverlap", "lockLedger"} :
    label \notin Knowing
BY DEF Knowing

\* A step that goes on with its registers as they are, with one of them set, or answers.
QuietStep(r, label, x) ==
  \/ Answer(r)
  \/ Goto(r, label, req[r])
  \/ Goto(r, label, [req[r] EXCEPT !.view = x])
  \/ Goto(r, label, [req[r] EXCEPT !.src = x])
  \/ Goto(r, label, [req[r] EXCEPT !.bal = x])
  \/ Goto(r, label, [req[r] EXCEPT !.scp = x])
  \/ Goto(r, label, [req[r] EXCEPT !.id = x])

\* Such a step keeps the invariant.
LEMMA QuietStepIsGood ==
  ASSUME Good, NEW r \in Requests, req[r].at # "idle", Quiet,
         NEW label, label \notin Knowing, NEW x, QuietStep(r, label, x)
  PROVE  Good'
<1> DEFINE q == req[r]
<1>1. q.c \in Closes /\ IsRequest(q)
  BY BusyRequest
<1>2. /\ IsRequest([q EXCEPT !.view = x]) /\ [q EXCEPT !.view = x].c \in Closes
      /\ IsRequest([q EXCEPT !.src = x]) /\ [q EXCEPT !.src = x].c \in Closes
      /\ IsRequest([q EXCEPT !.bal = x]) /\ [q EXCEPT !.bal = x].c \in Closes
      /\ IsRequest([q EXCEPT !.scp = x]) /\ [q EXCEPT !.scp = x].c \in Closes
      /\ IsRequest([q EXCEPT !.id = x]) /\ [q EXCEPT !.id = x].c \in Closes
  <2> HIDE DEF q
  <2>1. /\ IsRequest([q EXCEPT !.view = x]) /\ [q EXCEPT !.view = x].c \in Closes
    BY <1>1 DEF IsRequest
  <2>2. /\ IsRequest([q EXCEPT !.src = x]) /\ [q EXCEPT !.src = x].c \in Closes
    BY <1>1 DEF IsRequest
  <2>3. /\ IsRequest([q EXCEPT !.bal = x]) /\ [q EXCEPT !.bal = x].c \in Closes
    BY <1>1 DEF IsRequest
  <2>4. /\ IsRequest([q EXCEPT !.scp = x]) /\ [q EXCEPT !.scp = x].c \in Closes
    BY <1>1 DEF IsRequest
  <2>5. /\ IsRequest([q EXCEPT !.id = x]) /\ [q EXCEPT !.id = x].c \in Closes
    BY <1>1 DEF IsRequest
  <2>6. QED  BY <2>1, <2>2, <2>3, <2>4, <2>5
<1>3. Answer(r) \/ \E n : IsRequest(n) /\ n.c \in Closes /\ Goto(r, label, n)
  BY <1>1, <1>2, Zenon DEF QuietStep
<1>4. QED  BY <1>3, QuietAnswer, QuietGoto

\* Evidence: recordPeriodSourceEvidence and prepareBalanceSheetReconciliation up to their writes.
LEMMA EvidenceSteps ==
  ASSUME Good, NEW r \in Requests,
         \/ AssertLedgerOpen(r)
         \/ AssertMirrorOpen(r)
         \/ StoreEvidence(r)
         \/ ReconcileCheck(r)
         \/ ReconcileScope(r)
  PROVE  Good'
<1>1. CASE AssertLedgerOpen(r)
  <2>1. req[r].at # "idle" /\ Quiet /\ QuietStep(r, "mirrorOpen", None)
    BY <1>1, Zenon DEF AssertLedgerOpen, At, Quiet, QuietStep, evidenceVars
  <2>2. QED  BY <2>1, QuietStepIsGood, RestLabels
<1>2. CASE AssertMirrorOpen(r)
  <2>1. req[r].at # "idle" /\ Quiet /\ QuietStep(r, "storeEvidence", None)
    BY <1>2, Zenon DEF AssertMirrorOpen, At, Quiet, QuietStep, evidenceVars
  <2>2. QED  BY <2>1, QuietStepIsGood, RestLabels
<1>3. CASE StoreEvidence(r)
  <2>1. req[r].at # "idle" /\ Quiet /\ QuietStep(r, "storeEvidence", None)
    BY <1>3, Zenon DEF StoreEvidence, At, Quiet, QuietStep, evidenceVars
  <2>2. QED  BY <2>1, QuietStepIsGood, RestLabels
<1>4. CASE ReconcileCheck(r)
  <2>1. req[r].at # "idle" /\ Quiet /\ QuietStep(r, "readScope", None)
    BY <1>4, Zenon DEF ReconcileCheck, At, Quiet, QuietStep, evidenceVars
  <2>2. QED  BY <2>1, QuietStepIsGood, RestLabels
<1>5. CASE ReconcileScope(r)
  <2>1. req[r].at # "idle" /\ Quiet /\ QuietStep(r, "storeBalance", scope)
    BY <1>5, Zenon DEF ReconcileScope, At, Quiet, QuietStep, evidenceVars
  <2>2. QED  BY <2>1, QuietStepIsGood, RestLabels
<1>6. QED  BY <1>1, <1>2, <1>3, <1>4, <1>5

\* The reads and the evidence write of a refresh.
LEMMA RefreshSteps ==
  ASSUME Good, NEW r \in Requests,
         \/ EvaluateCheck(r)
         \/ DeriveSource(r)
         \/ StoreSource(r)
         \/ LoadBalance(r)
         \/ LoadScope(r)
         \/ SnapshotSource(r)
  PROVE  Good'
<1>1. CASE EvaluateCheck(r)
  <2>1. req[r].at # "idle" /\ Quiet /\ QuietStep(r, "derive", None)
    BY <1>1, Zenon DEF EvaluateCheck, At, Quiet, QuietStep, evidenceVars
  <2>2. QED  BY <2>1, QuietStepIsGood, RestLabels
<1>2. CASE DeriveSource(r)
  <2>1. req[r].at # "idle" /\ Quiet /\ QuietStep(r, "storeSource", <<registry, artifacts>>)
    BY <1>2, Zenon DEF DeriveSource, At, Quiet, QuietStep, evidenceVars
  <2>2. QED  BY <2>1, QuietStepIsGood, RestLabels
<1>3. CASE StoreSource(r)
  <2>1. req[r].at # "idle" /\ Quiet /\ QuietStep(r, "loadBalance", None)
    BY <1>3, Zenon DEF StoreSource, At, Quiet, QuietStep, evidenceVars
  <2>2. QED  BY <2>1, QuietStepIsGood, RestLabels
<1>4. CASE LoadBalance(r)
  <2>1. req[r].at # "idle" /\ Quiet /\ QuietStep(r, "loadScope", balance[req[r].c])
    BY <1>4, Zenon DEF LoadBalance, At, Quiet, QuietStep, evidenceVars
  <2>2. QED  BY <2>1, QuietStepIsGood, RestLabels
<1>5. CASE LoadScope(r)
  <2>1. req[r].at # "idle" /\ Quiet /\ QuietStep(r, "storeGovernance", scope)
    BY <1>5, Zenon DEF LoadScope, At, Quiet, QuietStep, evidenceVars
  <2>2. QED  BY <2>1, QuietStepIsGood, RestLabels
<1>6. CASE SnapshotSource(r)
  <2>1. req[r].at # "idle" /\ Quiet /\ QuietStep(r, "snapBalance", source[req[r].c])
    BY <1>6, Zenon DEF SnapshotSource, At, Quiet, QuietStep, evidenceVars
  <2>2. QED  BY <2>1, QuietStepIsGood, RestLabels
<1>7. QED  BY <1>1, <1>2, <1>3, <1>4, <1>5, <1>6

\* What approve and lock check before they snapshot the evidence.
LEMMA CheckSteps ==
  ASSUME Good, NEW r \in Requests,
         \/ ApproveCheck(r)
         \/ LockCheck(r)
  PROVE  Good'
<1>1. CASE ApproveCheck(r)
  <2>1. req[r].at # "idle" /\ Quiet /\ QuietStep(r, "snapSource", close[req[r].c])
    BY <1>1, Zenon DEF ApproveCheck, At, Quiet, QuietStep, evidenceVars
  <2>2. QED  BY <2>1, QuietStepIsGood, RestLabels
<1>2. CASE LockCheck(r)
  <2>1. req[r].at # "idle" /\ Quiet /\ QuietStep(r, "snapSource", close[req[r].c])
    BY <1>2, Zenon DEF LockCheck, At, Quiet, QuietStep, evidenceVars
  <2>2. QED  BY <2>1, QuietStepIsGood, RestLabels
<1>3. QED  BY <1>1, <1>2

\* Two registers are set.
LEMMA TwoSteps ==
  ASSUME Good, NEW r \in Requests, req[r].at # "idle", Quiet,
         NEW label, label \notin Knowing, NEW x, NEW y,
         \/ Goto(r, label, [req[r] EXCEPT !.bal = x, !.view = y])
         \/ Goto(r, label, [req[r] EXCEPT !.bal = x, !.scp = y])
  PROVE  Good'
<1>1. PICK n : /\ Goto(r, label, n)
               /\ \/ n = [req[r] EXCEPT !.bal = x, !.view = y]
                  \/ n = [req[r] EXCEPT !.bal = x, !.scp = y]
  BY Zenon
<1> DEFINE q == req[r]
<1> DEFINE b == [q EXCEPT !.bal = x]
<1>2. q.c \in Closes /\ IsRequest(q)
  BY BusyRequest
<1>3. n = [q EXCEPT !.bal = x, !.view = y] \/ n = [q EXCEPT !.bal = x, !.scp = y]
  BY <1>1, Zenon
<1> HIDE DEF q
<1>4. n = [b EXCEPT !.view = y] \/ n = [b EXCEPT !.scp = y]
  BY <1>2, <1>3 DEF IsRequest
<1>5. b.c \in Closes /\ IsRequest(b)
  BY <1>2 DEF IsRequest
<1> HIDE DEF b
<1>6. n.c \in Closes /\ IsRequest(n)
  BY <1>4, <1>5 DEF IsRequest
<1>7. QED  BY <1>1, <1>6, QuietGoto

\* The steps that set two registers, leave the refresh or go to the ledger.
LEMMA SnapshotSteps ==
  ASSUME Good, NEW r \in Requests,
         \/ StoreBalance(r) \/ RefreshRead(r)
         \/ LockSnapshot(r) \/ ApproveSnapshot(r) \/ LockOverlap(r)
  PROVE  Good'
<1>d. LedgerFirst("approveLedger", "approveMirror") = "approveLedger"
      /\ LedgerFirst("lockLedger", "lockMirror") = "lockLedger"
  BY DEF LedgerFirst, Good
<1>1. CASE StoreBalance(r)
  <2>1. /\ req[r].at # "idle" /\ Quiet
        /\ Goto(r, "refresh", [req[r] EXCEPT !.bal = None, !.scp = None])
    BY <1>1, Zenon DEF StoreBalance, At, Quiet
  <2>2. QED  BY <2>1, TwoSteps, RestLabels, Zenon
<1>2. CASE RefreshRead(r)
  <2>1. /\ req[r].at # "idle" /\ Quiet
        /\ LeaveRefresh(r) \/ QuietStep(r, "evaluate", close[req[r].c])
    BY <1>2, Zenon DEF RefreshRead, Quiet, QuietStep
  <2>2. CASE LeaveRefresh(r)
    BY <2>1, <2>2, BusyRequest, QuietLeave
  <2>3. CASE QuietStep(r, "evaluate", close[req[r].c])
    BY <2>1, <2>3, QuietStepIsGood, RestLabels
  <2>4. QED  BY <2>1, <2>2, <2>3
<1>3. CASE LockSnapshot(r)
  <2>1. /\ req[r].at # "idle" /\ Quiet
        /\ \/ Goto(r, "lockOverlap", [req[r] EXCEPT !.bal = balance[req[r].c], !.view = None])
           \/ Answer(r)
    BY <1>3, Zenon DEF LockSnapshot, At, Quiet
  <2>2. QED  BY <2>1, TwoSteps, QuietAnswer, RestLabels, Zenon
<1>4. CASE ApproveSnapshot(r)
  <2>1. /\ req[r].at # "idle" /\ Quiet
        /\ \/ Goto(r, "approveLedger", [req[r] EXCEPT !.bal = balance[req[r].c], !.view = None])
           \/ Answer(r)
    BY <1>4, <1>d, Zenon DEF ApproveSnapshot, At, Quiet
  <2>2. QED  BY <2>1, TwoSteps, QuietAnswer, RestLabels, Zenon
<1>5. CASE LockOverlap(r)
  <2>1. req[r].at # "idle" /\ Quiet /\ QuietStep(r, "lockLedger", <<req[r].c, HashOf(req[r])>>)
    BY <1>5, <1>d, Zenon DEF LockOverlap, At, Quiet, QuietStep
  <2>2. QED  BY <2>1, QuietStepIsGood, RestLabels
<1>6. QED  BY <1>1, <1>2, <1>3, <1>4, <1>5

\* A request that dies leaves the stores as they are.
LEMMA CrashIsGood ==
  ASSUME Good, NEW r \in Requests, Crash(r)
  PROVE  Good'
<1>1. Quiet /\ Answer(r)
  BY DEF Crash, Quiet
<1>2. QED  BY <1>1, QuietAnswer

\* So does a change of the registry or of the scope.
LEMMA ConfigurationIsGood ==
  ASSUME Good, NEW v, ConfigureSourceRequirements(v) \/ ConfigureBalanceSheetScope(v)
  PROVE  Good'
<1>1. UNCHANGED <<realData, close, mirror, ledgerVars>> /\ UNCHANGED req
  BY DEF ConfigureSourceRequirements, ConfigureBalanceSheetScope
<1>2. StoresAreGood' /\ LedgerMoves /\ realData' = realData
  BY <1>1, StoresStayGood DEF Good
<1>3. ASSUME NEW r \in Requests
      PROVE  RequestIsGood(lock', approvalEvents', req'[r])
  BY <1>1, <1>2, RequestsHold, RequestStaysGood
<1>4. RequestsAreGood'
  BY <1>1, <1>3 DEF RequestsAreGood, Good
<1>5. QED  BY <1>2, <1>4 DEF Good

-----------------------------------------------------------------------------
(* Steps that write close or mirror *)

\* The mirror left alone, of a ledger left alone.
LEMMA MirrorStays ==
  ASSUME StoresAreGood, UNCHANGED <<mirror, ledgerVars>>
  PROVE  MirrorIsGood'
<1>1. mirror' = mirror /\ lock' = lock
  BY DEF ledgerVars
<1>2. QED  BY <1>1 DEF StoresAreGood, MirrorIsGood

\* A write of one entry of the mirror that the ledger already bears out.
LEMMA MirrorWritten ==
  ASSUME StoresAreGood, NEW id, NEW e, mirror' = [mirror EXCEPT ![id] = e],
         id \in LockIds =>
           /\ IsMirrored(e) /\ e.status \in {"LOCKED", "REOPENED"}
           /\ lock[id].status # "ABSENT"
           /\ e.status = "REOPENED" => lock[id].status = "REOPENED",
         UNCHANGED ledgerVars
  PROVE  MirrorIsGood'
<1>1. lock' = lock
  BY DEF ledgerVars
<1>2. /\ DOMAIN mirror = LockIds
      /\ \A l \in LockIds :
           /\ IsMirrored(mirror[l]) /\ mirror[l].status \in LockStatuses
           /\ mirror[l].status = "LOCKED" => lock[l].status # "ABSENT"
           /\ mirror[l].status = "REOPENED" => lock[l].status = "REOPENED"
  BY DEF StoresAreGood, MirrorIsGood
<1>3. DOMAIN mirror' = LockIds
  BY <1>2
<1>4. ASSUME NEW l \in LockIds
      PROVE  /\ IsMirrored(mirror'[l]) /\ mirror'[l].status \in LockStatuses
             /\ mirror'[l].status = "LOCKED" => lock'[l].status # "ABSENT"
             /\ mirror'[l].status = "REOPENED" => lock'[l].status = "REOPENED"
  <2>1. CASE l = id
    <3>1. mirror'[l] = e
      BY <1>2, <2>1
    <3>2. QED  BY <1>1, <2>1, <3>1 DEF LockStatuses
  <2>2. CASE l # id
    <3>1. mirror'[l] = mirror[l]
      BY <1>2, <2>2
    <3>2. QED  BY <1>1, <1>2, <3>1
  <2>3. QED  BY <2>1, <2>2
<1>5. QED  BY <1>3, <1>4 DEF MirrorIsGood

\* A write of one close that keeps its lock and its approval, or replaces them by what the
\* invariant allows.
LEMMA CloseWritten ==
  ASSUME StoresAreGood, NEW c \in Closes, NEW v, IsClose(v),
         DOMAIN close' = Closes, close'[c] = v, \A d \in Closes \ {c} : close'[d] = close[d],
         v.lockId # None /\ v.lockId \in LockIds => v.lockId[1] = c,
         v.approvedHash # None => <<c, v.approvedHash>> \in approvalEvents,
         MirrorIsGood', UNCHANGED ledgerVars
  PROVE  StoresAreGood' /\ LedgerMoves
<1>1. /\ lock' = lock /\ approval' = approval
      /\ lockIndex' = lockIndex /\ activeLocks' = activeLocks
      /\ approvalEvents' = approvalEvents
  BY DEF ledgerVars
<1>2. ASSUME NEW d \in Closes
      PROVE  /\ IsClose(close'[d])
             /\ close'[d].lockId # None /\ close'[d].lockId \in LockIds => close'[d].lockId[1] = d
             /\ close'[d].approvedHash # None => <<d, close'[d].approvedHash>> \in approvalEvents'
  <2>1. CASE d = c
    BY <1>1, <2>1
  <2>2. CASE d # c
    <3>1. close'[d] = close[d]
      BY <2>2
    <3>2. QED  BY <1>1, <3>1 DEF StoresAreGood, ClosesAreGood
  <2>3. QED  BY <2>1, <2>2
<1>4. ClosesAreGood'
  BY <1>2 DEF ClosesAreGood
<1>3. LedgerIsGood' /\ LedgerMoves
  BY <1>1 DEF StoresAreGood, LedgerIsGood, LedgerMoves
<1>5. QED  BY <1>3, <1>4 DEF StoresAreGood

\* A close whose approval and governance status are set.
LEMMA GovernanceWritten ==
  ASSUME StoresAreGood, NEW c \in Closes, NEW a, NEW g,
         close' = [close EXCEPT ![c].approvalStatus = a, ![c].governance = g],
         UNCHANGED <<mirror, ledgerVars>>
  PROVE  StoresAreGood' /\ LedgerMoves
<1> DEFINE k == [close EXCEPT ![c].approvalStatus = a]
<1> DEFINE w == close[c]
<1> DEFINE u == [w EXCEPT !.approvalStatus = a]
<1> DEFINE v == [u EXCEPT !.governance = g]
<1>1. /\ DOMAIN close = Closes /\ IsClose(w)
      /\ w.lockId # None /\ w.lockId \in LockIds => w.lockId[1] = c
      /\ w.approvedHash # None => <<c, w.approvedHash>> \in approvalEvents
  BY DEF StoresAreGood, ClosesAreGood
<1>2. close' = [k EXCEPT ![c].governance = g]
  BY Zenon
<1>3. DOMAIN k = Closes /\ k[c] = u /\ \A d \in Closes \ {c} : k[d] = close[d]
  BY <1>1
<1> HIDE DEF k
<1>4. DOMAIN close' = Closes /\ close'[c] = v /\ \A d \in Closes \ {c} : close'[d] = close[d]
  BY <1>2, <1>3
<1> HIDE DEF w
<1>5. IsClose(u) /\ u.lockId = w.lockId /\ u.approvedHash = w.approvedHash
  BY <1>1 DEF IsClose
<1> HIDE DEF u
<1>6. IsClose(v) /\ v.lockId = w.lockId /\ v.approvedHash = w.approvedHash
  BY <1>5 DEF IsClose
<1> HIDE DEF v
<1>7. QED  BY <1>1, <1>4, <1>6, MirrorStays, CloseWritten

\* A refresh writes the governance status it computed.
LEMMA StoreGovernanceIsGood ==
  ASSUME Good, NEW r \in Requests, StoreGovernance(r)
  PROVE  Good'
<1>1. PICK a, g :
        close' = [close EXCEPT ![req[r].c].approvalStatus = a, ![req[r].c].governance = g]
  BY Zenon DEF StoreGovernance
<1>2. /\ req[r].at = "storeGovernance" /\ LeaveRefresh(r)
      /\ UNCHANGED <<realData, mirror, ledgerVars>>
  BY Zenon DEF StoreGovernance
<1>3. req[r].c \in Closes
  BY <1>2, BusyRequest
<1>4. StoresAreGood' /\ LedgerMoves
  BY <1>1, <1>2, <1>3, GovernanceWritten DEF Good
<1>5. QED  BY <1>2, <1>3, <1>4, LeaveIsGood

\* The workflow shows the approval.
LEMMA ApproveInMirrorIsGood ==
  ASSUME Good, NEW r \in Requests, ApproveInMirror(r)
  PROVE  Good'
<1> DEFINE c == req[r].c
<1> DEFINE h == HashOf(req[r])
<1> DEFINE k == [close EXCEPT ![c].approvalStatus = "APPROVED"]
<1> DEFINE l == [k EXCEPT ![c].closeStatus = "APPROVED_PENDING_LOCK"]
<1> DEFINE w == close[c]
<1> DEFINE u == [w EXCEPT !.approvalStatus = "APPROVED"]
<1> DEFINE v == [u EXCEPT !.closeStatus = "APPROVED_PENDING_LOCK"]
<1> DEFINE x == [v EXCEPT !.approvedHash = h]
<1>1. /\ req[r].at = "approveMirror" /\ Answer(r)
      /\ UNCHANGED <<realData, mirror, ledgerVars>>
  BY DEF ApproveInMirror, At
<1>2. c \in Closes /\ (h # None => <<c, h>> \in approvalEvents)
  BY <1>1, RequestsHold DEF RequestIsGood
<1>3. close' = [l EXCEPT ![c].approvedHash = h]
  BY Zenon DEF ApproveInMirror
<1> HIDE DEF c, h
<1>4. /\ DOMAIN close = Closes /\ IsClose(w)
      /\ w.lockId # None /\ w.lockId \in LockIds => w.lockId[1] = c
  BY <1>2 DEF Good, StoresAreGood, ClosesAreGood
<1>5. DOMAIN k = Closes /\ k[c] = u /\ \A d \in Closes \ {c} : k[d] = close[d]
  BY <1>2, <1>4
<1> HIDE DEF k
<1>6. DOMAIN l = Closes /\ l[c] = v /\ \A d \in Closes \ {c} : l[d] = close[d]
  BY <1>2, <1>5
<1> HIDE DEF l
<1>7. DOMAIN close' = Closes /\ close'[c] = x /\ \A d \in Closes \ {c} : close'[d] = close[d]
  BY <1>2, <1>3, <1>6
<1> HIDE DEF w
<1>8. IsClose(u) /\ u.lockId = w.lockId
  BY <1>4 DEF IsClose
<1> HIDE DEF u
<1>9. IsClose(v) /\ v.lockId = w.lockId
  BY <1>8 DEF IsClose
<1> HIDE DEF v
<1>10. IsClose(x) /\ x.lockId = w.lockId /\ x.approvedHash = h
  BY <1>9 DEF IsClose
<1> HIDE DEF x
<1>11. StoresAreGood' /\ LedgerMoves
  BY <1>1, <1>2, <1>4, <1>7, <1>10, MirrorStays, CloseWritten DEF Good
<1>12. QED  BY <1>1, <1>11, AnswerIsGood

\* The workflow shows the lock.
LEMMA LockInMirrorIsGood ==
  ASSUME Good, NEW r \in Requests, LockInMirror(r)
  PROVE  Good'
<1> DEFINE c == req[r].c
<1> DEFINE id == req[r].id
<1> DEFINE e == [status |-> "LOCKED", hash |-> HashOf(req[r])]
<1> DEFINE k == [close EXCEPT ![c].closeStatus = "LOCKED"]
<1> DEFINE w == close[c]
<1> DEFINE u == [w EXCEPT !.closeStatus = "LOCKED"]
<1> DEFINE v == [u EXCEPT !.lockId = id]
<1>1. /\ req[r].at = "lockMirror" /\ Answer(r) /\ mirror' = [mirror EXCEPT ![id] = e]
      /\ UNCHANGED <<realData, ledgerVars>>
  BY DEF LockInMirror, At
<1>2. c \in Closes /\ (id \in LockIds => id[1] = c /\ lock[id].status # "ABSENT")
  BY <1>1, RequestsHold DEF RequestIsGood
<1>3. close' = [k EXCEPT ![c].lockId = id]
  BY Zenon DEF LockInMirror
<1>m. IsMirrored(e) /\ e.status = "LOCKED"
  BY DEF IsMirrored
<1> HIDE DEF c, id, e
<1>4. MirrorIsGood'
  BY <1>1, <1>2, <1>m, MirrorWritten DEF Good
<1>5. /\ DOMAIN close = Closes /\ IsClose(w)
      /\ w.approvedHash # None => <<c, w.approvedHash>> \in approvalEvents
  BY <1>2 DEF Good, StoresAreGood, ClosesAreGood
<1>6. DOMAIN k = Closes /\ k[c] = u /\ \A d \in Closes \ {c} : k[d] = close[d]
  BY <1>2, <1>5
<1> HIDE DEF k
<1>7. DOMAIN close' = Closes /\ close'[c] = v /\ \A d \in Closes \ {c} : close'[d] = close[d]
  BY <1>2, <1>3, <1>6
<1> HIDE DEF w
<1>8. IsClose(u) /\ u.approvedHash = w.approvedHash
  BY <1>5 DEF IsClose
<1> HIDE DEF u
<1>9. IsClose(v) /\ v.lockId = id /\ v.approvedHash = w.approvedHash
  BY <1>8 DEF IsClose
<1> HIDE DEF v
<1>10. StoresAreGood' /\ LedgerMoves
  BY <1>1, <1>2, <1>4, <1>5, <1>7, <1>9, CloseWritten DEF Good
<1>11. QED  BY <1>1, <1>10, AnswerIsGood

\* The workflow shows the reopen.
LEMMA ReopenInMirrorIsGood ==
  ASSUME Good, NEW r \in Requests, ReopenInMirror(r)
  PROVE  Good'
<1> DEFINE c == req[r].c
<1> DEFINE id == req[r].id
<1> DEFINE seen == req[r].view
<1> DEFINE e == [seen EXCEPT !.status = "REOPENED"]
<1> DEFINE k == [close EXCEPT ![c].closeStatus = "REOPENED"]
<1> DEFINE w == close[c]
<1> DEFINE u == [w EXCEPT !.closeStatus = "REOPENED"]
<1> DEFINE v == [u EXCEPT !.approvalStatus = "INVALIDATED_BY_REOPEN"]
<1>1. /\ req[r].at = "reopenMirror" /\ Answer(r) /\ mirror' = [mirror EXCEPT ![id] = e]
      /\ UNCHANGED <<realData, ledgerVars>>
  BY DEF ReopenInMirror, At
<1>2. c \in Closes /\ (id \in LockIds => lock[id].status = "REOPENED" /\ IsMirrored(seen))
  BY <1>1, RequestsHold DEF RequestIsGood
<1>3. close' = [k EXCEPT ![c].approvalStatus = "INVALIDATED_BY_REOPEN"]
  BY Zenon DEF ReopenInMirror
<1> HIDE DEF c, id, seen
<1>m. IsMirrored(seen) => IsMirrored(e) /\ e.status = "REOPENED"
  BY DEF IsMirrored
<1> HIDE DEF e
<1>4. MirrorIsGood'
  BY <1>1, <1>2, <1>m, MirrorWritten DEF Good
<1>5. /\ DOMAIN close = Closes /\ IsClose(w)
      /\ w.lockId # None /\ w.lockId \in LockIds => w.lockId[1] = c
      /\ w.approvedHash # None => <<c, w.approvedHash>> \in approvalEvents
  BY <1>2 DEF Good, StoresAreGood, ClosesAreGood
<1>6. DOMAIN k = Closes /\ k[c] = u /\ \A d \in Closes \ {c} : k[d] = close[d]
  BY <1>2, <1>5
<1> HIDE DEF k
<1>7. DOMAIN close' = Closes /\ close'[c] = v /\ \A d \in Closes \ {c} : close'[d] = close[d]
  BY <1>2, <1>3, <1>6
<1> HIDE DEF w
<1>8. IsClose(u) /\ u.lockId = w.lockId /\ u.approvedHash = w.approvedHash
  BY <1>5 DEF IsClose
<1> HIDE DEF u
<1>9. IsClose(v) /\ v.lockId = w.lockId /\ v.approvedHash = w.approvedHash
  BY <1>8 DEF IsClose
<1> HIDE DEF v
<1>10. StoresAreGood' /\ LedgerMoves
  BY <1>1, <1>2, <1>4, <1>5, <1>7, <1>9, CloseWritten DEF Good
<1>11. QED  BY <1>1, <1>10, AnswerIsGood

-----------------------------------------------------------------------------
(* Steps of the ledger *)

\* The closes and the mirror stay true of a ledger that moved forward.
LEMMA LedgerWritten ==
  ASSUME StoresAreGood, LedgerIsGood', LedgerMoves, UNCHANGED <<close, mirror>>
  PROVE  StoresAreGood'
<1>1. ClosesAreGood'
  BY DEF StoresAreGood, ClosesAreGood, LedgerMoves
<1>2. MirrorIsGood'
  BY DEF StoresAreGood, MirrorIsGood, LedgerMoves
<1>3. QED  BY <1>1, <1>2 DEF StoresAreGood

\* recordCloseApproval: afterwards the approval is an event.
LEMMA ApprovalRecorded ==
  ASSUME LedgerIsGood, NEW c \in Closes, NEW h, Ledger!RecordCloseApproval(Org, c, h)
  PROVE  LedgerIsGood' /\ LedgerMoves /\ (h # None => <<c, h>> \in approvalEvents')
<1>1. CASE Ledger!ApprovalStands(Org, c, h) /\ UNCHANGED ledgerVars
  <2>1. /\ lock' = lock /\ approval' = approval /\ lockIndex' = lockIndex
        /\ activeLocks' = activeLocks /\ approvalEvents' = approvalEvents
    BY <1>1 DEF ledgerVars
  <2>2. approval[c] = h
    BY <1>1 DEF Ledger!ApprovalStands
  <2>3. QED  BY <2>1, <2>2 DEF LedgerIsGood, LedgerMoves
<1>2. CASE /\ approval' = [approval EXCEPT ![c] = h]
           /\ approvalEvents' = approvalEvents \cup {<<c, h>>}
           /\ lock' = lock /\ lockIndex' = lockIndex /\ activeLocks' = activeLocks
  <2>1. DOMAIN approval' = Closes
    BY <1>2 DEF LedgerIsGood
  <2>2. ASSUME NEW d \in Closes, approval'[d] # None
        PROVE  <<d, approval'[d]>> \in approvalEvents'
    BY <1>2, <2>2 DEF LedgerIsGood
  <2>3. LedgerIsGood'
    BY <1>2, <2>1, <2>2 DEF LedgerIsGood
  <2>4. QED  BY <1>2, <2>3 DEF LedgerMoves
<1>3. QED
  BY <1>1, <1>2 DEF Ledger!RecordCloseApproval, Ledger!ledgerVars, ledgerVars

\* commitPeriodLock: the lock it names is the close's own and is not absent.
LEMMA LockCommitted ==
  ASSUME LedgerIsGood, NEW c \in Closes, NEW h, Ledger!CommitPeriodLock(Org, c, h),
         NEW id \in CommittedIds(c, h)
  PROVE  /\ LedgerIsGood' /\ LedgerMoves
         /\ id \in LockIds => id[1] = c /\ lock'[id].status # "ABSENT"
<1> DEFINE new == <<c, h>>
<1> DEFINE held == Ledger!HeldLocks(c, h)
<1>h. ASSUME held # {}
      PROVE  id \in LockIds => id[1] = c /\ lock[id].status # "ABSENT"
  <2>1. id \in held
    BY <1>h DEF CommittedIds
  <2>2. CASE lock[new].status = "LOCKED"
    BY <2>1, <2>2 DEF Ledger!HeldLocks
  <2>3. CASE lock[new].status # "LOCKED"
    BY <2>1, <2>3 DEF Ledger!HeldLocks, Ledger!Blocking, LedgerIsGood
  <2>4. QED  BY <2>2, <2>3
<1>1. CASE held # {} /\ UNCHANGED ledgerVars
  <2>1. /\ lock' = lock /\ approval' = approval /\ lockIndex' = lockIndex
        /\ activeLocks' = activeLocks /\ approvalEvents' = approvalEvents
    BY <1>1 DEF ledgerVars
  <2>2. QED  BY <1>1, <1>h, <2>1 DEF LedgerIsGood, LedgerMoves
<1>2. CASE /\ Ledger!Blocking(c) = {} /\ lock[new].status = "ABSENT"
           /\ lock' = [lock EXCEPT ![new] = [status |-> "LOCKED", org |-> Org]]
           /\ lockIndex' = [lockIndex EXCEPT ![c] = new]
           /\ activeLocks' = [activeLocks EXCEPT ![c.company] = @ \cup {new}]
           /\ approval' = approval /\ approvalEvents' = approvalEvents
  <2>1. /\ DOMAIN lock' = LockIds /\ DOMAIN lockIndex' = Closes /\ lockIndex'[c] = new
        /\ DOMAIN activeLocks' = {d.company : d \in Closes}
        /\ \A d \in Closes \ {c} : lockIndex'[d] = lockIndex[d]
    BY <1>2 DEF LedgerIsGood
  <2>2. /\ c.company \in DOMAIN activeLocks
        /\ activeLocks'[c.company] = activeLocks[c.company] \cup {new}
        /\ \A d \in Closes : activeLocks[d.company] \subseteq activeLocks'[d.company]
        /\ \A d \in Closes : activeLocks'[d.company] \subseteq activeLocks[d.company] \cup {new}
    BY <1>2 DEF LedgerIsGood
  <2>3. new \in LockIds => lock'[new] = [status |-> "LOCKED", org |-> Org]
    BY <1>2 DEF LedgerIsGood
  <2>4. \A l \in LockIds \ {new} : lock'[l] = lock[l]
    BY <1>2 DEF LedgerIsGood
  <2>5. ASSUME NEW l \in LockIds, lock[l].status = "LOCKED"
        PROVE  l[1] # c
    <3>1. l \in activeLocks[l[1].company]
      BY <2>5 DEF LedgerIsGood
    <3>2. Ledger!RangesOverlap(c, c)
      BY GovernanceAssumption DEF Ledger!RangesOverlap
    <3>3. QED  BY <1>2, <3>1, <3>2 DEF Ledger!Blocking
  <2>6. ASSUME NEW l \in LockIds
        PROVE  /\ IsLock(lock'[l]) /\ lock'[l].status \in LockStatuses
               /\ lock'[l].status = "LOCKED" => l \in activeLocks'[l[1].company]
               /\ lock'[l].status = "LOCKED" => lockIndex'[l[1]] = l
    <3>1. CASE l = new
      BY <2>1, <2>2, <2>3, <3>1 DEF IsLock, LockStatuses
    <3>2. CASE l # new
      <4>1. lock'[l] = lock[l] /\ l[1] \in Closes
        BY <2>4, <3>2 DEF LockIds
      <4>2. QED  BY <2>1, <2>2, <2>5, <4>1 DEF LedgerIsGood
    <3>3. QED  BY <3>1, <3>2
  <2>7. ASSUME NEW d \in Closes, NEW l \in activeLocks'[d.company], l \in LockIds
        PROVE  lock'[l].status # "ABSENT"
    <3>1. CASE l = new
      BY <2>3, <2>7, <3>1
    <3>2. CASE l # new
      BY <2>2, <2>4, <2>7, <3>2 DEF LedgerIsGood
    <3>3. QED  BY <3>1, <3>2
  <2>8. LedgerIsGood'
    BY <1>2, <2>1, <2>6, <2>7 DEF LedgerIsGood
  <2>9. LedgerMoves
    BY <1>2, <2>3, <2>4 DEF LedgerMoves
  <2>10. CASE held = {}
    <3>1. id = new
      BY <2>10 DEF CommittedIds
    <3>2. QED  BY <2>3, <2>8, <2>9, <3>1
  <2>11. CASE held # {}
    BY <1>h, <2>8, <2>9, <2>11 DEF LedgerMoves
  <2>12. QED  BY <2>10, <2>11
<1>3. QED
  BY <1>1, <1>2 DEF Ledger!CommitPeriodLock, Ledger!LockIsNew, Ledger!ledgerVars, ledgerVars

\* reopenPeriodLock: afterwards every lock the close ever took is reopened.
LEMMA LockReopened ==
  ASSUME LedgerIsGood, NEW c \in Closes, NEW why, Ledger!ReopenPeriodLock(Org, c, why)
  PROVE  /\ LedgerIsGood' /\ LedgerMoves
         /\ \A l \in LockIds :
              l[1] = c /\ lock[l].status # "ABSENT" => lock'[l].status = "REOPENED"
<1> DEFINE old == lockIndex[c]
<1>1. CASE Ledger!ReopenStands(c) /\ UNCHANGED ledgerVars
  <2>1. /\ lock' = lock /\ approval' = approval /\ lockIndex' = lockIndex
        /\ activeLocks' = activeLocks /\ approvalEvents' = approvalEvents
    BY <1>1 DEF ledgerVars
  <2>2. lock[old].status = "REOPENED"
    BY <1>1 DEF Ledger!ReopenStands
  <2>3. LedgerIsGood' /\ LedgerMoves
    BY <2>1 DEF LedgerIsGood, LedgerMoves
  <2>4. QED  BY <2>1, <2>2, <2>3 DEF LedgerIsGood, LockStatuses
<1>2. CASE /\ lock[old].status = "LOCKED"
           /\ lock' = [lock EXCEPT ![old].status = "REOPENED"]
           /\ activeLocks' = [activeLocks EXCEPT ![c.company] = @ \ {old}]
           /\ approval' = approval /\ approvalEvents' = approvalEvents
           /\ lockIndex' = lockIndex
  <2>1. DOMAIN lock' = LockIds /\ DOMAIN activeLocks' = {d.company : d \in Closes}
    BY <1>2 DEF LedgerIsGood
  <2>2. \A d \in Closes : /\ activeLocks'[d.company] \subseteq activeLocks[d.company]
                          /\ activeLocks[d.company] \ {old} \subseteq activeLocks'[d.company]
    BY <1>2 DEF LedgerIsGood
  <2>3. old \in LockIds => lock'[old].status = "REOPENED" /\ IsLock(lock'[old])
    BY <1>2 DEF LedgerIsGood, IsLock
  <2>4. \A l \in LockIds \ {old} : lock'[l] = lock[l]
    BY <1>2 DEF LedgerIsGood
  <2>5. ASSUME NEW l \in LockIds
        PROVE  /\ IsLock(lock'[l]) /\ lock'[l].status \in LockStatuses
               /\ lock'[l].status = "LOCKED" => l \in activeLocks'[l[1].company]
               /\ lock'[l].status = "LOCKED" => lockIndex'[l[1]] = l
    <3>1. CASE l = old
      BY <2>3, <3>1 DEF LockStatuses
    <3>2. CASE l # old
      <4>1. lock'[l] = lock[l] /\ l[1] \in Closes
        BY <2>4, <3>2 DEF LockIds
      <4>2. QED  BY <1>2, <2>2, <3>2, <4>1 DEF LedgerIsGood
    <3>3. QED  BY <3>1, <3>2
  <2>6. ASSUME NEW d \in Closes, NEW l \in activeLocks'[d.company], l \in LockIds
        PROVE  lock'[l].status # "ABSENT"
    <3>1. CASE l = old
      BY <2>3, <2>6, <3>1
    <3>2. CASE l # old
      BY <2>2, <2>4, <2>6, <3>2 DEF LedgerIsGood
    <3>3. QED  BY <3>1, <3>2
  <2>7. LedgerIsGood'
    BY <1>2, <2>1, <2>5, <2>6 DEF LedgerIsGood
  <2>8. LedgerMoves
    BY <1>2, <2>3, <2>4 DEF LedgerMoves
  <2>9. ASSUME NEW l \in LockIds, l[1] = c, lock[l].status # "ABSENT"
        PROVE  lock'[l].status = "REOPENED"
    <3>1. CASE l = old
      BY <2>3, <3>1
    <3>2. CASE l # old
      <4>1. lock[l].status # "LOCKED" /\ lock[l].status \in LockStatuses
        BY <2>9, <3>2 DEF LedgerIsGood
      <4>2. QED  BY <2>4, <2>9, <3>2, <4>1 DEF LockStatuses
    <3>3. QED  BY <3>1, <3>2
  <2>10. QED  BY <2>7, <2>8, <2>9
<1>3. QED
  BY <1>1, <1>2 DEF Ledger!ReopenPeriodLock, Ledger!ReopenIsNew, Ledger!MarkReopened,
                    Ledger!RemainingLocks, Ledger!ledgerVars, ledgerVars

\* The approval commits in Firestore, or is refused there.
LEMMA ApproveInLedgerIsGood ==
  ASSUME Good, NEW r \in Requests, ApproveInLedger(r)
  PROVE  Good'
<1> DEFINE q == req[r]
<1> DEFINE c == q.c
<1> DEFINE h == HashOf(q)
<1>1. q.at # "idle" /\ UNCHANGED <<realData, close, mirror>>
  BY DEF ApproveInLedger, At
<1>2. c \in Closes /\ IsRequest(q)
  BY <1>1, BusyRequest
<1>3. CASE Ledger!RecordCloseApproval(Org, c, h) /\ Goto(r, "approveMirror", q)
  <2>1. LedgerIsGood' /\ LedgerMoves /\ (h # None => <<c, h>> \in approvalEvents')
    BY <1>2, <1>3, ApprovalRecorded DEF Good, StoresAreGood
  <2>2. StoresAreGood'
    BY <1>1, <2>1, LedgerWritten DEF Good
  <2>3. PICK m : MovesTo(r, m) /\ IsRequest(m) /\ m.at = "approveMirror" /\ SameRegisters(m, q)
    BY <1>2, <1>3, GotoMoves
  <2>4. RequestIsGood(lock', approvalEvents', m)
    BY <1>2, <2>1, <2>3 DEF RequestIsGood, SameRegisters, HashOf
  <2>5. QED  BY <1>1, <2>1, <2>2, <2>3, <2>4, StepIsGood
<1>4. CASE Answer(r) /\ UNCHANGED ledgerVars
  <2>1. Quiet
    BY <1>1, <1>4 DEF Quiet
  <2>2. QED  BY <1>4, <2>1, QuietAnswer
<1>5. QED  BY <1>3, <1>4 DEF ApproveInLedger

\* The lock: the request goes on with the id of a lock the ledger has.
LEMMA LockInLedgerIsGood ==
  ASSUME Good, NEW r \in Requests, LockInLedger(r)
  PROVE  Good'
<1> DEFINE q == req[r]
<1> DEFINE c == q.c
<1> DEFINE h == HashOf(q)
<1>1. q.at # "idle" /\ UNCHANGED <<realData, close, mirror>>
  BY DEF LockInLedger, At
<1>2. c \in Closes /\ IsRequest(q)
  BY <1>1, BusyRequest
<1>3. ASSUME Ledger!CommitPeriodLock(Org, c, h), NEW id \in CommittedIds(c, h),
             Goto(r, "lockMirror", [q EXCEPT !.id = id])
      PROVE  Good'
  <2> DEFINE n == [q EXCEPT !.id = id]
  <2>1. /\ LedgerIsGood' /\ LedgerMoves
        /\ id \in LockIds => id[1] = c /\ lock'[id].status # "ABSENT"
    BY <1>2, <1>3, LockCommitted DEF Good, StoresAreGood
  <2>2. StoresAreGood'
    BY <1>1, <2>1, LedgerWritten DEF Good
  <2>3. Goto(r, "lockMirror", n) /\ IsRequest(n) /\ n.c = c /\ n.id = id
    BY <1>2, <1>3 DEF IsRequest
  <2> HIDE DEF n
  <2>4. PICK m : MovesTo(r, m) /\ IsRequest(m) /\ m.at = "lockMirror" /\ SameRegisters(m, n)
    BY <2>3, GotoMoves
  <2>5. RequestIsGood(lock', approvalEvents', m)
    BY <1>2, <2>1, <2>3, <2>4 DEF RequestIsGood, SameRegisters
  <2>6. QED  BY <1>1, <2>1, <2>2, <2>4, <2>5, StepIsGood
<1>4. CASE Answer(r) /\ UNCHANGED ledgerVars
  <2>1. Quiet
    BY <1>1, <1>4 DEF Quiet
  <2>2. QED  BY <1>4, <2>1, QuietAnswer
<1>5. QED  BY <1>3, <1>4, Zenon DEF LockInLedger

\* The reopen: the request goes on once the lock it read is reopened.
LEMMA ReopenInLedgerIsGood ==
  ASSUME Good, NEW r \in Requests, ReopenInLedger(r)
  PROVE  Good'
<1> DEFINE q == req[r]
<1> DEFINE c == q.c
<1>1. q.at = "reopenLedger" /\ UNCHANGED <<realData, close, mirror>>
  BY DEF ReopenInLedger, At
<1>2. c \in Closes /\ IsRequest(q)
  BY <1>1, BusyRequest
<1>k. q.id \in LockIds => q.id[1] = c /\ lock[q.id].status # "ABSENT" /\ IsMirrored(q.view)
  BY <1>1, RequestsHold DEF RequestIsGood
<1>3. CASE Ledger!ReopenPeriodLock(Org, c, q.why) /\ Goto(r, "reopenMirror", q)
  <2>1. /\ LedgerIsGood' /\ LedgerMoves
        /\ \A l \in LockIds :
             l[1] = c /\ lock[l].status # "ABSENT" => lock'[l].status = "REOPENED"
    BY <1>2, <1>3, LockReopened DEF Good, StoresAreGood
  <2>2. StoresAreGood'
    BY <1>1, <2>1, LedgerWritten DEF Good
  <2>3. PICK m : MovesTo(r, m) /\ IsRequest(m) /\ m.at = "reopenMirror" /\ SameRegisters(m, q)
    BY <1>2, <1>3, GotoMoves
  <2>4. RequestIsGood(lock', approvalEvents', m)
    BY <1>2, <1>k, <2>1, <2>3 DEF RequestIsGood, SameRegisters
  <2>5. QED  BY <1>1, <2>1, <2>2, <2>3, <2>4, StepIsGood
<1>4. CASE Answer(r) /\ UNCHANGED ledgerVars
  <2>1. Quiet
    BY <1>1, <1>4 DEF Quiet
  <2>2. QED  BY <1>4, <2>1, QuietAnswer
<1>5. QED  BY <1>3, <1>4 DEF ReopenInLedger

\* What a reopen reads on its way to the ledger is the lock the close shows.
LEMMA ReopenCheckIsGood ==
  ASSUME Good, NEW r \in Requests, ReopenCheck(r)
  PROVE  Good'
<1> DEFINE q == req[r]
<1> DEFINE id == close[q.c].lockId
<1> DEFINE n == [q EXCEPT !.id = id]
<1>1. q.at # "idle" /\ Quiet /\ (Answer(r) \/ (id # None /\ Goto(r, "readLock", n)))
  BY Zenon DEF ReopenCheck, At, Quiet
<1>2. q.c \in Closes /\ IsRequest(q)
  BY <1>1, BusyRequest
<1>3. StoresAreGood' /\ LedgerMoves /\ realData' = realData
  BY <1>1, StoresStayGood DEF Good, Quiet
<1>4. id # None /\ id \in LockIds => id[1] = q.c
  BY <1>2 DEF Good, StoresAreGood, ClosesAreGood
<1> HIDE DEF id
<1>5. IsRequest(n) /\ n.c = q.c /\ n.id = id
  BY <1>2 DEF IsRequest
<1> HIDE DEF n
<1>6. CASE Answer(r)
  BY <1>1, <1>6, QuietAnswer
<1>7. CASE id # None /\ Goto(r, "readLock", n)
  <2>1. PICK m : MovesTo(r, m) /\ IsRequest(m) /\ m.at = "readLock" /\ SameRegisters(m, n)
    BY <1>5, <1>7, GotoMoves
  <2>2. RequestIsGood(lock', approvalEvents', m)
    BY <1>2, <1>4, <1>5, <1>7, <2>1 DEF RequestIsGood, SameRegisters
  <2>3. QED  BY <1>3, <2>1, <2>2, StepIsGood
<1>8. QED  BY <1>1, <1>6, <1>7

\* A reopen goes to the ledger for a lock the mirror shows, so the ledger has it.
LEMMA ReopenReadLockIsGood ==
  ASSUME Good, NEW r \in Requests, ReopenReadLock(r)
  PROVE  Good'
<1> DEFINE q == req[r]
<1> DEFINE seen == mirror[q.id]
<1> DEFINE n == [q EXCEPT !.view = seen]
<1>d. LedgerFirst("reopenLedger", "reopenMirror") = "reopenLedger"
  BY DEF LedgerFirst, Good
<1>1. /\ q.at = "readLock" /\ Quiet
      /\ Answer(r) \/ (seen.status = "LOCKED" /\ Goto(r, "reopenLedger", n))
  BY <1>d, Zenon DEF ReopenReadLock, At, Quiet
<1>2. q.c \in Closes /\ IsRequest(q)
  BY <1>1, BusyRequest
<1>3. StoresAreGood' /\ LedgerMoves /\ realData' = realData /\ lock' = lock
  BY <1>1, StoresStayGood DEF Good, Quiet, ledgerVars
<1>4. q.id \in LockIds => q.id[1] = q.c
  BY <1>1, RequestsHold DEF RequestIsGood
<1>5. q.id \in LockIds /\ seen.status = "LOCKED" => IsMirrored(seen) /\ lock[q.id].status # "ABSENT"
  BY DEF Good, StoresAreGood, MirrorIsGood
<1> HIDE DEF seen
<1>6. IsRequest(n) /\ n.c = q.c /\ n.id = q.id /\ n.view = seen
  BY <1>2 DEF IsRequest
<1> HIDE DEF n
<1>7. CASE Answer(r)
  BY <1>1, <1>7, QuietAnswer
<1>8. CASE seen.status = "LOCKED" /\ Goto(r, "reopenLedger", n)
  <2>1. PICK m : MovesTo(r, m) /\ IsRequest(m) /\ m.at = "reopenLedger" /\ SameRegisters(m, n)
    BY <1>6, <1>8, GotoMoves
  <2>2. RequestIsGood(lock', approvalEvents', m)
    BY <1>2, <1>3, <1>4, <1>5, <1>6, <1>8, <2>1 DEF RequestIsGood, SameRegisters
  <2>3. QED  BY <1>3, <2>1, <2>2, StepIsGood
<1>9. QED  BY <1>1, <1>7, <1>8

-----------------------------------------------------------------------------
(* The theorem *)

\* Nothing is governed yet.
LEMMA InitialStates ==
  Init => GovernanceInv
<1> SUFFICES ASSUME Init PROVE StoresAreGood /\ RequestsAreGood
  BY DEF GovernanceInv
<1>1. LedgerIsGood
  BY DEF Init, LedgerIsGood, IsLock, LockStatuses
<1>2. MirrorIsGood
  BY DEF Init, MirrorIsGood, IsMirrored, LockStatuses
<1>3. ClosesAreGood
  <2>1. \A c \in Closes :
          close[c].lockId = None /\ close[c].approvedHash = None /\ IsClose(close[c])
    BY DEF Init, IsClose
  <2>2. QED  BY <2>1 DEF Init, ClosesAreGood
<1>4. RequestsAreGood
  BY IdleIsGood DEF Init, RequestsAreGood
<1>5. QED  BY <1>1, <1>2, <1>3, <1>4 DEF StoresAreGood

\* The mode is set when the server starts.
LEMMA ModeStays ==
  ASSUME NEW r \in Requests, Start(r) \/ Step(r) \/ Crash(r)
  PROVE  realData' = realData
<1>1. CASE \/ AssertLedgerOpen(r) \/ AssertMirrorOpen(r) \/ StoreEvidence(r)
           \/ ReconcileCheck(r) \/ ReconcileScope(r) \/ StoreBalance(r)
  BY <1>1, Zenon DEF AssertLedgerOpen, AssertMirrorOpen, StoreEvidence, ReconcileCheck,
                     ReconcileScope, StoreBalance
<1>2. CASE \/ RefreshRead(r) \/ EvaluateCheck(r) \/ DeriveSource(r)
           \/ StoreSource(r) \/ LoadBalance(r) \/ LoadScope(r) \/ StoreGovernance(r)
           \/ SnapshotSource(r)
  BY <1>2, Zenon DEF RefreshRead, EvaluateCheck, DeriveSource, StoreSource, LoadBalance,
                     LoadScope, StoreGovernance, SnapshotSource
<1>3. CASE \/ ApproveCheck(r) \/ ApproveSnapshot(r) \/ ApproveInLedger(r)
           \/ ApproveInMirror(r) \/ LockCheck(r) \/ LockSnapshot(r)
           \/ LockOverlap(r) \/ LockInLedger(r) \/ LockInMirror(r)
  BY <1>3, Zenon DEF ApproveCheck, ApproveSnapshot, ApproveInLedger, ApproveInMirror,
                     LockCheck, LockSnapshot, LockOverlap, LockInLedger, LockInMirror
<1>4. CASE \/ ReopenCheck(r) \/ ReopenReadLock(r) \/ ReopenInLedger(r)
           \/ ReopenInMirror(r)
  BY <1>4, Zenon DEF ReopenCheck, ReopenReadLock, ReopenInLedger, ReopenInMirror
<1>5. CASE Start(r) \/ Crash(r)
  BY <1>5, Zenon DEF Start, Begin, Crash
<1>6. QED  BY <1>1, <1>2, <1>3, <1>4, <1>5, Zenon DEF Step

\* Every step of a request keeps the invariant.
LEMMA RequestStepIsGood ==
  ASSUME Good, NEW r \in Requests, Step(r)
  PROVE  Good'
BY EvidenceSteps, RefreshSteps, CheckSteps, SnapshotSteps, StoreGovernanceIsGood,
   ApproveInLedgerIsGood, ApproveInMirrorIsGood, LockInLedgerIsGood, LockInMirrorIsGood,
   ReopenCheckIsGood, ReopenReadLockIsGood, ReopenInLedgerIsGood, ReopenInMirrorIsGood
   DEF Step

\* So does every step of the system; in LAB there is nothing to keep.
LEMMA EveryStep ==
  ASSUME GovernanceInv, [Next]_vars
  PROVE  GovernanceInv'
<1>1. CASE UNCHANGED vars
  <2>1. /\ close' = close /\ mirror' = mirror /\ lock' = lock /\ approval' = approval
        /\ lockIndex' = lockIndex /\ activeLocks' = activeLocks /\ req' = req
        /\ approvalEvents' = approvalEvents /\ realData' = realData
    BY <1>1 DEF vars, ledgerVars
  <2>2. QED
    BY <2>1 DEF GovernanceInv, StoresAreGood, LedgerIsGood, MirrorIsGood, ClosesAreGood,
                RequestsAreGood
<1>2. CASE realData /\ Next
  <2>1. Good
    BY <1>2 DEF GovernanceInv, Good
  <2>2. ASSUME NEW r \in Requests, Start(r) \/ Step(r) \/ Crash(r)
        PROVE  Good'
    BY <2>1, <2>2, StartIsGood, RequestStepIsGood, CrashIsGood
  <2>3. Good'
    BY <1>2, <2>1, <2>2, ConfigurationIsGood DEF Next
  <2>4. QED  BY <2>3 DEF Good, GovernanceInv
<1>3. CASE ~realData /\ Next
  <2>1. realData' = realData
    BY <1>3, ModeStays DEF Next, ConfigureSourceRequirements, ConfigureBalanceSheetScope
  <2>2. QED  BY <1>3, <2>1 DEF GovernanceInv
<1>4. QED  BY <1>1, <1>2, <1>3

\* What the invariant is for.
LEMMA LedgerIsAhead ==
  ASSUME GovernanceInv
  PROVE  LedgerGoesFirst
<1>1. ASSUME realData
      PROVE  \A l \in LockIds : Progress(mirror[l].status) <= Progress(lock[l].status)
  BY <1>1 DEF GovernanceInv, StoresAreGood, LedgerIsGood, MirrorIsGood, LockStatuses, Progress
<1>2. ASSUME realData
      PROVE  \A c \in Closes : close[c].approvedHash # None =>
                                <<c, close[c].approvedHash>> \in approvalEvents
  BY <1>2 DEF GovernanceInv, StoresAreGood, ClosesAreGood
<1>3. QED
  BY <1>1, <1>2 DEF LedgerGoesFirst, MirrorNeverAheadOfLedger, ApprovalInLedgerFirst

\* In real-data modes Firestore goes first: however many requests run at once, whatever dies
\* or races between the two stores, the mirror of a lock is never further along than the lock,
\* and no close shows an approval the ledger has no event of.
THEOREM LedgerAlwaysGoesFirst == Spec => []LedgerGoesFirst
<1>1. Init => GovernanceInv
  BY InitialStates
<1>2. GovernanceInv /\ [Next]_vars => GovernanceInv'
  BY EveryStep
<1>3. GovernanceInv => LedgerGoesFirst
  BY LedgerIsAhead
<1>4. QED  BY <1>1, <1>2, <1>3, PTL DEF Spec

-----------------------------------------------------------------------------
(* One request at a time *)

\* What the stores hold, apart from closes and locks.
StoresAreTyped ==
  /\ realData \in BOOLEAN /\ crashes \in Nat
  /\ registry \in Registries /\ artifacts \in Artifacts /\ scope \in Scopes
  /\ source \in [Closes -> SourceRecords] /\ balance \in [Closes -> BalanceRecords]

\* The registers that go into a store or into the ledger hold what belongs there.
IsTypedRequest(q) ==
  /\ IsRequest(q)
  /\ q.at # "idle" => q.c \in Closes
  /\ q.op = "record" /\ q.at \in {"ledgerOpen", "mirrorOpen", "storeEvidence"} =>
       q.src \in Artifacts
  /\ q.op = "reconcile" /\ q.at \in {"check", "readScope", "storeBalance"} => q.bal \in Entries
  /\ q.at = "storeBalance" => q.scp \in Scopes
  /\ q.op = "reopen" => q.why \in Reasons
  /\ q.at \in {"storeSource", "snapBalance"} => q.src \in SourceRecords
  /\ q.at \in {"approveLedger", "approveMirror", "lockOverlap", "lockLedger", "lockMirror"} =>
       HashOf(q) \in EvidenceHashes

\* The types of the stores and of every request.
TypeInv ==
  /\ StoresAreTyped
  /\ DOMAIN req = Requests /\ \A r \in Requests : IsTypedRequest(req[r])

\* The close is neither locked nor reopened: reconcile, approve and lock ask for this.
Free(c) == close[c].closeStatus \notin {"LOCKED", "REOPENED"}
\* The evidence of a close as it stands: what its snapshot would fingerprint.
Evidence(c) == <<source[c], balance[c]>>
\* Where a request has written its lock to the ledger and not yet to the mirror.
Holding == {"lockMirror", "reopenMirror"}

\* What a request knows of the stores while no other one runs.
Knows(q) ==
  /\ q.op = "reconcile" /\ q.at \in {"readScope", "storeBalance"} => Free(q.c)
  /\ q.at \in {"derive", "storeSource", "loadBalance", "loadScope", "storeGovernance",
               "snapSource", "snapBalance", "approveLedger", "approveMirror",
               "lockOverlap", "lockLedger", "lockMirror"} => Free(q.c)
  /\ q.at \in {"loadBalance", "loadScope", "storeGovernance", "snapBalance"} =>
       q.src = source[q.c]
  /\ q.at \in {"loadScope", "storeGovernance"} => q.bal = balance[q.c]
  /\ q.at = "approveCheck" /\ Free(q.c) /\ close[q.c].governance = "READY_FOR_APPROVAL" =>
       EvidencePasses(q.c, Evidence(q.c))
  /\ q.op = "approve" /\ q.at \in {"snapSource", "snapBalance", "approveLedger", "approveMirror"} =>
       EvidencePasses(q.c, Evidence(q.c))
  /\ q.at \in {"approveLedger", "approveMirror", "lockOverlap", "lockLedger", "lockMirror"} =>
       HashOf(q) = Evidence(q.c)
  /\ q.op = "lock" /\ q.at \in {"snapSource", "snapBalance"} =>
       q.view.approvedHash = close[q.c].approvedHash
  /\ q.at \in {"lockOverlap", "lockLedger", "lockMirror"} =>
       close[q.c].approvedHash = Evidence(q.c)
  /\ q.at \in {"lockLedger", "lockMirror"} => ~MirrorBlocks(q.c)
  /\ q.at = "lockMirror" => /\ q.id \in LockIds /\ q.id[1] = q.c
                            /\ realData => lock[q.id].status = "LOCKED"
  /\ q.at \in {"readLock", "reopenLedger", "reopenMirror"} =>
       close[q.c].closeStatus = "LOCKED" /\ q.id = close[q.c].lockId
  /\ q.at \in {"reopenLedger", "reopenMirror"} => q.view = mirror[q.id]
  /\ q.at \in {"mirrorOpen", "storeEvidence"} => (realData => Ledger!Blocking(q.c) = {})
  /\ q.at \in {"approveLedger", "lockLedger", "reopenLedger"} => realData

\* A close is approved with evidence that passes, locked with its current evidence and under
\* the lock it shows, and final once it is reopened.
CloseIsGood(c) ==
  /\ IsClose(close[c])
  /\ close[c].approvedHash # None => EvidencePasses(c, close[c].approvedHash)
  /\ close[c].closeStatus = "LOCKED" =>
       /\ close[c].approvedHash = Evidence(c)
       /\ close[c].lockId \in LockIds /\ close[c].lockId[1] = c
       /\ mirror[close[c].lockId].status = "LOCKED"
  /\ close[c].closeStatus = "REOPENED" => close[c].approvalStatus = "INVALIDATED_BY_REOPEN"

\* The mirror of a lock says what its close says.
MirroredLockIsGood(l) ==
  /\ IsMirrored(mirror[l]) /\ mirror[l].status \in LockStatuses
  /\ mirror[l].status = "LOCKED" => /\ close[l[1]].closeStatus = "LOCKED"
                                    /\ close[l[1]].lockId = l
  /\ mirror[l].status = "REOPENED" => close[l[1]].closeStatus = "REOPENED"

\* As long as nothing was cut off, only the request between the two stores tells them apart.
StoresAgree ==
  realData /\ crashes = 0 =>
    \A l \in LockIds :
      \/ mirror[l].status = lock[l].status
      \/ \E r \in Requests : req[r].at \in Holding /\ req[r].id = l

\* What the stores are between any two steps of a single request.
SerialStores ==
  /\ DOMAIN close = Closes /\ DOMAIN mirror = LockIds
  /\ \A c \in Closes : CloseIsGood(c)
  /\ \A l \in LockIds : MirroredLockIsGood(l)
  /\ MirroredLocksDoNotOverlap
  /\ ~realData => \A c \in Closes : activeLocks[c.company] = {}

\* The invariant of one request at a time.
SerialInv == SerialStores /\ StoresAgree /\ \A r \in Requests : Knows(req[r])

-----------------------------------------------------------------------------
(* How a request's registers change *)

\* Everything but the label and the registers that are given.
Moved(m, q, at, view, src, bal, scp, id) ==
  /\ IsRequest(m)
  /\ m.op = q.op /\ m.c = q.c /\ m.why = q.why
  /\ m.at = at /\ m.view = view /\ m.src = src /\ m.bal = bal /\ m.scp = scp /\ m.id = id

\* A request that goes on with the registers n.
LEMMA GotoMoved ==
  ASSUME NEW r, NEW label, NEW n, IsRequest(n), Goto(r, label, n)
  PROVE  \E m : MovesTo(r, m) /\ Moved(m, n, label, n.view, n.src, n.bal, n.scp, n.id)
<1> DEFINE m == [n EXCEPT !.at = label]
<1>1. MovesTo(r, m)
  BY DEF Goto, MovesTo
<1>2. Moved(m, n, label, n.view, n.src, n.bal, n.scp, n.id)
  BY DEF IsRequest, Moved
<1> HIDE DEF m
<1>3. QED  BY <1>1, <1>2

\* One register set, of the registers q.
LEMMA RegisterMoved ==
  ASSUME NEW q, IsRequest(q), NEW x
  PROVE  /\ Moved([q EXCEPT !.view = x], q, q.at, x, q.src, q.bal, q.scp, q.id)
         /\ Moved([q EXCEPT !.src = x], q, q.at, q.view, x, q.bal, q.scp, q.id)
         /\ Moved([q EXCEPT !.bal = x], q, q.at, q.view, q.src, x, q.scp, q.id)
         /\ Moved([q EXCEPT !.scp = x], q, q.at, q.view, q.src, q.bal, x, q.id)
         /\ Moved([q EXCEPT !.id = x], q, q.at, q.view, q.src, q.bal, q.scp, x)
<1>1. Moved([q EXCEPT !.view = x], q, q.at, x, q.src, q.bal, q.scp, q.id)
  BY DEF IsRequest, Moved
<1>2. Moved([q EXCEPT !.src = x], q, q.at, q.view, x, q.bal, q.scp, q.id)
  BY DEF IsRequest, Moved
<1>3. Moved([q EXCEPT !.bal = x], q, q.at, q.view, q.src, x, q.scp, q.id)
  BY DEF IsRequest, Moved
<1>4. Moved([q EXCEPT !.scp = x], q, q.at, q.view, q.src, q.bal, x, q.id)
  BY DEF IsRequest, Moved
<1>5. Moved([q EXCEPT !.id = x], q, q.at, q.view, q.src, q.bal, q.scp, x)
  BY DEF IsRequest, Moved
<1>6. QED  BY <1>1, <1>2, <1>3, <1>4, <1>5

\* Where a request goes on: with its registers as they are, or with one of them set.
LEMMA OneMoved ==
  ASSUME NEW r, NEW q, q = req[r], IsRequest(q), NEW label, NEW x
  PROVE  /\ Goto(r, label, q) =>
              \E m : MovesTo(r, m) /\ Moved(m, q, label, q.view, q.src, q.bal, q.scp, q.id)
         /\ Goto(r, label, [q EXCEPT !.view = x]) =>
              \E m : MovesTo(r, m) /\ Moved(m, q, label, x, q.src, q.bal, q.scp, q.id)
         /\ Goto(r, label, [q EXCEPT !.src = x]) =>
              \E m : MovesTo(r, m) /\ Moved(m, q, label, q.view, x, q.bal, q.scp, q.id)
         /\ Goto(r, label, [q EXCEPT !.bal = x]) =>
              \E m : MovesTo(r, m) /\ Moved(m, q, label, q.view, q.src, x, q.scp, q.id)
         /\ Goto(r, label, [q EXCEPT !.scp = x]) =>
              \E m : MovesTo(r, m) /\ Moved(m, q, label, q.view, q.src, q.bal, x, q.id)
         /\ Goto(r, label, [q EXCEPT !.id = x]) =>
              \E m : MovesTo(r, m) /\ Moved(m, q, label, q.view, q.src, q.bal, q.scp, x)
<1>1. ASSUME NEW n, NEW view, NEW src, NEW bal, NEW scp, NEW id,
             Moved(n, q, q.at, view, src, bal, scp, id), Goto(r, label, n)
      PROVE  \E m : MovesTo(r, m) /\ Moved(m, q, label, view, src, bal, scp, id)
  BY <1>1, GotoMoved DEF Moved
<1>2. Moved(q, q, q.at, q.view, q.src, q.bal, q.scp, q.id)
  BY DEF Moved
<1>3. QED  BY <1>1, <1>2, RegisterMoved

\* Two registers are set, or the four that a refresh used are cleared.
LEMMA MoreMoved ==
  ASSUME NEW r, NEW q, q = req[r], IsRequest(q), NEW label, NEW x, NEW y
  PROVE  /\ Goto(r, label, [q EXCEPT !.bal = x, !.view = y]) =>
              \E m : MovesTo(r, m) /\ Moved(m, q, label, y, q.src, x, q.scp, q.id)
         /\ Goto(r, label, [q EXCEPT !.bal = x, !.scp = y]) =>
              \E m : MovesTo(r, m) /\ Moved(m, q, label, q.view, q.src, x, y, q.id)
         /\ Goto(r, label, [q EXCEPT !.view = None, !.src = None, !.bal = None, !.scp = None]) =>
              \E m : MovesTo(r, m) /\ Moved(m, q, label, None, None, None, None, q.id)
<1>1. ASSUME NEW n, NEW view, NEW src, NEW bal, NEW scp, NEW id,
             Moved(n, q, q.at, view, src, bal, scp, id), Goto(r, label, n)
      PROVE  \E m : MovesTo(r, m) /\ Moved(m, q, label, view, src, bal, scp, id)
  BY <1>1, GotoMoved DEF Moved
<1>2. Moved([q EXCEPT !.bal = x, !.view = y], q, q.at, y, q.src, x, q.scp, q.id)
  <2> DEFINE k == [q EXCEPT !.bal = x]
  <2>1. PICK n : n = [q EXCEPT !.bal = x, !.view = y]
    OBVIOUS
  <2>2. n = [k EXCEPT !.view = y]
    BY <2>1 DEF IsRequest
  <2>3. Moved(k, q, q.at, q.view, q.src, x, q.scp, q.id)
    BY DEF IsRequest, Moved
  <2> HIDE DEF k
  <2>4. Moved(n, q, q.at, y, q.src, x, q.scp, q.id)
    BY <2>2, <2>3 DEF IsRequest, Moved
  <2>5. QED  BY <2>1, <2>4
<1>3. Moved([q EXCEPT !.bal = x, !.scp = y], q, q.at, q.view, q.src, x, y, q.id)
  <2> DEFINE k == [q EXCEPT !.bal = x]
  <2>1. PICK n : n = [q EXCEPT !.bal = x, !.scp = y]
    OBVIOUS
  <2>2. n = [k EXCEPT !.scp = y]
    BY <2>1 DEF IsRequest
  <2>3. Moved(k, q, q.at, q.view, q.src, x, q.scp, q.id)
    BY DEF IsRequest, Moved
  <2> HIDE DEF k
  <2>4. Moved(n, q, q.at, q.view, q.src, x, y, q.id)
    BY <2>2, <2>3 DEF IsRequest, Moved
  <2>5. QED  BY <2>1, <2>4
<1>4. Moved([q EXCEPT !.view = None, !.src = None, !.bal = None, !.scp = None],
            q, q.at, None, None, None, None, q.id)
  <2>1. PICK n : n = [q EXCEPT !.view = None, !.src = None, !.bal = None, !.scp = None]
    OBVIOUS
  <2> DEFINE k == [q EXCEPT !.view = None]
  <2> DEFINE l == [k EXCEPT !.src = None]
  <2> DEFINE m == [l EXCEPT !.bal = None]
  <2>2. n = [m EXCEPT !.scp = None]
    BY <2>1 DEF IsRequest
  <2>3. Moved(k, q, q.at, None, q.src, q.bal, q.scp, q.id)
    BY DEF IsRequest, Moved
  <2> HIDE DEF k
  <2>4. Moved(l, q, q.at, None, None, q.bal, q.scp, q.id)
    BY <2>3 DEF IsRequest, Moved
  <2> HIDE DEF l
  <2>5. Moved(m, q, q.at, None, None, None, q.scp, q.id)
    BY <2>4 DEF IsRequest, Moved
  <2> HIDE DEF m
  <2>6. Moved(n, q, q.at, None, None, None, None, q.id)
    BY <2>2, <2>5 DEF IsRequest, Moved
  <2>7. QED  BY <2>1, <2>6
<1>5. QED  BY <1>1, <1>2, <1>3, <1>4

-----------------------------------------------------------------------------
(* What a step of one request leaves to the others *)

\* A step keeps the types if the request that moves and the stores keep theirs.
LEMMA TypedMove ==
  ASSUME TypeInv, NEW r \in Requests, NEW m, MovesTo(r, m), IsTypedRequest(m), StoresAreTyped'
  PROVE  TypeInv'
BY DEF TypeInv, MovesTo

\* An idle request needs no types and knows nothing.
LEMMA IdleKnows ==
  IsTypedRequest(IdleRequest) /\ Knows(IdleRequest) /\ Knows(IdleRequest)'
BY DEF IsTypedRequest, IsRequest, Knows, IdleRequest

\* No other request runs.
Alone(r) == \A s \in Requests \ {r} : req[s] = IdleRequest

\* A step of the only request keeps the invariant if the stores and what it knows do.
LEMMA SerialMove ==
  ASSUME TypeInv, NEW r \in Requests, Alone(r), NEW m, MovesTo(r, m),
         SerialStores', StoresAgree', Knows(m)'
  PROVE  SerialInv'
<1>1. req'[r] = m /\ \A s \in Requests \ {r} : req'[s] = IdleRequest
  BY DEF TypeInv, MovesTo, Alone
<1>2. ASSUME NEW s \in Requests
      PROVE  Knows(req[s])'
  <2>1. CASE s = r
    <3>1. req'[s] = m
      BY <1>1, <2>1
    <3>2. QED  BY <3>1 DEF Knows, Free, Evidence, EvidencePasses, HashOf, MirrorBlocks
  <2>2. CASE s # r
    <3>1. req'[s] = IdleRequest
      BY <1>1, <2>2
    <3>2. QED  BY <3>1 DEF Knows, IdleRequest
  <2>3. QED  BY <2>1, <2>2
<1>3. QED  BY <1>2 DEF SerialInv

\* Reads, and writes of what no request relies on.
Still == UNCHANGED <<realData, source, balance, close, mirror, lock, activeLocks>>

\* What is known stays known.
LEMMA StillKnows ==
  ASSUME Still, NEW q, Knows(q)
  PROVE  Knows(q)'
<1>1. /\ realData' = realData /\ source' = source /\ balance' = balance /\ close' = close
      /\ mirror' = mirror /\ lock' = lock /\ activeLocks' = activeLocks
  BY DEF Still
<1>2. QED
  BY <1>1 DEF Knows, Free, Evidence, EvidencePasses, HashOf, MirrorBlocks, Ledger!Blocking

\* The stores stay good.
LEMMA StillStores ==
  ASSUME Still, SerialStores
  PROVE  SerialStores'
<1>1. /\ realData' = realData /\ source' = source /\ balance' = balance /\ close' = close
      /\ mirror' = mirror /\ lock' = lock /\ activeLocks' = activeLocks
  BY DEF Still
<1>2. QED
  BY <1>1 DEF SerialStores, CloseIsGood, MirroredLockIsGood, Evidence, EvidencePasses,
              MirroredLocksDoNotOverlap

\* A request that is not between the two stores reads on, begins, or is answered.
LEMMA ReadStep ==
  ASSUME TypeInv, NEW r \in Requests, req[r].at \notin Holding, Still, crashes' = crashes,
         StoresAreTyped', NEW m, MovesTo(r, m), IsTypedRequest(m), SerialInv => Knows(m)
  PROVE  TypeInv' /\ (SerialInv => SerialInv')
<1>1. TypeInv'
  BY TypedMove
<1>2. ASSUME SerialInv
      PROVE  SerialInv'
  <2>1. req'[r] = m /\ \A s \in Requests \ {r} : req'[s] = req[s]
    BY DEF TypeInv, MovesTo
  <2>2. SerialStores'
    BY <1>2, StillStores DEF SerialInv
  <2>3. StoresAgree'
    <3>1. mirror' = mirror /\ lock' = lock /\ realData' = realData
      BY DEF Still
    <3>2. QED  BY <1>2, <2>1, <3>1 DEF SerialInv, StoresAgree
  <2>4. ASSUME NEW s \in Requests
        PROVE  Knows(req[s])'
    <3>1. Knows(req'[s])
      BY <1>2, <2>1 DEF SerialInv
    <3>2. PICK n : n = req'[s]
      OBVIOUS
    <3>3. Knows(n)'
      BY <3>1, <3>2, StillKnows
    <3>4. QED
      BY <3>2, <3>3 DEF Knows, Free, Evidence, EvidencePasses, HashOf, MirrorBlocks
  <2>5. QED  BY <2>2, <2>3, <2>4 DEF SerialInv
<1>3. QED  BY <1>1, <1>2

\* It is answered.
LEMMA AnswerStep ==
  ASSUME TypeInv, NEW r \in Requests, req[r].at \notin Holding, Still, crashes' = crashes,
         StoresAreTyped', Answer(r)
  PROVE  TypeInv' /\ (SerialInv => SerialInv')
<1>1. MovesTo(r, IdleRequest)
  BY DEF Answer, MovesTo
<1>2. QED  BY <1>1, IdleKnows, ReadStep

\* What most steps leave alone.
Reading == UNCHANGED <<realData, evidenceVars, close, mirror, crashes, ledgerVars>>

\* A step that only reads is still.
LEMMA ReadingIsStill ==
  ASSUME TypeInv, Reading
  PROVE  Still /\ crashes' = crashes /\ StoresAreTyped'
BY DEF Reading, Still, evidenceVars, ledgerVars, TypeInv, StoresAreTyped

\* A read of a request that goes on as given, or is answered.
LEMMA ReadGoesOn ==
  ASSUME TypeInv, NEW r \in Requests, req[r].at \notin Holding, Reading,
         \/ Answer(r)
         \/ \E m : MovesTo(r, m) /\ IsTypedRequest(m) /\ (SerialInv => Knows(m))
  PROVE  TypeInv' /\ (SerialInv => SerialInv')
BY ReadingIsStill, ReadStep, AnswerStep

-----------------------------------------------------------------------------
(* The reads *)

\* The ledger is asked for the day of the evidence.
LEMMA AssertLedgerOpenStep ==
  ASSUME TypeInv, NEW r \in Requests, AssertLedgerOpen(r)
  PROVE  TypeInv' /\ (SerialInv => SerialInv')
<1>1. PICK q : q = req[r] /\ IsTypedRequest(q) /\ (SerialInv => Knows(q))
  BY DEF TypeInv, SerialInv
<1>2. /\ Reading /\ q.op = "record" /\ q.at = "ledgerOpen"
      /\ \/ Answer(r)
         \/ (realData => Ledger!Blocking(q.c) = {}) /\ Goto(r, "mirrorOpen", q)
  BY <1>1, Zenon DEF AssertLedgerOpen, LedgerBlocks, At, Reading
<1>3. ASSUME ~Answer(r)
      PROVE  \E m : MovesTo(r, m) /\ IsTypedRequest(m) /\ (SerialInv => Knows(m))
  <2>1. PICK m : MovesTo(r, m) /\ Moved(m, q, "mirrorOpen", q.view, q.src,
                                        q.bal, q.scp, q.id)
    BY <1>1, <1>2, <1>3, OneMoved DEF IsTypedRequest
  <2>2. IsTypedRequest(m)
    BY <1>1, <1>2, <2>1 DEF IsTypedRequest, Moved, TypeInv, StoresAreTyped
  <2>3. SerialInv => Knows(m)
    BY <1>1, <1>2, <1>3, <2>1 DEF Knows, Moved, Free
  <2>4. QED  BY <2>1, <2>2, <2>3
<1>4. req[r].at \notin Holding
  BY <1>1, <1>2 DEF Holding
<1>5. QED  BY <1>2, <1>3, <1>4, ReadGoesOn

\* The mirror is asked.
LEMMA AssertMirrorOpenStep ==
  ASSUME TypeInv, NEW r \in Requests, AssertMirrorOpen(r)
  PROVE  TypeInv' /\ (SerialInv => SerialInv')
<1>1. PICK q : q = req[r] /\ IsTypedRequest(q) /\ (SerialInv => Knows(q))
  BY DEF TypeInv, SerialInv
<1>2. /\ Reading /\ q.op = "record" /\ q.at = "mirrorOpen"
      /\ \/ Answer(r)
         \/ Goto(r, "storeEvidence", q)
  BY <1>1, Zenon DEF AssertMirrorOpen, At, Reading
<1>3. ASSUME ~Answer(r)
      PROVE  \E m : MovesTo(r, m) /\ IsTypedRequest(m) /\ (SerialInv => Knows(m))
  <2>1. PICK m : MovesTo(r, m) /\ Moved(m, q, "storeEvidence", q.view, q.src,
                                        q.bal, q.scp, q.id)
    BY <1>1, <1>2, <1>3, OneMoved DEF IsTypedRequest
  <2>2. IsTypedRequest(m)
    BY <1>1, <1>2, <2>1 DEF IsTypedRequest, Moved, TypeInv, StoresAreTyped
  <2>3. SerialInv => Knows(m)
    BY <1>1, <1>2, <1>3, <2>1 DEF Knows, Moved, Free
  <2>4. QED  BY <2>1, <2>2, <2>3
<1>4. req[r].at \notin Holding
  BY <1>1, <1>2 DEF Holding
<1>5. QED  BY <1>2, <1>3, <1>4, ReadGoesOn

\* A reconciliation needs a close that is neither locked nor reopened.
LEMMA ReconcileCheckStep ==
  ASSUME TypeInv, NEW r \in Requests, ReconcileCheck(r)
  PROVE  TypeInv' /\ (SerialInv => SerialInv')
<1>1. PICK q : q = req[r] /\ IsTypedRequest(q) /\ (SerialInv => Knows(q))
  BY DEF TypeInv, SerialInv
<1>2. /\ Reading /\ q.op = "reconcile" /\ q.at = "check"
      /\ \/ Answer(r)
         \/ Free(q.c) /\ Goto(r, "readScope", q)
  BY <1>1, Zenon DEF ReconcileCheck, Free, At, Reading
<1>3. ASSUME ~Answer(r)
      PROVE  \E m : MovesTo(r, m) /\ IsTypedRequest(m) /\ (SerialInv => Knows(m))
  <2>1. PICK m : MovesTo(r, m) /\ Moved(m, q, "readScope", q.view, q.src,
                                        q.bal, q.scp, q.id)
    BY <1>1, <1>2, <1>3, OneMoved DEF IsTypedRequest
  <2>2. IsTypedRequest(m)
    BY <1>1, <1>2, <2>1 DEF IsTypedRequest, Moved, TypeInv, StoresAreTyped
  <2>3. SerialInv => Knows(m)
    BY <1>1, <1>2, <1>3, <2>1 DEF Knows, Moved, Free
  <2>4. QED  BY <2>1, <2>2, <2>3
<1>4. req[r].at \notin Holding
  BY <1>1, <1>2 DEF Holding
<1>5. QED  BY <1>2, <1>3, <1>4, ReadGoesOn

\* It reads the scope.
LEMMA ReconcileScopeStep ==
  ASSUME TypeInv, NEW r \in Requests, ReconcileScope(r)
  PROVE  TypeInv' /\ (SerialInv => SerialInv')
<1>1. PICK q : q = req[r] /\ IsTypedRequest(q) /\ (SerialInv => Knows(q))
  BY DEF TypeInv, SerialInv
<1>2. /\ Reading /\ q.op = "reconcile" /\ q.at = "readScope"
      /\ \/ Answer(r)
         \/ Goto(r, "storeBalance", [q EXCEPT !.scp = scope])
  BY <1>1, Zenon DEF ReconcileScope, At, Reading
<1>3. ASSUME ~Answer(r)
      PROVE  \E m : MovesTo(r, m) /\ IsTypedRequest(m) /\ (SerialInv => Knows(m))
  <2>1. PICK m : MovesTo(r, m) /\ Moved(m, q, "storeBalance", q.view, q.src,
                                        q.bal, scope, q.id)
    BY <1>1, <1>2, <1>3, OneMoved DEF IsTypedRequest
  <2>2. IsTypedRequest(m)
    BY <1>1, <1>2, <2>1 DEF IsTypedRequest, Moved, TypeInv, StoresAreTyped
  <2>3. SerialInv => Knows(m)
    BY <1>1, <1>2, <1>3, <2>1 DEF Knows, Moved, Free
  <2>4. QED  BY <2>1, <2>2, <2>3
<1>4. req[r].at \notin Holding
  BY <1>1, <1>2 DEF Holding
<1>5. QED  BY <1>2, <1>3, <1>4, ReadGoesOn

\* An evaluation needs one too.
LEMMA EvaluateCheckStep ==
  ASSUME TypeInv, NEW r \in Requests, EvaluateCheck(r)
  PROVE  TypeInv' /\ (SerialInv => SerialInv')
<1>1. PICK q : q = req[r] /\ IsTypedRequest(q) /\ (SerialInv => Knows(q))
  BY DEF TypeInv, SerialInv
<1>2. /\ Reading /\ q.at = "evaluate"
      /\ \/ Answer(r)
         \/ Free(q.c) /\ Goto(r, "derive", q)
  BY <1>1, Zenon DEF EvaluateCheck, Free, Reading
<1>3. ASSUME ~Answer(r)
      PROVE  \E m : MovesTo(r, m) /\ IsTypedRequest(m) /\ (SerialInv => Knows(m))
  <2>1. PICK m : MovesTo(r, m) /\ Moved(m, q, "derive", q.view, q.src,
                                        q.bal, q.scp, q.id)
    BY <1>1, <1>2, <1>3, OneMoved DEF IsTypedRequest
  <2>2. IsTypedRequest(m)
    BY <1>1, <1>2, <2>1 DEF IsTypedRequest, Moved, TypeInv, StoresAreTyped
  <2>3. SerialInv => Knows(m)
    BY <1>1, <1>2, <1>3, <2>1 DEF Knows, Moved, Free
  <2>4. QED  BY <2>1, <2>2, <2>3
<1>4. req[r].at \notin Holding
  BY <1>1, <1>2 DEF Holding
<1>5. QED  BY <1>2, <1>3, <1>4, ReadGoesOn

\* It derives completeness from what it reads.
LEMMA DeriveSourceStep ==
  ASSUME TypeInv, NEW r \in Requests, DeriveSource(r)
  PROVE  TypeInv' /\ (SerialInv => SerialInv')
<1>1. PICK q : q = req[r] /\ IsTypedRequest(q) /\ (SerialInv => Knows(q))
  BY DEF TypeInv, SerialInv
<1>2. /\ Reading /\ q.at = "derive"
      /\ \/ Answer(r)
         \/ Goto(r, "storeSource", [q EXCEPT !.src = <<registry, artifacts>>])
  BY <1>1, Zenon DEF DeriveSource, Reading
<1>3. ASSUME ~Answer(r)
      PROVE  \E m : MovesTo(r, m) /\ IsTypedRequest(m) /\ (SerialInv => Knows(m))
  <2>1. PICK m : MovesTo(r, m) /\ Moved(m, q, "storeSource", q.view, <<registry, artifacts>>,
                                        q.bal, q.scp, q.id)
    BY <1>1, <1>2, <1>3, OneMoved DEF IsTypedRequest
  <2>2. IsTypedRequest(m)
    BY <1>1, <1>2, <2>1 DEF IsTypedRequest, Moved, TypeInv, StoresAreTyped, SourceRecords
  <2>3. SerialInv => Knows(m)
    BY <1>1, <1>2, <1>3, <2>1 DEF Knows, Moved, Free
  <2>4. QED  BY <2>1, <2>2, <2>3
<1>4. req[r].at \notin Holding
  BY <1>1, <1>2 DEF Holding
<1>5. QED  BY <1>2, <1>3, <1>4, ReadGoesOn

\* A refresh reads the reconciliation.
LEMMA LoadBalanceStep ==
  ASSUME TypeInv, NEW r \in Requests, LoadBalance(r)
  PROVE  TypeInv' /\ (SerialInv => SerialInv')
<1>1. PICK q : q = req[r] /\ IsTypedRequest(q) /\ (SerialInv => Knows(q))
  BY DEF TypeInv, SerialInv
<1>2. /\ Reading /\ q.at = "loadBalance"
      /\ \/ Answer(r)
         \/ Goto(r, "loadScope", [q EXCEPT !.bal = balance[q.c]])
  BY <1>1, Zenon DEF LoadBalance, Reading
<1>3. ASSUME ~Answer(r)
      PROVE  \E m : MovesTo(r, m) /\ IsTypedRequest(m) /\ (SerialInv => Knows(m))
  <2>1. PICK m : MovesTo(r, m) /\ Moved(m, q, "loadScope", q.view, q.src,
                                        balance[q.c], q.scp, q.id)
    BY <1>1, <1>2, <1>3, OneMoved DEF IsTypedRequest
  <2>2. IsTypedRequest(m)
    BY <1>1, <1>2, <2>1 DEF IsTypedRequest, Moved, TypeInv, StoresAreTyped
  <2>3. SerialInv => Knows(m)
    BY <1>1, <1>2, <1>3, <2>1 DEF Knows, Moved, Free
  <2>4. QED  BY <2>1, <2>2, <2>3
<1>4. req[r].at \notin Holding
  BY <1>1, <1>2 DEF Holding
<1>5. QED  BY <1>2, <1>3, <1>4, ReadGoesOn

\* And the scope in force.
LEMMA LoadScopeStep ==
  ASSUME TypeInv, NEW r \in Requests, LoadScope(r)
  PROVE  TypeInv' /\ (SerialInv => SerialInv')
<1>1. PICK q : q = req[r] /\ IsTypedRequest(q) /\ (SerialInv => Knows(q))
  BY DEF TypeInv, SerialInv
<1>2. /\ Reading /\ q.at = "loadScope"
      /\ \/ Answer(r)
         \/ Goto(r, "storeGovernance", [q EXCEPT !.scp = scope])
  BY <1>1, Zenon DEF LoadScope, Reading
<1>3. ASSUME ~Answer(r)
      PROVE  \E m : MovesTo(r, m) /\ IsTypedRequest(m) /\ (SerialInv => Knows(m))
  <2>1. PICK m : MovesTo(r, m) /\ Moved(m, q, "storeGovernance", q.view, q.src,
                                        q.bal, scope, q.id)
    BY <1>1, <1>2, <1>3, OneMoved DEF IsTypedRequest
  <2>2. IsTypedRequest(m)
    BY <1>1, <1>2, <2>1 DEF IsTypedRequest, Moved, TypeInv, StoresAreTyped
  <2>3. SerialInv => Knows(m)
    BY <1>1, <1>2, <1>3, <2>1 DEF Knows, Moved, Free
  <2>4. QED  BY <2>1, <2>2, <2>3
<1>4. req[r].at \notin Holding
  BY <1>1, <1>2 DEF Holding
<1>5. QED  BY <1>2, <1>3, <1>4, ReadGoesOn

\* A snapshot reads the source record.
LEMMA SnapshotSourceStep ==
  ASSUME TypeInv, NEW r \in Requests, SnapshotSource(r)
  PROVE  TypeInv' /\ (SerialInv => SerialInv')
<1>1. PICK q : q = req[r] /\ IsTypedRequest(q) /\ (SerialInv => Knows(q))
  BY DEF TypeInv, SerialInv
<1>2. /\ Reading /\ q.at = "snapSource"
      /\ \/ Answer(r)
         \/ Goto(r, "snapBalance", [q EXCEPT !.src = source[q.c]])
  BY <1>1, Zenon DEF SnapshotSource, Reading
<1>3. ASSUME ~Answer(r)
      PROVE  \E m : MovesTo(r, m) /\ IsTypedRequest(m) /\ (SerialInv => Knows(m))
  <2>1. PICK m : MovesTo(r, m) /\ Moved(m, q, "snapBalance", q.view, source[q.c],
                                        q.bal, q.scp, q.id)
    BY <1>1, <1>2, <1>3, OneMoved DEF IsTypedRequest
  <2>2. IsTypedRequest(m)
    BY <1>1, <1>2, <2>1 DEF IsTypedRequest, Moved, TypeInv, StoresAreTyped
  <2>3. SerialInv => Knows(m)
    BY <1>1, <1>2, <1>3, <2>1 DEF Knows, Moved, Free
  <2>4. QED  BY <2>1, <2>2, <2>3
<1>4. req[r].at \notin Holding
  BY <1>1, <1>2 DEF Holding
<1>5. QED  BY <1>2, <1>3, <1>4, ReadGoesOn

\* An approval needs a close that is ready.
LEMMA ApproveCheckStep ==
  ASSUME TypeInv, NEW r \in Requests, ApproveCheck(r)
  PROVE  TypeInv' /\ (SerialInv => SerialInv')
<1>1. PICK q : q = req[r] /\ IsTypedRequest(q) /\ (SerialInv => Knows(q))
  BY DEF TypeInv, SerialInv
<1>2. /\ Reading /\ q.op = "approve" /\ q.at = "approveCheck"
      /\ \/ Answer(r)
         \/ Free(q.c) /\ close[q.c].governance = "READY_FOR_APPROVAL"
           /\ Goto(r, "snapSource", [q EXCEPT !.view = close[q.c]])
  BY <1>1, Zenon DEF ApproveCheck, Free, At, Reading
<1>3. ASSUME ~Answer(r)
      PROVE  \E m : MovesTo(r, m) /\ IsTypedRequest(m) /\ (SerialInv => Knows(m))
  <2>1. PICK m : MovesTo(r, m) /\ Moved(m, q, "snapSource", close[q.c], q.src,
                                        q.bal, q.scp, q.id)
    BY <1>1, <1>2, <1>3, OneMoved DEF IsTypedRequest
  <2>2. IsTypedRequest(m)
    BY <1>1, <1>2, <2>1 DEF IsTypedRequest, Moved, TypeInv, StoresAreTyped
  <2>3. SerialInv => Knows(m)
    BY <1>1, <1>2, <1>3, <2>1 DEF Knows, Moved, Free
  <2>4. QED  BY <2>1, <2>2, <2>3
<1>4. req[r].at \notin Holding
  BY <1>1, <1>2 DEF Holding
<1>5. QED  BY <1>2, <1>3, <1>4, ReadGoesOn

\* A lock needs a close that is approved.
LEMMA LockCheckStep ==
  ASSUME TypeInv, NEW r \in Requests, LockCheck(r)
  PROVE  TypeInv' /\ (SerialInv => SerialInv')
<1>1. PICK q : q = req[r] /\ IsTypedRequest(q) /\ (SerialInv => Knows(q))
  BY DEF TypeInv, SerialInv
<1>2. /\ Reading /\ q.op = "lock" /\ q.at = "lockCheck"
      /\ \/ Answer(r)
         \/ close[q.c].closeStatus # "LOCKED" /\ close[q.c].approvalStatus = "APPROVED"
           /\ Goto(r, "snapSource", [q EXCEPT !.view = close[q.c]])
  BY <1>1, Zenon DEF LockCheck, At, Reading
<1>3. ASSUME ~Answer(r)
      PROVE  \E m : MovesTo(r, m) /\ IsTypedRequest(m) /\ (SerialInv => Knows(m))
  <2>1. PICK m : MovesTo(r, m) /\ Moved(m, q, "snapSource", close[q.c], q.src,
                                        q.bal, q.scp, q.id)
    BY <1>1, <1>2, <1>3, OneMoved DEF IsTypedRequest
  <2>2. IsTypedRequest(m)
    BY <1>1, <1>2, <2>1 DEF IsTypedRequest, Moved, TypeInv, StoresAreTyped
  <2>3. SerialInv => Knows(m)
    <3>1. SerialInv => Free(q.c)
      BY <1>1, <1>2, <1>3 DEF IsTypedRequest, SerialInv, SerialStores, CloseIsGood, Free
    <3>2. QED  BY <1>1, <1>2, <1>3, <2>1, <3>1 DEF Knows, Moved
  <2>4. QED  BY <2>1, <2>2, <2>3
<1>4. req[r].at \notin Holding
  BY <1>1, <1>2 DEF Holding
<1>5. QED  BY <1>2, <1>3, <1>4, ReadGoesOn

\* A reopen needs a close that is locked.
LEMMA ReopenCheckStep ==
  ASSUME TypeInv, NEW r \in Requests, ReopenCheck(r)
  PROVE  TypeInv' /\ (SerialInv => SerialInv')
<1>1. PICK q : q = req[r] /\ IsTypedRequest(q) /\ (SerialInv => Knows(q))
  BY DEF TypeInv, SerialInv
<1>2. /\ Reading /\ q.op = "reopen" /\ q.at = "check"
      /\ \/ Answer(r)
         \/ close[q.c].closeStatus = "LOCKED"
           /\ Goto(r, "readLock", [q EXCEPT !.id = close[q.c].lockId])
  BY <1>1, Zenon DEF ReopenCheck, At, Reading
<1>3. ASSUME ~Answer(r)
      PROVE  \E m : MovesTo(r, m) /\ IsTypedRequest(m) /\ (SerialInv => Knows(m))
  <2>1. PICK m : MovesTo(r, m) /\ Moved(m, q, "readLock", q.view, q.src,
                                        q.bal, q.scp, close[q.c].lockId)
    BY <1>1, <1>2, <1>3, OneMoved DEF IsTypedRequest
  <2>2. IsTypedRequest(m)
    BY <1>1, <1>2, <2>1 DEF IsTypedRequest, Moved, TypeInv, StoresAreTyped
  <2>3. SerialInv => Knows(m)
    BY <1>1, <1>2, <1>3, <2>1 DEF Knows, Moved, Free
  <2>4. QED  BY <2>1, <2>2, <2>3
<1>4. req[r].at \notin Holding
  BY <1>1, <1>2 DEF Holding
<1>5. QED  BY <1>2, <1>3, <1>4, ReadGoesOn

\* A refresh ends at once for a locked close; else it keeps the close as it is now.
LEMMA RefreshReadStep ==
  ASSUME TypeInv, NEW r \in Requests, RefreshRead(r)
  PROVE  TypeInv' /\ (SerialInv => SerialInv')
<1>1. PICK q : q = req[r] /\ IsTypedRequest(q) /\ (SerialInv => Knows(q))
  BY DEF TypeInv, SerialInv
<1>2. /\ Reading /\ q.at = "refresh"
      /\ \/ ~Free(q.c) /\ LeaveRefresh(r)
         \/ Goto(r, "evaluate", [q EXCEPT !.view = close[q.c]])
  BY <1>1, Zenon DEF RefreshRead, Free, Reading
<1>3. CASE Goto(r, "evaluate", [q EXCEPT !.view = close[q.c]])
  <2>1. PICK m : MovesTo(r, m) /\ Moved(m, q, "evaluate", close[q.c], q.src, q.bal, q.scp, q.id)
    BY <1>1, <1>3, OneMoved DEF IsTypedRequest
  <2>2. IsTypedRequest(m) /\ Knows(m)
    BY <1>1, <1>2, <2>1 DEF IsTypedRequest, Moved, Knows
  <2>3. req[r].at \notin Holding
    BY <1>1, <1>2 DEF Holding
  <2>4. QED  BY <1>2, <2>1, <2>2, <2>3, ReadGoesOn
<1>4. CASE LeaveRefresh(r) /\ ~Free(q.c)
  <2>1. ASSUME ~Answer(r)
        PROVE  \E m : MovesTo(r, m) /\ IsTypedRequest(m) /\ Knows(m)
    <3>1. PICK label : /\ label \in {"approveCheck", "lockCheck"}
                       /\ Goto(r, label, [q EXCEPT !.view = None, !.src = None, !.bal = None,
                                                   !.scp = None])
      BY <1>1, <1>4, <2>1 DEF LeaveRefresh, AfterRefresh
    <3>2. PICK m : MovesTo(r, m) /\ Moved(m, q, label, None, None, None, None, q.id)
      BY <1>1, <3>1, MoreMoved, Zenon DEF IsTypedRequest
    <3>3. IsTypedRequest(m) /\ Knows(m)
      BY <1>1, <1>2, <1>4, <3>1, <3>2 DEF IsTypedRequest, Moved, Knows
    <3>4. QED  BY <3>2, <3>3
  <2>2. req[r].at \notin Holding
    BY <1>1, <1>2 DEF Holding
  <2>3. QED  BY <1>2, <2>1, <2>2, ReadGoesOn
<1>5. QED  BY <1>2, <1>3, <1>4

\* An approval has the evidence in its registers, and goes to the ledger first.
LEMMA ApproveSnapshotStep ==
  ASSUME TypeInv, NEW r \in Requests, ApproveSnapshot(r)
  PROVE  TypeInv' /\ (SerialInv => SerialInv')
<1>1. PICK q : q = req[r] /\ IsTypedRequest(q) /\ (SerialInv => Knows(q))
  BY DEF TypeInv, SerialInv
<1>2. PICK label : /\ Reading /\ q.op = "approve" /\ q.at = "snapBalance"
                   /\ label = LedgerFirst("approveLedger", "approveMirror")
                   /\ \/ Answer(r)
                      \/ Goto(r, label, [q EXCEPT !.bal = balance[q.c], !.view = None])
  BY <1>1, Zenon DEF ApproveSnapshot, At, Reading
<1>3. label \in {"approveLedger", "approveMirror"} /\ (label = "approveLedger" => realData)
  BY <1>2 DEF LedgerFirst
<1>4. ASSUME ~Answer(r)
      PROVE  \E m : MovesTo(r, m) /\ IsTypedRequest(m) /\ (SerialInv => Knows(m))
  <2>1. PICK m : MovesTo(r, m) /\ Moved(m, q, label, None, q.src, balance[q.c], q.scp, q.id)
    BY <1>1, <1>2, <1>4, MoreMoved, Zenon DEF IsTypedRequest
  <2>2. HashOf(m) \in EvidenceHashes
    BY <1>1, <1>2, <2>1
       DEF IsTypedRequest, Moved, TypeInv, StoresAreTyped, EvidenceHashes, HashOf
  <2>3. IsTypedRequest(m)
    BY <1>1, <1>2, <1>3, <2>1, <2>2 DEF IsTypedRequest, Moved
  <2>4. SerialInv => Knows(m)
    BY <1>1, <1>2, <1>3, <2>1 DEF Knows, Moved, HashOf, Evidence
  <2>5. QED  BY <2>1, <2>3, <2>4
<1>5. req[r].at \notin Holding
  BY <1>1, <1>2 DEF Holding
<1>6. QED  BY <1>2, <1>4, <1>5, ReadGoesOn

\* A lock goes on if the evidence is the one approved.
LEMMA LockSnapshotStep ==
  ASSUME TypeInv, NEW r \in Requests, LockSnapshot(r)
  PROVE  TypeInv' /\ (SerialInv => SerialInv')
<1>1. PICK q : q = req[r] /\ IsTypedRequest(q) /\ (SerialInv => Knows(q))
  BY DEF TypeInv, SerialInv
<1>2. /\ Reading /\ q.op = "lock" /\ q.at = "snapBalance"
      /\ \/ Answer(r)
         \/ /\ q.view.approvedHash = <<q.src, balance[q.c]>>
            /\ Goto(r, "lockOverlap", [q EXCEPT !.bal = balance[q.c], !.view = None])
  BY <1>1, Zenon DEF LockSnapshot, At, Reading, EvidenceUnchanged, SnapshotHash
<1>4. ASSUME ~Answer(r)
      PROVE  \E m : MovesTo(r, m) /\ IsTypedRequest(m) /\ (SerialInv => Knows(m))
  <2>1. PICK m :
          MovesTo(r, m) /\ Moved(m, q, "lockOverlap", None, q.src, balance[q.c], q.scp, q.id)
    BY <1>1, <1>2, <1>4, MoreMoved, Zenon DEF IsTypedRequest
  <2>2. HashOf(m) \in EvidenceHashes
    BY <1>1, <1>2, <2>1
       DEF IsTypedRequest, Moved, TypeInv, StoresAreTyped, EvidenceHashes, HashOf
  <2>3. IsTypedRequest(m)
    BY <1>1, <1>2, <2>1, <2>2 DEF IsTypedRequest, Moved
  <2>4. SerialInv => Knows(m)
    BY <1>1, <1>2, <1>4, <2>1 DEF Knows, Moved, HashOf, Evidence
  <2>5. QED  BY <2>1, <2>3, <2>4
<1>5. req[r].at \notin Holding
  BY <1>1, <1>2 DEF Holding
<1>6. QED  BY <1>2, <1>4, <1>5, ReadGoesOn

\* It goes to the ledger if no lock in the mirror overlaps, or to the mirror in LAB.
LEMMA LockOverlapStep ==
  ASSUME TypeInv, NEW r \in Requests, LockOverlap(r)
  PROVE  TypeInv' /\ (SerialInv => SerialInv')
<1>1. PICK q : q = req[r] /\ IsTypedRequest(q) /\ (SerialInv => Knows(q))
  BY DEF TypeInv, SerialInv
<1>2. PICK label : /\ Reading /\ q.op = "lock" /\ q.at = "lockOverlap"
                   /\ label = LedgerFirst("lockLedger", "lockMirror")
                   /\ \/ Answer(r)
                      \/ /\ ~MirrorBlocks(q.c)
                         /\ Goto(r, label, [q EXCEPT !.id = <<q.c, HashOf(q)>>])
  BY <1>1, Zenon DEF LockOverlap, At, Reading
<1>3. \/ label = "lockLedger" /\ realData
      \/ label = "lockMirror" /\ ~realData
  BY <1>2 DEF LedgerFirst
<1>4. ASSUME ~Answer(r)
      PROVE  \E m : MovesTo(r, m) /\ IsTypedRequest(m) /\ (SerialInv => Knows(m))
  <2>1. PICK m : /\ MovesTo(r, m)
                 /\ Moved(m, q, label, q.view, q.src, q.bal, q.scp, <<q.c, HashOf(q)>>)
    BY <1>1, <1>2, <1>4, OneMoved DEF IsTypedRequest
  <2>2. HashOf(m) = HashOf(q) /\ HashOf(q) \in EvidenceHashes /\ q.c \in Closes
    BY <1>1, <1>2, <2>1 DEF IsTypedRequest, Moved, HashOf
  <2>3. IsTypedRequest(m)
    BY <1>1, <1>2, <1>3, <2>1, <2>2 DEF IsTypedRequest, Moved
  <2>4. <<q.c, HashOf(q)>> \in LockIds
    BY <2>2 DEF LockIds
  <2>5. SerialInv => Knows(m)
    BY <1>1, <1>2, <1>3, <1>4, <2>1, <2>2, <2>4 DEF Knows, Moved
  <2>6. QED  BY <2>1, <2>3, <2>5
<1>5. req[r].at \notin Holding
  BY <1>1, <1>2 DEF Holding
<1>6. QED  BY <1>2, <1>4, <1>5, ReadGoesOn

\* A reopen reads the mirrored lock.
LEMMA ReopenReadLockStep ==
  ASSUME TypeInv, NEW r \in Requests, ReopenReadLock(r)
  PROVE  TypeInv' /\ (SerialInv => SerialInv')
<1>1. PICK q : q = req[r] /\ IsTypedRequest(q) /\ (SerialInv => Knows(q))
  BY DEF TypeInv, SerialInv
<1>2. PICK label : /\ Reading /\ q.op = "reopen" /\ q.at = "readLock"
                   /\ label = LedgerFirst("reopenLedger", "reopenMirror")
                   /\ \/ Answer(r)
                      \/ Goto(r, label, [q EXCEPT !.view = mirror[q.id]])
  BY <1>1, Zenon DEF ReopenReadLock, At, Reading
<1>3. \/ label = "reopenLedger" /\ realData
      \/ label = "reopenMirror" /\ ~realData
  BY <1>2 DEF LedgerFirst
<1>4. ASSUME ~Answer(r)
      PROVE  \E m : MovesTo(r, m) /\ IsTypedRequest(m) /\ (SerialInv => Knows(m))
  <2>1. PICK m : MovesTo(r, m) /\ Moved(m, q, label, mirror[q.id], q.src, q.bal, q.scp, q.id)
    BY <1>1, <1>2, <1>4, OneMoved DEF IsTypedRequest
  <2>2. IsTypedRequest(m)
    BY <1>1, <1>2, <1>3, <2>1 DEF IsTypedRequest, Moved
  <2>3. SerialInv => Knows(m)
    BY <1>1, <1>2, <1>3, <2>1 DEF Knows, Moved
  <2>4. QED  BY <2>1, <2>2, <2>3
<1>5. req[r].at \notin Holding
  BY <1>1, <1>2 DEF Holding
<1>6. QED  BY <1>2, <1>4, <1>5, ReadGoesOn

\* Source evidence is written, which no request relies on.
LEMMA StoreEvidenceStep ==
  ASSUME TypeInv, NEW r \in Requests, StoreEvidence(r)
  PROVE  TypeInv' /\ (SerialInv => SerialInv')
<1>1. PICK q : q = req[r] /\ IsTypedRequest(q)
  BY DEF TypeInv
<1>2. /\ q.op = "record" /\ q.at = "storeEvidence" /\ artifacts' = q.src /\ Answer(r)
      /\ UNCHANGED <<realData, registry, scope, source, balance, close, mirror, crashes,
                     ledgerVars>>
  BY <1>1, Zenon DEF StoreEvidence, At
<1>3. Still /\ crashes' = crashes
  BY <1>2 DEF Still, ledgerVars
<1>4. StoresAreTyped'
  BY <1>1, <1>2 DEF TypeInv, StoresAreTyped, IsTypedRequest
<1>5. req[r].at \notin Holding
  BY <1>1, <1>2 DEF Holding
<1>6. QED  BY <1>2, <1>3, <1>4, <1>5, AnswerStep

-----------------------------------------------------------------------------
(* The workflow writes to the ledger only what PeriodLedger says *)

\* The ledger's own proofs, for the one organization of the deployment.
Proved == INSTANCE PeriodLedgerProofs
            WITH Orgs <- {Org},
                 Companies <- {c.company : c \in Closes},
                 Works <- {},
                 Hashes <- EvidenceHashes

\* The workflow's constants are constants of a ledger.
LEMMA LedgerConstants ==
  Proved!LedgerAssumption
BY GovernanceAssumption, NoneAssumption DEF Proved!LedgerAssumption, LockIds

\* Most steps leave the ledger alone.
LEMMA LedgerUntouched ==
  ASSUME NEW r \in Requests, Step(r),
         ~ApproveInLedger(r), ~LockInLedger(r), ~ReopenInLedger(r)
  PROVE  UNCHANGED ledgerVars
<1>1. CASE \/ AssertLedgerOpen(r) \/ AssertMirrorOpen(r) \/ StoreEvidence(r)
           \/ ReconcileCheck(r) \/ ReconcileScope(r) \/ StoreBalance(r)
  BY <1>1, Zenon DEF AssertLedgerOpen, AssertMirrorOpen, StoreEvidence, ReconcileCheck,
                     ReconcileScope, StoreBalance
<1>2. CASE \/ RefreshRead(r) \/ EvaluateCheck(r) \/ DeriveSource(r)
           \/ StoreSource(r) \/ LoadBalance(r) \/ LoadScope(r) \/ StoreGovernance(r)
           \/ SnapshotSource(r)
  BY <1>2, Zenon DEF RefreshRead, EvaluateCheck, DeriveSource, StoreSource, LoadBalance,
                     LoadScope, StoreGovernance, SnapshotSource
<1>3. CASE \/ ApproveCheck(r) \/ ApproveSnapshot(r) \/ ApproveInMirror(r)
           \/ LockCheck(r) \/ LockSnapshot(r) \/ LockOverlap(r) \/ LockInMirror(r)
           \/ ReopenCheck(r) \/ ReopenReadLock(r) \/ ReopenInMirror(r)
  BY <1>3, Zenon DEF ApproveCheck, ApproveSnapshot, ApproveInMirror, LockCheck, LockSnapshot,
                     LockOverlap, LockInMirror, ReopenCheck, ReopenReadLock, ReopenInMirror
<1>4. QED  BY <1>1, <1>2, <1>3, Zenon DEF Step

\* The three others run one operation of the ledger, or none.
LEMMA LedgerTouched ==
  ASSUME TypeInv, NEW r \in Requests,
         ApproveInLedger(r) \/ LockInLedger(r) \/ ReopenInLedger(r)
  PROVE  [Ledger!Next]_ledgerVars
<1>1. PICK q : q = req[r] /\ IsTypedRequest(q)
  BY DEF TypeInv
<1>2. CASE ApproveInLedger(r)
  <2>1. /\ q.at = "approveLedger"
        /\ Ledger!RecordCloseApproval(Org, q.c, HashOf(q)) \/ UNCHANGED ledgerVars
    BY <1>1, <1>2, Zenon DEF ApproveInLedger, At
  <2>2. q.c \in Closes /\ HashOf(q) \in EvidenceHashes
    BY <1>1, <2>1 DEF IsTypedRequest
  <2>3. QED  BY <2>1, <2>2, Zenon DEF Ledger!Next
<1>3. CASE LockInLedger(r)
  <2>1. /\ q.at = "lockLedger"
        /\ Ledger!CommitPeriodLock(Org, q.c, HashOf(q)) \/ UNCHANGED ledgerVars
    BY <1>1, <1>3, Zenon DEF LockInLedger, At
  <2>2. q.c \in Closes /\ HashOf(q) \in EvidenceHashes
    BY <1>1, <2>1 DEF IsTypedRequest
  <2>3. QED  BY <2>1, <2>2, Zenon DEF Ledger!Next
<1>4. CASE ReopenInLedger(r)
  <2>1. /\ q.op = "reopen" /\ q.at = "reopenLedger"
        /\ Ledger!ReopenPeriodLock(Org, q.c, q.why) \/ UNCHANGED ledgerVars
    BY <1>1, <1>4, Zenon DEF ReopenInLedger, At
  <2>2. q.c \in Closes /\ q.why \in Reasons
    BY <1>1, <2>1 DEF IsTypedRequest
  <2>3. QED  BY <2>1, <2>2, Zenon DEF Ledger!Next
<1>5. QED  BY <1>2, <1>3, <1>4

\* No step does to the ledger what the ledger does not offer.
LEMMA LedgerUsed ==
  ASSUME TypeInv, [Next]_vars
  PROVE  [Ledger!Next]_ledgerVars
<1>1. CASE UNCHANGED vars
  BY <1>1 DEF vars
<1>2. CASE \E r \in Requests : Start(r) \/ Crash(r)
  BY <1>2, Zenon DEF Start, Begin, Crash
<1>3. CASE \/ \E v \in Registries : ConfigureSourceRequirements(v)
           \/ \E s \in Scopes : ConfigureBalanceSheetScope(s)
  BY <1>3, Zenon DEF ConfigureSourceRequirements, ConfigureBalanceSheetScope
<1>4. ASSUME NEW r \in Requests, Step(r)
      PROVE  [Ledger!Next]_ledgerVars
  BY <1>4, LedgerUntouched, LedgerTouched
<1>5. QED  BY <1>1, <1>2, <1>3, <1>4, Zenon DEF Next

\* The ledger's operations are those its proofs are about.
LEMMA SameLedger ==
  ASSUME [Ledger!Next]_ledgerVars
  PROVE  [Proved!Next]_(Proved!ledgerVars)
BY DEF Ledger!Next, Ledger!RegisterProductionCompany, Ledger!RecordCloseApproval,
       Ledger!CommitPeriodLock, Ledger!ReopenPeriodLock, Ledger!ApprovalStands,
       Ledger!ApprovalIsNew, Ledger!LockRequestValid, Ledger!HeldLocks, Ledger!LockIsNew,
       Ledger!ReopenStands, Ledger!ReopenIsNew, Ledger!MarkReopened, Ledger!RemainingLocks,
       Ledger!Registered, Ledger!Blocking, Ledger!RangesOverlap, Ledger!ledgerVars,
       Proved!Next, Proved!RegisterProductionCompany, Proved!RecordCloseApproval,
       Proved!CommitPeriodLock, Proved!ReopenPeriodLock, Proved!ApprovalStands,
       Proved!ApprovalIsNew, Proved!LockRequestValid, Proved!HeldLocks, Proved!LockIsNew,
       Proved!ReopenStands, Proved!ReopenIsNew, Proved!MarkReopened, Proved!RemainingLocks,
       Proved!Registered, Proved!Blocking, Proved!RangesOverlap, Proved!ledgerVars,
       ledgerVars

\* Nothing is locked at first.
LEMMA LedgerInit ==
  ASSUME Init
  PROVE  Proved!LockInv
<1>1. Proved!TypeOK
  BY DEF Init, Proved!TypeOK, Proved!LockIds, Proved!Statuses, LockIds
<1>2. \A l \in LockIds : lock[l].status = "ABSENT"
  BY DEF Init
<1>3. \A m \in {c.company : c \in Closes} : activeLocks[m] = {}
  BY DEF Init
<1>4. \A c \in Closes : lockIndex[c] = None
  BY DEF Init
<1>5. QED
  BY <1>1, <1>2, <1>3, <1>4
     DEF Proved!LockInv, Proved!LockStateMatchesLocks, Proved!NoOverlappingLocks,
         Proved!HeldLockIsIndexed, Proved!IndexNamesOwnLock, Proved!IsLocked, Proved!LockIds,
         LockIds

\* The locks, the lock state and the index of the closes agree after every step.
LEMMA LedgerStep ==
  ASSUME TypeInv, Proved!LockInv, [Next]_vars
  PROVE  Proved!LockInv'
BY LedgerUsed, SameLedger, LedgerConstants, Proved!LockInvStep

\* What the ledger's invariant says here.
LEMMA LedgerFacts ==
  ASSUME Proved!LockInv
  PROVE  /\ lock \in [LockIds -> [status : LockStatuses, org : {Org, None}]]
         /\ lockIndex \in [Closes -> LockIds \cup {None}]
         /\ \A c \in Closes :
              activeLocks[c.company] =
                {l \in LockIds : l[1].company = c.company /\ lock[l].status = "LOCKED"}
         /\ \A l \in LockIds : lock[l].status = "LOCKED" => lockIndex[l[1]] = l
         /\ Ledger!NoOverlappingLocks /\ Ledger!LockDocumentsAgree
<1>1. /\ lock \in [LockIds -> [status : LockStatuses, org : {Org, None}]]
      /\ lockIndex \in [Closes -> LockIds \cup {None}]
  BY DEF Proved!LockInv, Proved!TypeOK, Proved!LockIds, Proved!Statuses, LockIds, LockStatuses
<1>2. \A m \in {c.company : c \in Closes} :
        activeLocks[m] = {l \in LockIds : l[1].company = m /\ lock[l].status = "LOCKED"}
  BY DEF Proved!LockInv, Proved!LockStateMatchesLocks, Proved!LockIds, Proved!IsLocked, LockIds
<1>3. \A l \in LockIds : lock[l].status = "LOCKED" => lockIndex[l[1]] = l
  BY DEF Proved!LockInv, Proved!HeldLockIsIndexed, Proved!LockIds, Proved!IsLocked, LockIds
<1>4. Ledger!NoOverlappingLocks
  BY DEF Proved!LockInv, Proved!NoOverlappingLocks, Proved!LockIds, Proved!IsLocked,
         Proved!Collide, Ledger!NoOverlappingLocks, Ledger!LockIds, Ledger!IsLocked,
         Ledger!Collide
<1>5. Ledger!LockDocumentsAgree
  BY <1>2, <1>3
     DEF Ledger!LockDocumentsAgree, Ledger!LockStateMatchesLocks, Ledger!HeldLockIsIndexed,
         Ledger!LockIds, Ledger!IsLocked, LockIds
<1>6. QED  BY <1>1, <1>2, <1>3, <1>4, <1>5

-----------------------------------------------------------------------------
(* The writes of one request *)

\* A request that is called is typed and knows nothing yet.
LEMMA BeginStep ==
  ASSUME TypeInv, NEW r \in Requests, NEW op, NEW label, NEW n, NEW c \in Closes,
         Begin(r, op, c, label, n), IsRequest(n),
         label \in {"refresh", "evaluate", "ledgerOpen", "check"},
         op = "record" => n.src \in Artifacts,
         op = "reconcile" => n.bal \in Entries,
         op = "reopen" => n.why \in Reasons
  PROVE  TypeInv' /\ (SerialInv => SerialInv')
<1> DEFINE m == [n EXCEPT !.op = op, !.at = label, !.c = c]
<1> DEFINE a == [n EXCEPT !.op = op]
<1> DEFINE b == [a EXCEPT !.at = label]
<1>1. MovesTo(r, m) /\ Reading /\ req[r] = IdleRequest
  BY Zenon DEF Begin, MovesTo, Reading
<1>2. m = [b EXCEPT !.c = c]
  BY DEF IsRequest
<1>3. IsRequest(a) /\ a.op = op /\ a.src = n.src /\ a.bal = n.bal /\ a.why = n.why
  BY DEF IsRequest
<1> HIDE DEF a
<1>4. IsRequest(b) /\ b.op = op /\ b.at = label /\ b.src = n.src /\ b.bal = n.bal /\ b.why = n.why
  BY <1>3 DEF IsRequest
<1> HIDE DEF b
<1> HIDE DEF m
<1>5. /\ IsRequest(m) /\ m.op = op /\ m.at = label /\ m.src = n.src /\ m.bal = n.bal
      /\ m.why = n.why /\ m.c = c
  BY <1>2, <1>4 DEF IsRequest
<1>6. IsTypedRequest(m) /\ Knows(m)
  BY <1>5 DEF IsTypedRequest, Knows
<1>7. req[r].at \notin Holding
  BY <1>1 DEF IdleRequest, Holding
<1>8. QED  BY <1>1, <1>6, <1>7, ReadGoesOn

\* A user calls an operation.
LEMMA StartStep ==
  ASSUME TypeInv, NEW r \in Requests, Start(r)
  PROVE  TypeInv' /\ (SerialInv => SerialInv')
<1>i. IsRequest(IdleRequest)
  BY DEF IsRequest, IdleRequest
<1>1. ASSUME NEW c \in Closes, NEW op \in {"get", "approve", "lock"},
             Begin(r, op, c, "refresh", IdleRequest)
      PROVE  TypeInv' /\ (SerialInv => SerialInv')
  BY <1>1, <1>i, BeginStep
<1>2. ASSUME NEW c \in Closes, Begin(r, "evaluate", c, "evaluate", IdleRequest)
      PROVE  TypeInv' /\ (SerialInv => SerialInv')
  BY <1>2, <1>i, BeginStep
<1>3. ASSUME NEW c \in Closes, NEW x \in Artifacts,
             Begin(r, "record", c, "ledgerOpen", [IdleRequest EXCEPT !.src = x])
      PROVE  TypeInv' /\ (SerialInv => SerialInv')
  <2>1. PICK n : n = [IdleRequest EXCEPT !.src = x]
    OBVIOUS
  <2>2. IsRequest(n) /\ n.src = x
    BY <2>1 DEF IsRequest, IdleRequest
  <2>3. QED  BY <1>3, <2>1, <2>2, BeginStep
<1>4. ASSUME NEW c \in Closes, NEW x \in Entries,
             Begin(r, "reconcile", c, "check", [IdleRequest EXCEPT !.bal = x])
      PROVE  TypeInv' /\ (SerialInv => SerialInv')
  <2>1. PICK n : n = [IdleRequest EXCEPT !.bal = x]
    OBVIOUS
  <2>2. IsRequest(n) /\ n.bal = x
    BY <2>1 DEF IsRequest, IdleRequest
  <2>3. QED  BY <1>4, <2>1, <2>2, BeginStep
<1>5. ASSUME NEW c \in Closes, NEW x \in Reasons,
             Begin(r, "reopen", c, "check", [IdleRequest EXCEPT !.why = x])
      PROVE  TypeInv' /\ (SerialInv => SerialInv')
  <2>1. PICK n : n = [IdleRequest EXCEPT !.why = x]
    OBVIOUS
  <2>2. IsRequest(n) /\ n.why = x
    BY <2>1 DEF IsRequest, IdleRequest
  <2>3. QED  BY <1>5, <2>1, <2>2, BeginStep
<1>6. QED  BY <1>1, <1>2, <1>3, <1>4, <1>5, Zenon DEF Start

\* A request dies: from now on the stores may disagree.
LEMMA CrashStep ==
  ASSUME TypeInv, NEW r \in Requests, Crash(r)
  PROVE  TypeInv' /\ (SerialInv => SerialInv')
<1>1. /\ UNCHANGED <<realData, evidenceVars, close, mirror, ledgerVars>>
      /\ crashes' = crashes + 1 /\ Answer(r)
  BY DEF Crash
<1>2. Still /\ StoresAreTyped'
  BY <1>1 DEF Still, evidenceVars, ledgerVars, TypeInv, StoresAreTyped
<1>3. MovesTo(r, IdleRequest)
  BY <1>1 DEF Answer, MovesTo
<1>4. TypeInv'
  BY <1>2, <1>3, IdleKnows, TypedMove
<1>5. ASSUME SerialInv
      PROVE  SerialInv'
  <2>1. req'[r] = IdleRequest /\ \A s \in Requests \ {r} : req'[s] = req[s]
    BY <1>3 DEF TypeInv, MovesTo
  <2>2. SerialStores'
    BY <1>2, <1>5, StillStores DEF SerialInv
  <2>3. StoresAgree'
    BY <1>1 DEF TypeInv, StoresAreTyped, StoresAgree
  <2>4. ASSUME NEW s \in Requests
        PROVE  Knows(req[s])'
    <3>1. PICK n : n = req'[s]
      OBVIOUS
    <3>2. Knows(n)
      BY <1>5, <2>1, <3>1, IdleKnows DEF SerialInv
    <3>3. Knows(n)'
      BY <1>2, <3>2, StillKnows
    <3>4. QED
      BY <3>1, <3>3 DEF Knows, Free, Evidence, EvidencePasses, HashOf, MirrorBlocks
  <2>5. QED  BY <2>2, <2>3, <2>4 DEF SerialInv
<1>6. QED  BY <1>4, <1>5

\* Registry and scope are configured, which no request relies on.
LEMMA ConfigureStep ==
  ASSUME TypeInv,
         \/ \E v \in Registries : ConfigureSourceRequirements(v)
         \/ \E s \in Scopes : ConfigureBalanceSheetScope(s)
  PROVE  TypeInv' /\ (SerialInv => SerialInv')
<1>1. /\ UNCHANGED <<realData, artifacts, source, balance, close, mirror, req, crashes,
                     ledgerVars>>
      /\ registry' \in Registries /\ scope' \in Scopes
  BY DEF ConfigureSourceRequirements, ConfigureBalanceSheetScope, TypeInv, StoresAreTyped
<1>2. Still /\ StoresAreTyped' /\ req' = req /\ crashes' = crashes
  BY <1>1 DEF Still, ledgerVars, TypeInv, StoresAreTyped
<1>3. TypeInv'
  BY <1>2 DEF TypeInv
<1>4. ASSUME SerialInv
      PROVE  SerialInv'
  <2>1. SerialStores'
    BY <1>2, <1>4, StillStores DEF SerialInv
  <2>2. StoresAgree'
    BY <1>2, <1>4 DEF SerialInv, StoresAgree, Still
  <2>3. ASSUME NEW s \in Requests
        PROVE  Knows(req[s])'
    <3>1. PICK n : n = req[s]
      OBVIOUS
    <3>2. Knows(n)'
      BY <1>2, <1>4, <3>1, StillKnows DEF SerialInv
    <3>3. QED
      BY <1>2, <3>1, <3>2 DEF Knows, Free, Evidence, EvidencePasses, HashOf, MirrorBlocks
  <2>4. QED  BY <2>1, <2>2, <2>3 DEF SerialInv
<1>5. QED  BY <1>3, <1>4

\* The only request is not between the stores before or after its step, and neither
\* store of locks changed.
LEMMA AgreeMove ==
  ASSUME StoresAgree, NEW r \in Requests, Alone(r), req[r].at \notin Holding,
         realData' = realData, crashes' = crashes, mirror' = mirror, lock' = lock
  PROVE  StoresAgree'
<1>1. \A s \in Requests : req[s].at \notin Holding
  BY DEF Alone, IdleRequest, Holding
<1>2. QED  BY <1>1 DEF StoresAgree

\* The evidence records of a close that is neither locked nor reopened may change.
LEMMA EvidenceChanges ==
  ASSUME SerialStores, NEW c \in Closes, Free(c),
         UNCHANGED <<realData, close, mirror, activeLocks>>,
         \A d \in Closes \ {c} : source'[d] = source[d] /\ balance'[d] = balance[d]
  PROVE  SerialStores'
<1>1. ASSUME NEW d \in Closes
      PROVE  CloseIsGood(d)'
  <2>1. CASE d = c
    BY <2>1 DEF SerialStores, CloseIsGood, Free, EvidencePasses
  <2>2. CASE d # c
    BY <2>2 DEF SerialStores, CloseIsGood, Evidence, EvidencePasses
  <2>3. QED  BY <2>1, <2>2
<1>2. QED
  BY <1>1 DEF SerialStores, MirroredLockIsGood, MirroredLocksDoNotOverlap

\* A reconciliation is stored for an open close, then the governance is refreshed.
LEMMA StoreBalanceStep ==
  ASSUME TypeInv, NEW r \in Requests, StoreBalance(r)
  PROVE  TypeInv' /\ (SerialInv /\ Alone(r) => SerialInv')
<1>1. PICK q : q = req[r] /\ IsTypedRequest(q) /\ (SerialInv => Knows(q))
  BY DEF TypeInv, SerialInv
<1>2. /\ q.op = "reconcile" /\ q.at = "storeBalance"
      /\ balance' = [balance EXCEPT ![q.c] = <<q.bal, q.scp>>]
      /\ Goto(r, "refresh", [q EXCEPT !.bal = None, !.scp = None])
      /\ UNCHANGED <<realData, registry, artifacts, scope, source, close, mirror, crashes,
                     ledgerVars>>
  BY <1>1, Zenon DEF StoreBalance, At
<1>3. PICK m : MovesTo(r, m) /\ Moved(m, q, "refresh", q.view, q.src, None, None, q.id)
  BY <1>1, <1>2, MoreMoved, Zenon DEF IsTypedRequest
<1>4. q.c \in Closes /\ q.bal \in Entries /\ q.scp \in Scopes
  BY <1>1, <1>2 DEF IsTypedRequest
<1>5. IsTypedRequest(m) /\ Knows(m)'
  BY <1>1, <1>2, <1>3 DEF IsTypedRequest, Moved, Knows
<1>6. StoresAreTyped'
  BY <1>2, <1>4 DEF TypeInv, StoresAreTyped, BalanceRecords
<1>7. ASSUME SerialInv, Alone(r)
      PROVE  SerialInv'
  <2>1. SerialStores'
    <3>1. Free(q.c)
      BY <1>1, <1>2, <1>7 DEF Knows
    <3>2. \A d \in Closes \ {q.c} : source'[d] = source[d] /\ balance'[d] = balance[d]
      BY <1>2 DEF TypeInv, StoresAreTyped
    <3>3. UNCHANGED <<realData, close, mirror, activeLocks>>
      BY <1>2 DEF ledgerVars
    <3>4. QED  BY <1>4, <1>7, <3>1, <3>2, <3>3, EvidenceChanges DEF SerialInv
  <2>2. StoresAgree'
    BY <1>1, <1>2, <1>7, AgreeMove DEF SerialInv, Holding, ledgerVars
  <2>3. QED  BY <1>3, <1>5, <1>7, <2>1, <2>2, SerialMove
<1>8. QED  BY <1>3, <1>5, <1>6, <1>7, TypedMove

\* The completeness of the sources is stored for an open close.
LEMMA StoreSourceStep ==
  ASSUME TypeInv, NEW r \in Requests, StoreSource(r)
  PROVE  TypeInv' /\ (SerialInv /\ Alone(r) => SerialInv')
<1>1. PICK q : q = req[r] /\ IsTypedRequest(q) /\ (SerialInv => Knows(q))
  BY DEF TypeInv, SerialInv
<1>2. /\ q.at = "storeSource" /\ source' = [source EXCEPT ![q.c] = q.src]
      /\ Answer(r) \/ Goto(r, "loadBalance", q)
      /\ UNCHANGED <<realData, registry, artifacts, scope, balance, close, mirror, crashes,
                     ledgerVars>>
  BY <1>1, Zenon DEF StoreSource
<1>4. q.c \in Closes /\ q.src \in SourceRecords
  BY <1>1, <1>2 DEF IsTypedRequest
<1>3. PICK m : /\ MovesTo(r, m)
               /\ \/ m = IdleRequest
                  \/ Moved(m, q, "loadBalance", q.view, q.src, q.bal, q.scp, q.id)
  BY <1>1, <1>2, OneMoved DEF IsTypedRequest, Answer, MovesTo
<1>5. IsTypedRequest(m)
  BY <1>1, <1>2, <1>3, IdleKnows DEF IsTypedRequest, Moved
<1>6. StoresAreTyped'
  BY <1>2, <1>4 DEF TypeInv, StoresAreTyped
<1>7. ASSUME SerialInv, Alone(r)
      PROVE  SerialInv'
  <2>0. Free(q.c)
    BY <1>1, <1>2, <1>7 DEF Knows
  <2>1. SerialStores'
    <3>2. \A d \in Closes \ {q.c} : source'[d] = source[d] /\ balance'[d] = balance[d]
      BY <1>2 DEF TypeInv, StoresAreTyped
    <3>3. UNCHANGED <<realData, close, mirror, activeLocks>>
      BY <1>2 DEF ledgerVars
    <3>4. QED  BY <1>4, <1>7, <2>0, <3>2, <3>3, EvidenceChanges DEF SerialInv
  <2>2. StoresAgree'
    BY <1>1, <1>2, <1>7, AgreeMove DEF SerialInv, Holding, ledgerVars
  <2>4. source'[q.c] = q.src
    BY <1>2, <1>4 DEF TypeInv, StoresAreTyped
  <2>5. Knows(m)'
    BY <1>1, <1>2, <1>3, <2>0, <2>4, IdleKnows DEF Knows, Moved, Free
  <2>6. QED  BY <1>3, <1>7, <2>1, <2>2, <2>5, SerialMove
<1>8. QED  BY <1>3, <1>5, <1>6, <1>7, TypedMove

-----------------------------------------------------------------------------
(* The writes of a close *)

\* One close is written and shows this.
Shows(c, closeStatus, approvalStatus, governance, approvedHash, lockId) ==
  /\ DOMAIN close' = Closes
  /\ close'[c] = [closeStatus |-> closeStatus, approvalStatus |-> approvalStatus,
                  governance |-> governance, approvedHash |-> approvedHash, lockId |-> lockId]
  /\ \A d \in Closes \ {c} : close'[d] = close[d]

\* One field of one close is set.
LEMMA FieldSet ==
  ASSUME NEW k, NEW c \in Closes, DOMAIN k = Closes, IsClose(k[c]), NEW x, NEW n
  PROVE  /\ n = [k EXCEPT ![c].closeStatus = x] =>
              /\ DOMAIN n = Closes /\ \A d \in Closes \ {c} : n[d] = k[d]
              /\ n[c] = [closeStatus |-> x, approvalStatus |-> k[c].approvalStatus,
                         governance |-> k[c].governance, approvedHash |-> k[c].approvedHash,
                         lockId |-> k[c].lockId]
         /\ n = [k EXCEPT ![c].approvalStatus = x] =>
              /\ DOMAIN n = Closes /\ \A d \in Closes \ {c} : n[d] = k[d]
              /\ n[c] = [closeStatus |-> k[c].closeStatus, approvalStatus |-> x,
                         governance |-> k[c].governance, approvedHash |-> k[c].approvedHash,
                         lockId |-> k[c].lockId]
         /\ n = [k EXCEPT ![c].governance = x] =>
              /\ DOMAIN n = Closes /\ \A d \in Closes \ {c} : n[d] = k[d]
              /\ n[c] = [closeStatus |-> k[c].closeStatus,
                         approvalStatus |-> k[c].approvalStatus, governance |-> x,
                         approvedHash |-> k[c].approvedHash, lockId |-> k[c].lockId]
         /\ n = [k EXCEPT ![c].approvedHash = x] =>
              /\ DOMAIN n = Closes /\ \A d \in Closes \ {c} : n[d] = k[d]
              /\ n[c] = [closeStatus |-> k[c].closeStatus,
                         approvalStatus |-> k[c].approvalStatus,
                         governance |-> k[c].governance, approvedHash |-> x,
                         lockId |-> k[c].lockId]
         /\ n = [k EXCEPT ![c].lockId = x] =>
              /\ DOMAIN n = Closes /\ \A d \in Closes \ {c} : n[d] = k[d]
              /\ n[c] = [closeStatus |-> k[c].closeStatus,
                         approvalStatus |-> k[c].approvalStatus,
                         governance |-> k[c].governance, approvedHash |-> k[c].approvedHash,
                         lockId |-> x]
<1>1. n = [k EXCEPT ![c].closeStatus = x] =>
        /\ DOMAIN n = Closes /\ \A d \in Closes \ {c} : n[d] = k[d]
        /\ n[c] = [closeStatus |-> x, approvalStatus |-> k[c].approvalStatus,
                   governance |-> k[c].governance, approvedHash |-> k[c].approvedHash,
                   lockId |-> k[c].lockId]
  BY DEF IsClose
<1>2. n = [k EXCEPT ![c].approvalStatus = x] =>
        /\ DOMAIN n = Closes /\ \A d \in Closes \ {c} : n[d] = k[d]
        /\ n[c] = [closeStatus |-> k[c].closeStatus, approvalStatus |-> x,
                   governance |-> k[c].governance, approvedHash |-> k[c].approvedHash,
                   lockId |-> k[c].lockId]
  BY DEF IsClose
<1>3. n = [k EXCEPT ![c].governance = x] =>
        /\ DOMAIN n = Closes /\ \A d \in Closes \ {c} : n[d] = k[d]
        /\ n[c] = [closeStatus |-> k[c].closeStatus, approvalStatus |-> k[c].approvalStatus,
                   governance |-> x, approvedHash |-> k[c].approvedHash, lockId |-> k[c].lockId]
  BY DEF IsClose
<1>4. n = [k EXCEPT ![c].approvedHash = x] =>
        /\ DOMAIN n = Closes /\ \A d \in Closes \ {c} : n[d] = k[d]
        /\ n[c] = [closeStatus |-> k[c].closeStatus, approvalStatus |-> k[c].approvalStatus,
                   governance |-> k[c].governance, approvedHash |-> x, lockId |-> k[c].lockId]
  BY DEF IsClose
<1>5. n = [k EXCEPT ![c].lockId = x] =>
        /\ DOMAIN n = Closes /\ \A d \in Closes \ {c} : n[d] = k[d]
        /\ n[c] = [closeStatus |-> k[c].closeStatus, approvalStatus |-> k[c].approvalStatus,
                   governance |-> k[c].governance, approvedHash |-> k[c].approvedHash,
                   lockId |-> x]
  BY DEF IsClose
<1>6. QED  BY <1>1, <1>2, <1>3, <1>4, <1>5

\* What the writes of a refresh, of an approval, of a lock and of a reopen show.
LEMMA CloseShows ==
  ASSUME NEW c \in Closes, DOMAIN close = Closes, IsClose(close[c]), NEW x, NEW y
  PROVE  /\ close' = [close EXCEPT ![c].approvalStatus = x, ![c].governance = y] =>
              Shows(c, close[c].closeStatus, x, y, close[c].approvedHash, close[c].lockId)
         /\ close' = [close EXCEPT ![c].approvalStatus = "APPROVED",
                                   ![c].closeStatus = "APPROVED_PENDING_LOCK",
                                   ![c].approvedHash = x] =>
              Shows(c, "APPROVED_PENDING_LOCK", "APPROVED", close[c].governance, x,
                    close[c].lockId)
         /\ close' = [close EXCEPT ![c].closeStatus = "LOCKED", ![c].lockId = x] =>
              Shows(c, "LOCKED", close[c].approvalStatus, close[c].governance,
                    close[c].approvedHash, x)
         /\ close' = [close EXCEPT ![c].closeStatus = "REOPENED",
                                   ![c].approvalStatus = "INVALIDATED_BY_REOPEN"] =>
              Shows(c, "REOPENED", "INVALIDATED_BY_REOPEN", close[c].governance,
                    close[c].approvedHash, close[c].lockId)
<1>1. ASSUME close' = [close EXCEPT ![c].approvalStatus = x, ![c].governance = y]
      PROVE  Shows(c, close[c].closeStatus, x, y, close[c].approvedHash, close[c].lockId)
  <2>1. PICK k : k = [close EXCEPT ![c].approvalStatus = x]
    OBVIOUS
  <2>2. close' = [k EXCEPT ![c].governance = y]
    BY <1>1, <2>1, Zenon
  <2>3. /\ DOMAIN k = Closes /\ \A d \in Closes \ {c} : k[d] = close[d]
        /\ k[c] = [closeStatus |-> close[c].closeStatus, approvalStatus |-> x,
                   governance |-> close[c].governance, approvedHash |-> close[c].approvedHash,
                   lockId |-> close[c].lockId]
    BY <2>1 DEF IsClose
  <2>4. IsClose(k[c])
    BY <2>3 DEF IsClose
  <2>5. /\ DOMAIN close' = Closes /\ \A d \in Closes \ {c} : close'[d] = k[d]
        /\ close'[c] = [closeStatus |-> k[c].closeStatus,
                        approvalStatus |-> k[c].approvalStatus, governance |-> y,
                        approvedHash |-> k[c].approvedHash, lockId |-> k[c].lockId]
    BY <2>2, <2>3, <2>4, FieldSet
  <2>6. QED  BY <2>3, <2>5 DEF Shows
<1>2. ASSUME close' = [close EXCEPT ![c].approvalStatus = "APPROVED",
                                    ![c].closeStatus = "APPROVED_PENDING_LOCK",
                                    ![c].approvedHash = x]
      PROVE  Shows(c, "APPROVED_PENDING_LOCK", "APPROVED", close[c].governance, x,
                   close[c].lockId)
  <2>1. PICK k : k = [close EXCEPT ![c].approvalStatus = "APPROVED"]
    OBVIOUS
  <2>2. PICK l : l = [k EXCEPT ![c].closeStatus = "APPROVED_PENDING_LOCK"]
    OBVIOUS
  <2>3. close' = [l EXCEPT ![c].approvedHash = x]
    BY <1>2, <2>1, <2>2, Zenon
  <2>4. /\ DOMAIN k = Closes /\ \A d \in Closes \ {c} : k[d] = close[d]
        /\ k[c] = [closeStatus |-> close[c].closeStatus, approvalStatus |-> "APPROVED",
                   governance |-> close[c].governance, approvedHash |-> close[c].approvedHash,
                   lockId |-> close[c].lockId]
    BY <2>1 DEF IsClose
  <2>5. IsClose(k[c])
    BY <2>4 DEF IsClose
  <2>6. /\ DOMAIN l = Closes /\ \A d \in Closes \ {c} : l[d] = k[d]
        /\ l[c] = [closeStatus |-> "APPROVED_PENDING_LOCK",
                   approvalStatus |-> k[c].approvalStatus,
                   governance |-> k[c].governance, approvedHash |-> k[c].approvedHash,
                   lockId |-> k[c].lockId]
    BY <2>2, <2>4, <2>5, FieldSet
  <2>7. IsClose(l[c])
    BY <2>6 DEF IsClose
  <2>8. /\ DOMAIN close' = Closes /\ \A d \in Closes \ {c} : close'[d] = l[d]
        /\ close'[c] = [closeStatus |-> l[c].closeStatus,
                        approvalStatus |-> l[c].approvalStatus,
                        governance |-> l[c].governance, approvedHash |-> x,
                        lockId |-> l[c].lockId]
    BY <2>3, <2>6, <2>7, FieldSet
  <2>9. QED  BY <2>4, <2>6, <2>8 DEF Shows
<1>3. ASSUME close' = [close EXCEPT ![c].closeStatus = "LOCKED", ![c].lockId = x]
      PROVE  Shows(c, "LOCKED", close[c].approvalStatus, close[c].governance,
                   close[c].approvedHash, x)
  <2>1. PICK k : k = [close EXCEPT ![c].closeStatus = "LOCKED"]
    OBVIOUS
  <2>2. close' = [k EXCEPT ![c].lockId = x]
    BY <1>3, <2>1, Zenon
  <2>3. /\ DOMAIN k = Closes /\ \A d \in Closes \ {c} : k[d] = close[d]
        /\ k[c] = [closeStatus |-> "LOCKED", approvalStatus |-> close[c].approvalStatus,
                   governance |-> close[c].governance, approvedHash |-> close[c].approvedHash,
                   lockId |-> close[c].lockId]
    BY <2>1 DEF IsClose
  <2>4. IsClose(k[c])
    BY <2>3 DEF IsClose
  <2>5. /\ DOMAIN close' = Closes /\ \A d \in Closes \ {c} : close'[d] = k[d]
        /\ close'[c] = [closeStatus |-> k[c].closeStatus,
                        approvalStatus |-> k[c].approvalStatus, governance |-> k[c].governance,
                        approvedHash |-> k[c].approvedHash, lockId |-> x]
    BY <2>2, <2>3, <2>4, FieldSet
  <2>6. QED  BY <2>3, <2>5 DEF Shows
<1>4. ASSUME close' = [close EXCEPT ![c].closeStatus = "REOPENED",
                                    ![c].approvalStatus = "INVALIDATED_BY_REOPEN"]
      PROVE  Shows(c, "REOPENED", "INVALIDATED_BY_REOPEN", close[c].governance,
                   close[c].approvedHash, close[c].lockId)
  <2>1. PICK k : k = [close EXCEPT ![c].closeStatus = "REOPENED"]
    OBVIOUS
  <2>2. close' = [k EXCEPT ![c].approvalStatus = "INVALIDATED_BY_REOPEN"]
    BY <1>4, <2>1, Zenon
  <2>3. /\ DOMAIN k = Closes /\ \A d \in Closes \ {c} : k[d] = close[d]
        /\ k[c] = [closeStatus |-> "REOPENED", approvalStatus |-> close[c].approvalStatus,
                   governance |-> close[c].governance, approvedHash |-> close[c].approvedHash,
                   lockId |-> close[c].lockId]
    BY <2>1 DEF IsClose
  <2>4. IsClose(k[c])
    BY <2>3 DEF IsClose
  <2>5. /\ DOMAIN close' = Closes /\ \A d \in Closes \ {c} : close'[d] = k[d]
        /\ close'[c] = [closeStatus |-> k[c].closeStatus,
                        approvalStatus |-> "INVALIDATED_BY_REOPEN",
                        governance |-> k[c].governance,
                        approvedHash |-> k[c].approvedHash, lockId |-> k[c].lockId]
    BY <2>2, <2>3, <2>4, FieldSet
  <2>6. QED  BY <2>3, <2>5 DEF Shows
<1>5. QED  BY <1>1, <1>2, <1>3, <1>4

\* A write that leaves the status and the lock of a close that is not locked, its approval
\* being the old one or one that passes.
LEMMA OpenCloseWritten ==
  ASSUME SerialStores, NEW c \in Closes, Free(c), NEW s, NEW a, NEW g, NEW h,
         Shows(c, s, a, g, h, close[c].lockId), s \notin {"LOCKED", "REOPENED"},
         h # None => EvidencePasses(c, h),
         UNCHANGED <<realData, source, balance, mirror, activeLocks>>
  PROVE  SerialStores'
<1>1. \A l \in LockIds : l[1] = c => mirror[l].status \notin {"LOCKED", "REOPENED"}
  BY DEF SerialStores, MirroredLockIsGood, Free
<1>2. ASSUME NEW d \in Closes
      PROVE  CloseIsGood(d)'
  <2>1. CASE d = c
    <3>1. PICK v : v = close'[c] /\ IsClose(v) /\ v.closeStatus = s /\ v.approvedHash = h
      BY DEF Shows, IsClose
    <3>2. QED  BY <2>1, <3>1 DEF CloseIsGood, EvidencePasses
  <2>2. CASE d # c
    <3>1. close'[d] = close[d]
      BY <2>2 DEF Shows
    <3>2. CloseIsGood(d)
      BY DEF SerialStores
    <3>3. QED  BY <3>1, <3>2 DEF CloseIsGood, Evidence, EvidencePasses
  <2>3. QED  BY <2>1, <2>2
<1>3. ASSUME NEW l \in LockIds
      PROVE  MirroredLockIsGood(l)'
  <2>1. MirroredLockIsGood(l) /\ l[1] \in Closes
    BY DEF SerialStores, LockIds
  <2>2. CASE l[1] = c
    BY <1>1, <2>1, <2>2 DEF MirroredLockIsGood
  <2>3. CASE l[1] # c
    <3>1. close'[l[1]] = close[l[1]]
      BY <2>1, <2>3 DEF Shows
    <3>2. QED  BY <2>1, <3>1 DEF MirroredLockIsGood
  <2>4. QED  BY <2>2, <2>3
<1>4. QED  BY <1>2, <1>3 DEF SerialStores, MirroredLocksDoNotOverlap, Shows

\* A refresh writes the governance status it computed from what the stores still hold.
LEMMA StoreGovernanceStep ==
  ASSUME TypeInv, NEW r \in Requests, StoreGovernance(r)
  PROVE  TypeInv' /\ (SerialInv /\ Alone(r) => SerialInv')
<1>1. PICK q : q = req[r] /\ IsTypedRequest(q) /\ (SerialInv => Knows(q))
  BY DEF TypeInv, SerialInv
<1>2. PICK c, a, g :
        /\ c = q.c /\ q.at = "storeGovernance" /\ LeaveRefresh(r)
        /\ close' = [close EXCEPT ![c].approvalStatus = a, ![c].governance = g]
        /\ g = "READY_FOR_APPROVAL" => Ready(c, q.src, q.bal, q.scp)
        /\ UNCHANGED <<realData, evidenceVars, mirror, crashes, ledgerVars>>
  <2>1. PICK ready :
          /\ ready = (q.view.closeStatus # "REOPENED" /\ Ready(q.c, q.src, q.bal, q.scp))
          /\ q.at = "storeGovernance" /\ LeaveRefresh(r)
          /\ close' = [close EXCEPT ![q.c].approvalStatus = RefreshedApproval(q.view, ready),
                                    ![q.c].governance = RefreshedGovernance(q.view, ready)]
          /\ UNCHANGED <<realData, evidenceVars, mirror, crashes, ledgerVars>>
    BY <1>1, Zenon DEF StoreGovernance
  <2>2. RefreshedGovernance(q.view, ready) = "READY_FOR_APPROVAL" =>
          Ready(q.c, q.src, q.bal, q.scp)
    BY <2>1 DEF RefreshedGovernance
  <2>3. QED  BY <2>1, <2>2, Zenon
<1>3. c \in Closes /\ q.at \notin Holding
  BY <1>1, <1>2 DEF IsTypedRequest, Holding
<1>4. ASSUME ~Answer(r)
      PROVE  \E label \in {"approveCheck", "lockCheck"} :
               Goto(r, label, [q EXCEPT !.view = None, !.src = None, !.bal = None,
                                        !.scp = None])
  BY <1>1, <1>2, <1>4 DEF LeaveRefresh, AfterRefresh
<1>5. PICK m : /\ MovesTo(r, m)
               /\ \/ m = IdleRequest
                  \/ \E label \in {"approveCheck", "lockCheck"} :
                       Moved(m, q, label, None, None, None, None, q.id)
  <2>1. CASE Answer(r)
    BY <2>1 DEF Answer, MovesTo
  <2>2. CASE ~Answer(r)
    <3>1. PICK label \in {"approveCheck", "lockCheck"} :
            Goto(r, label, [q EXCEPT !.view = None, !.src = None, !.bal = None, !.scp = None])
      BY <1>4, <2>2
    <3>2. PICK m : MovesTo(r, m) /\ Moved(m, q, label, None, None, None, None, q.id)
      BY <1>1, <3>1, MoreMoved, Zenon DEF IsTypedRequest
    <3>3. QED  BY <3>2
  <2>3. QED  BY <2>1, <2>2
<1>6. IsTypedRequest(m)
  BY <1>1, <1>2, <1>5, IdleKnows DEF IsTypedRequest, Moved
<1>7. StoresAreTyped'
  BY <1>2 DEF TypeInv, StoresAreTyped, evidenceVars
<1>8. ASSUME SerialInv, Alone(r)
      PROVE  SerialInv'
  <2>1. Free(c) /\ q.src = source[c] /\ q.bal = balance[c]
    BY <1>1, <1>2, <1>8 DEF Knows
  <2>2. DOMAIN close = Closes /\ CloseIsGood(c)
    BY <1>3, <1>8 DEF SerialInv, SerialStores
  <2>3. Shows(c, close[c].closeStatus, a, g, close[c].approvedHash, close[c].lockId)
    BY <1>2, <1>3, <2>2, CloseShows, Zenon DEF CloseIsGood
  <2>4. UNCHANGED <<realData, source, balance, mirror, activeLocks, lock, crashes>>
    BY <1>2 DEF evidenceVars, ledgerVars
  <2>5. SerialStores'
    <3>1. PICK s, h : s = close[c].closeStatus /\ h = close[c].approvedHash
      OBVIOUS
    <3>2. s \notin {"LOCKED", "REOPENED"} /\ (h # None => EvidencePasses(c, h))
      BY <2>1, <2>2, <3>1 DEF Free, CloseIsGood
    <3>3. QED  BY <1>3, <1>8, <2>1, <2>3, <2>4, <3>1, <3>2, OpenCloseWritten DEF SerialInv
  <2>6. StoresAgree'
    BY <1>1, <1>3, <1>8, <2>4, AgreeMove DEF SerialInv
  <2>7. Knows(m)'
    <3>1. CASE m = IdleRequest
      BY <3>1, IdleKnows
    <3>2. CASE \E label \in {"approveCheck", "lockCheck"} :
                 Moved(m, q, label, None, None, None, None, q.id)
      <4>1. m.at \in {"approveCheck", "lockCheck"} /\ m.c = c
        BY <1>2, <3>2 DEF Moved
      <4>2. close'[c].governance = g
        BY <2>3 DEF Shows
      <4>3. g = "READY_FOR_APPROVAL" => EvidencePasses(c, Evidence(c))'
        BY <1>2, <2>1, <2>4 DEF Ready, EvidencePasses, Evidence
      <4>4. QED  BY <4>1, <4>2, <4>3 DEF Knows
    <3>3. QED  BY <1>5, <3>1, <3>2
  <2>8. QED  BY <1>5, <1>8, <2>5, <2>6, <2>7, SerialMove
<1>9. QED  BY <1>5, <1>6, <1>7, <1>8, TypedMove

\* The approval is an event of the ledger, or refused there; the locks stay.
LEMMA ApproveInLedgerStep ==
  ASSUME TypeInv, NEW r \in Requests, ApproveInLedger(r)
  PROVE  TypeInv' /\ (SerialInv /\ Alone(r) => SerialInv')
<1>1. PICK q : q = req[r] /\ IsTypedRequest(q) /\ (SerialInv => Knows(q))
  BY DEF TypeInv, SerialInv
<1>2. /\ q.op = "approve" /\ q.at = "approveLedger"
      /\ \/ Ledger!RecordCloseApproval(Org, q.c, HashOf(q)) /\ Goto(r, "approveMirror", q)
         \/ Answer(r) /\ UNCHANGED ledgerVars
      /\ UNCHANGED <<realData, evidenceVars, close, mirror, crashes>>
  BY <1>1, Zenon DEF ApproveInLedger, At
<1>3. Still /\ crashes' = crashes
  BY <1>2 DEF Still, evidenceVars, ledgerVars, Ledger!RecordCloseApproval, Ledger!ledgerVars
<1>4. StoresAreTyped'
  BY <1>2 DEF TypeInv, StoresAreTyped, evidenceVars
<1>5. PICK m : /\ MovesTo(r, m)
               /\ \/ m = IdleRequest
                  \/ Moved(m, q, "approveMirror", q.view, q.src, q.bal, q.scp, q.id)
  BY <1>1, <1>2, OneMoved DEF IsTypedRequest, Answer, MovesTo
<1>6. IsTypedRequest(m)
  BY <1>1, <1>2, <1>5, IdleKnows DEF IsTypedRequest, Moved, HashOf
<1>7. SerialInv => Knows(m)
  BY <1>1, <1>2, <1>5, IdleKnows DEF Knows, Moved, HashOf
<1>8. req[r].at \notin Holding
  BY <1>1, <1>2 DEF Holding
<1>9. QED  BY <1>3, <1>4, <1>5, <1>6, <1>7, <1>8, ReadStep

\* The workflow shows the approval, of evidence that passes.
LEMMA ApproveInMirrorStep ==
  ASSUME TypeInv, NEW r \in Requests, ApproveInMirror(r)
  PROVE  TypeInv' /\ (SerialInv /\ Alone(r) => SerialInv')
<1>1. PICK q : q = req[r] /\ IsTypedRequest(q) /\ (SerialInv => Knows(q))
  BY DEF TypeInv, SerialInv
<1>2. PICK c, h :
        /\ c = q.c /\ h = HashOf(q) /\ q.op = "approve" /\ q.at = "approveMirror" /\ Answer(r)
        /\ close' = [close EXCEPT ![c].approvalStatus = "APPROVED",
                                  ![c].closeStatus = "APPROVED_PENDING_LOCK",
                                  ![c].approvedHash = h]
        /\ UNCHANGED <<realData, evidenceVars, mirror, crashes, ledgerVars>>
  BY <1>1, Zenon DEF ApproveInMirror, At
<1>3. c \in Closes /\ q.at \notin Holding
  BY <1>1, <1>2 DEF IsTypedRequest, Holding
<1>4. MovesTo(r, IdleRequest)
  BY <1>2 DEF Answer, MovesTo
<1>5. StoresAreTyped'
  BY <1>2 DEF TypeInv, StoresAreTyped, evidenceVars
<1>6. ASSUME SerialInv, Alone(r)
      PROVE  SerialInv'
  <2>1. Free(c) /\ EvidencePasses(c, h)
    BY <1>1, <1>2, <1>6 DEF Knows
  <2>2. DOMAIN close = Closes /\ IsClose(close[c])
    BY <1>3, <1>6 DEF SerialInv, SerialStores, CloseIsGood
  <2>3. Shows(c, "APPROVED_PENDING_LOCK", "APPROVED", close[c].governance, h, close[c].lockId)
    BY <1>2, <1>3, <2>2, CloseShows, Zenon
  <2>4. UNCHANGED <<realData, source, balance, mirror, activeLocks, lock, crashes>>
    BY <1>2 DEF evidenceVars, ledgerVars
  <2>5. SerialStores'
    BY <1>3, <1>6, <2>1, <2>3, <2>4, OpenCloseWritten DEF SerialInv
  <2>6. StoresAgree'
    BY <1>1, <1>3, <1>6, <2>4, AgreeMove DEF SerialInv
  <2>7. QED  BY <1>4, <1>6, <2>5, <2>6, IdleKnows, SerialMove
<1>7. QED  BY <1>4, <1>5, <1>6, IdleKnows, TypedMove

-----------------------------------------------------------------------------
(* The writes of a lock *)

\* The lock that commitPeriodLock names is held afterwards, and is the close's own.
LEMMA LockTaken ==
  ASSUME Proved!LockInv, NEW c \in Closes, NEW h \in EvidenceHashes,
         Ledger!CommitPeriodLock(Org, c, h), NEW id \in CommittedIds(c, h)
  PROVE  /\ id \in LockIds /\ id[1] = c /\ lock'[id].status = "LOCKED"
         /\ \A l \in LockIds \ {id} : lock'[l] = lock[l]
<1> DEFINE new == <<c, h>>
<1>0. /\ DOMAIN lock = LockIds /\ new \in LockIds /\ new[1] = c
      /\ \A l \in activeLocks[c.company] : l \in LockIds /\ lock[l].status = "LOCKED"
  BY LedgerFacts DEF LockIds
<1>1. CASE Ledger!HeldLocks(c, h) # {} /\ UNCHANGED ledgerVars
  <2>1. id \in Ledger!HeldLocks(c, h) /\ lock' = lock
    BY <1>1 DEF CommittedIds, ledgerVars
  <2>2. id \in LockIds /\ id[1] = c /\ lock[id].status = "LOCKED"
    BY <1>0, <2>1 DEF Ledger!HeldLocks, Ledger!Blocking
  <2>3. QED  BY <2>1, <2>2
<1>2. CASE /\ Ledger!Blocking(c) = {} /\ lock[new].status = "ABSENT"
           /\ lock' = [lock EXCEPT ![new] = [status |-> "LOCKED", org |-> Org]]
  <2>1. Ledger!HeldLocks(c, h) = {}
    BY <1>2 DEF Ledger!HeldLocks
  <2>2. id = new
    BY <2>1 DEF CommittedIds
  <2>3. QED  BY <1>0, <1>2, <2>2
<1>3. QED
  BY <1>1, <1>2, Zenon
     DEF Ledger!CommitPeriodLock, Ledger!LockIsNew, Ledger!ledgerVars, ledgerVars

\* A lock in the ledger: only the request knows of it until the mirror is written.
LEMMA LockInLedgerStep ==
  ASSUME TypeInv, Proved!LockInv, NEW r \in Requests, LockInLedger(r)
  PROVE  TypeInv' /\ (SerialInv /\ Alone(r) => SerialInv')
<1>1. PICK q : q = req[r] /\ IsTypedRequest(q) /\ (SerialInv => Knows(q))
  BY DEF TypeInv, SerialInv
<1>2. /\ q.op = "lock" /\ q.at = "lockLedger"
      /\ \/ /\ Ledger!CommitPeriodLock(Org, q.c, HashOf(q))
            /\ \E id \in CommittedIds(q.c, HashOf(q)) :
                 Goto(r, "lockMirror", [q EXCEPT !.id = id])
         \/ Answer(r) /\ UNCHANGED ledgerVars
      /\ UNCHANGED <<realData, evidenceVars, close, mirror, crashes>>
  BY <1>1, Zenon DEF LockInLedger, At
<1>3. q.c \in Closes /\ HashOf(q) \in EvidenceHashes /\ q.at \notin Holding
  BY <1>1, <1>2 DEF IsTypedRequest, Holding
<1>4. StoresAreTyped'
  BY <1>2 DEF TypeInv, StoresAreTyped, evidenceVars
<1>5. CASE Answer(r) /\ UNCHANGED ledgerVars
  <2>1. Still /\ crashes' = crashes
    BY <1>2, <1>5 DEF Still, evidenceVars, ledgerVars
  <2>2. QED  BY <1>1, <1>3, <1>4, <1>5, <2>1, AnswerStep
<1>6. ASSUME Ledger!CommitPeriodLock(Org, q.c, HashOf(q)),
             NEW id \in CommittedIds(q.c, HashOf(q)),
             Goto(r, "lockMirror", [q EXCEPT !.id = id])
      PROVE  TypeInv' /\ (SerialInv /\ Alone(r) => SerialInv')
  <2>1. /\ id \in LockIds /\ id[1] = q.c /\ lock'[id].status = "LOCKED"
        /\ \A l \in LockIds \ {id} : lock'[l] = lock[l]
    BY <1>3, <1>6, LockTaken
  <2>2. PICK m :
          MovesTo(r, m) /\ Moved(m, q, "lockMirror", q.view, q.src, q.bal, q.scp, id)
    BY <1>1, <1>6, OneMoved DEF IsTypedRequest
  <2>3. IsTypedRequest(m)
    BY <1>1, <1>2, <2>2 DEF IsTypedRequest, Moved, HashOf
  <2>4. ASSUME SerialInv, Alone(r)
        PROVE  SerialInv'
    <3>1. realData
      BY <1>1, <1>2, <2>4 DEF Knows
    <3>2. UNCHANGED <<realData, source, balance, close, mirror, crashes>>
      BY <1>2 DEF evidenceVars
    <3>3. SerialStores'
      BY <2>4, <3>1, <3>2
         DEF SerialInv, SerialStores, CloseIsGood, MirroredLockIsGood, Evidence,
             EvidencePasses, MirroredLocksDoNotOverlap
    <3>4. StoresAgree'
      <4>1. req'[r] = m /\ m.at \in Holding /\ m.id = id
        BY <2>2 DEF TypeInv, MovesTo, Moved, Holding
      <4>2. \A s \in Requests : req[s].at \notin Holding
        BY <1>1, <1>3, <2>4 DEF Alone, IdleRequest, Holding
      <4>3. QED  BY <2>1, <2>4, <3>2, <4>1, <4>2 DEF SerialInv, StoresAgree
    <3>5. Knows(m)'
      <4>1. /\ Free(q.c) /\ HashOf(q) = Evidence(q.c) /\ ~MirrorBlocks(q.c)
            /\ close[q.c].approvedHash = Evidence(q.c)
        BY <1>1, <1>2, <2>4 DEF Knows
      <4>2. m.at = "lockMirror" /\ m.op = "lock" /\ m.c = q.c /\ m.id = id
            /\ HashOf(m) = HashOf(q)
        BY <1>2, <2>2 DEF Moved, HashOf
      <4>3. /\ Free(m.c)' /\ HashOf(m) = Evidence(m.c)' /\ ~MirrorBlocks(m.c)'
            /\ close'[m.c].approvedHash = Evidence(m.c)'
        BY <3>2, <4>1, <4>2 DEF Free, Evidence, MirrorBlocks
      <4>4. QED  BY <2>1, <4>2, <4>3 DEF Knows, HashOf
    <3>6. QED  BY <2>2, <2>4, <3>3, <3>4, <3>5, SerialMove
  <2>5. QED  BY <1>4, <2>2, <2>3, <2>4, TypedMove
<1>7. QED  BY <1>2, <1>5, <1>6

\* A lock that no mirrored lock blocks collides with none.
LEMMA UnblockedIsFree ==
  ASSUME NEW c \in Closes, NEW l \in LockIds, mirror[l].status = "LOCKED", ~MirrorBlocks(c)
  PROVE  ~Ledger!Collide(c, l[1]) /\ ~Ledger!Collide(l[1], c) /\ l[1] # c
<1>1. /\ l[1] \in Closes
      /\ \A d \in Closes : d.start \in Int /\ d.end \in Int /\ d.start <= d.end
  BY GovernanceAssumption DEF LockIds
<1>2. ~(l[1].company = c.company /\ Ledger!RangesOverlap(c, l[1]))
  BY DEF MirrorBlocks
<1>3. Ledger!RangesOverlap(c, c)
  BY <1>1 DEF Ledger!RangesOverlap
<1>4. Ledger!RangesOverlap(c, l[1]) <=>
        (c.start .. c.end) \cap (l[1].start .. l[1].end) # {}
  BY <1>1, Proved!OverlapIsSharedDay DEF Ledger!RangesOverlap, Proved!RangesOverlap
<1>5. QED  BY <1>2, <1>3, <1>4 DEF Ledger!Collide

\* One mirrored lock is written.
MirrorShows(id, e) ==
  /\ DOMAIN mirror' = LockIds
  /\ mirror'[id] = e
  /\ \A l \in LockIds \ {id} : mirror'[l] = mirror[l]

\* The workflow shows the lock.
LEMMA LockInMirrorStep ==
  ASSUME TypeInv, NEW r \in Requests, LockInMirror(r)
  PROVE  TypeInv' /\ (SerialInv /\ Alone(r) => SerialInv')
<1>1. PICK q : q = req[r] /\ IsTypedRequest(q) /\ (SerialInv => Knows(q))
  BY DEF TypeInv, SerialInv
<1>2. PICK c, id, e :
        /\ c = q.c /\ id = q.id /\ q.op = "lock" /\ q.at = "lockMirror" /\ Answer(r)
        /\ e = [status |-> "LOCKED", hash |-> HashOf(q)]
        /\ mirror' = [mirror EXCEPT ![id] = e]
        /\ close' = [close EXCEPT ![c].closeStatus = "LOCKED", ![c].lockId = id]
        /\ UNCHANGED <<realData, evidenceVars, crashes, ledgerVars>>
  BY <1>1, Zenon DEF LockInMirror, At
<1>3. c \in Closes /\ q.at \in Holding
  BY <1>1, <1>2 DEF IsTypedRequest, Holding
<1>4. MovesTo(r, IdleRequest)
  BY <1>2 DEF Answer, MovesTo
<1>5. StoresAreTyped'
  BY <1>2 DEF TypeInv, StoresAreTyped, evidenceVars
<1>6. ASSUME SerialInv, Alone(r)
      PROVE  SerialInv'
  <2>1. /\ Free(c) /\ ~MirrorBlocks(c) /\ close[c].approvedHash = Evidence(c)
        /\ id \in LockIds /\ id[1] = c /\ (realData => lock[id].status = "LOCKED")
    BY <1>1, <1>2, <1>6 DEF Knows
  <2>2. DOMAIN close = Closes /\ CloseIsGood(c) /\ DOMAIN mirror = LockIds
    BY <1>3, <1>6 DEF SerialInv, SerialStores
  <2>3. PICK a, g, h : /\ Shows(c, "LOCKED", a, g, h, id) /\ h = close[c].approvedHash
    BY <1>2, <1>3, <2>2, CloseShows, Zenon DEF CloseIsGood
  <2>4. UNCHANGED <<realData, source, balance, activeLocks, lock, crashes>>
    BY <1>2 DEF evidenceVars, ledgerVars
  <2>5. MirrorShows(id, e) /\ IsMirrored(e) /\ e.status = "LOCKED"
    BY <1>2, <2>1, <2>2 DEF MirrorShows, IsMirrored
  <2>6. ASSUME NEW d \in Closes
        PROVE  CloseIsGood(d)'
    <3>1. CASE d = c
      <4>1. PICK v : /\ v = close'[c] /\ IsClose(v) /\ v.closeStatus = "LOCKED"
                     /\ v.approvedHash = h /\ v.lockId = id
        BY <2>3 DEF Shows, IsClose
      <4>2. h = Evidence(c)' /\ (h # None => EvidencePasses(c, h))
        BY <2>1, <2>2, <2>3, <2>4 DEF Evidence, CloseIsGood
      <4>3. mirror'[id].status = "LOCKED"
        BY <2>5 DEF MirrorShows
      <4>4. QED  BY <2>1, <3>1, <4>1, <4>2, <4>3 DEF CloseIsGood, EvidencePasses, Evidence
    <3>2. CASE d # c
      <4>1. close'[d] = close[d]
        BY <2>3, <3>2 DEF Shows
      <4>2. CloseIsGood(d)
        BY <1>6 DEF SerialInv, SerialStores
      <4>3. close[d].closeStatus = "LOCKED" => mirror'[close[d].lockId].status = "LOCKED"
        BY <2>1, <2>5, <3>2, <4>2 DEF CloseIsGood, MirrorShows
      <4>4. QED  BY <2>4, <4>1, <4>2, <4>3 DEF CloseIsGood, Evidence, EvidencePasses
    <3>3. QED  BY <3>1, <3>2
  <2>7. ASSUME NEW l \in LockIds
        PROVE  MirroredLockIsGood(l)'
    <3>1. MirroredLockIsGood(l) /\ l[1] \in Closes
      BY <1>6 DEF SerialInv, SerialStores, LockIds
    <3>2. CASE l = id
      BY <2>1, <2>3, <2>5, <3>2 DEF MirroredLockIsGood, MirrorShows, Shows, LockStatuses
    <3>3. CASE l # id /\ l[1] = c
      <4>1. mirror'[l] = mirror[l] /\ mirror[l].status # "LOCKED"
        BY <1>3, <2>1, <2>5, <3>3, UnblockedIsFree DEF MirrorShows
      <4>2. mirror[l].status # "REOPENED"
        BY <2>1, <3>1, <3>3 DEF MirroredLockIsGood, Free
      <4>3. QED  BY <3>1, <4>1, <4>2 DEF MirroredLockIsGood
    <3>4. CASE l[1] # c
      <4>1. mirror'[l] = mirror[l] /\ close'[l[1]] = close[l[1]]
        BY <2>1, <2>3, <2>5, <3>1, <3>4 DEF MirrorShows, Shows
      <4>2. QED  BY <3>1, <4>1 DEF MirroredLockIsGood
    <3>5. QED  BY <3>2, <3>3, <3>4
  <2>8. ASSUME NEW k \in LockIds, NEW l \in LockIds,
               mirror'[k].status = "LOCKED", mirror'[l].status = "LOCKED", k # l
        PROVE  ~Ledger!Collide(k[1], l[1])
    <3>1. CASE k # id /\ l # id
      BY <1>6, <2>5, <2>8, <3>1
         DEF SerialInv, SerialStores, MirroredLocksDoNotOverlap, MirrorShows
    <3>2. CASE k = id \/ l = id
      BY <1>3, <2>1, <2>5, <2>8, <3>2, UnblockedIsFree DEF MirrorShows
    <3>3. QED  BY <3>1, <3>2
  <2>9. MirroredLocksDoNotOverlap'
    BY <2>8 DEF MirroredLocksDoNotOverlap, Ledger!Collide
  <2>10. SerialStores'
    BY <1>6, <2>3, <2>4, <2>5, <2>6, <2>7, <2>9
       DEF SerialInv, SerialStores, Shows, MirrorShows
  <2>11. StoresAgree'
    <3>1. \A s \in Requests : req[s].at \in Holding => s = r
      BY <1>6 DEF Alone, IdleRequest, Holding
    <3>2. realData /\ crashes = 0 =>
            \A l \in LockIds \ {id} : mirror[l].status = lock[l].status
      BY <1>1, <1>2, <1>6, <3>1 DEF SerialInv, StoresAgree
    <3>3. QED  BY <2>1, <2>4, <2>5, <3>2 DEF StoresAgree, MirrorShows
  <2>12. QED  BY <1>4, <1>6, <2>10, <2>11, IdleKnows, SerialMove
<1>7. QED  BY <1>4, <1>5, <1>6, IdleKnows, TypedMove

-----------------------------------------------------------------------------
(* The writes of a reopen *)

\* Without a crash the lock that a reopen read is the one the ledger reopens.
LEMMA LockFreed ==
  ASSUME Proved!LockInv, NEW c \in Closes, NEW why, Ledger!ReopenPeriodLock(Org, c, why),
         NEW id \in LockIds, id[1] = c, lock[id].status = "LOCKED"
  PROVE  \A l \in LockIds \ {id} : lock'[l] = lock[l]
<1>1. /\ lock \in [LockIds -> [status : LockStatuses, org : {Org, None}]] /\ lockIndex[c] = id
  BY LedgerFacts
<1>2. ~Ledger!ReopenStands(c)
  BY <1>1 DEF Ledger!ReopenStands
<1>3. lock' = [lock EXCEPT ![id].status = "REOPENED"]
  BY <1>1, <1>2 DEF Ledger!ReopenPeriodLock, Ledger!MarkReopened
<1>4. QED  BY <1>1, <1>3

\* A reopen in the ledger: only the request knows of it until the mirror is written.
LEMMA ReopenInLedgerStep ==
  ASSUME TypeInv, Proved!LockInv, NEW r \in Requests, ReopenInLedger(r)
  PROVE  TypeInv' /\ (SerialInv /\ Alone(r) => SerialInv')
<1>1. PICK q : q = req[r] /\ IsTypedRequest(q) /\ (SerialInv => Knows(q))
  BY DEF TypeInv, SerialInv
<1>2. /\ q.op = "reopen" /\ q.at = "reopenLedger"
      /\ \/ Ledger!ReopenPeriodLock(Org, q.c, q.why) /\ Goto(r, "reopenMirror", q)
         \/ Answer(r) /\ UNCHANGED ledgerVars
      /\ UNCHANGED <<realData, evidenceVars, close, mirror, crashes>>
  BY <1>1, Zenon DEF ReopenInLedger, At
<1>3. q.c \in Closes /\ q.at \notin Holding
  BY <1>1, <1>2 DEF IsTypedRequest, Holding
<1>4. StoresAreTyped'
  BY <1>2 DEF TypeInv, StoresAreTyped, evidenceVars
<1>5. CASE Answer(r) /\ UNCHANGED ledgerVars
  <2>1. Still /\ crashes' = crashes
    BY <1>2, <1>5 DEF Still, evidenceVars, ledgerVars
  <2>2. QED  BY <1>1, <1>3, <1>4, <1>5, <2>1, AnswerStep
<1>6. CASE Ledger!ReopenPeriodLock(Org, q.c, q.why) /\ Goto(r, "reopenMirror", q)
  <2>2. PICK m :
          MovesTo(r, m) /\ Moved(m, q, "reopenMirror", q.view, q.src, q.bal, q.scp, q.id)
    BY <1>1, <1>6, OneMoved DEF IsTypedRequest
  <2>3. IsTypedRequest(m)
    BY <1>1, <1>2, <2>2 DEF IsTypedRequest, Moved
  <2>4. ASSUME SerialInv, Alone(r)
        PROVE  SerialInv'
    <3>1. /\ realData /\ close[q.c].closeStatus = "LOCKED" /\ q.id = close[q.c].lockId
          /\ q.view = mirror[q.id]
      BY <1>1, <1>2, <2>4 DEF Knows
    <3>2. UNCHANGED <<realData, source, balance, close, mirror, crashes>>
      BY <1>2 DEF evidenceVars
    <3>3. SerialStores'
      BY <2>4, <3>1, <3>2
         DEF SerialInv, SerialStores, CloseIsGood, MirroredLockIsGood, Evidence,
             EvidencePasses, MirroredLocksDoNotOverlap
    <3>4. q.id \in LockIds /\ q.id[1] = q.c /\ mirror[q.id].status = "LOCKED"
      BY <1>3, <2>4, <3>1 DEF SerialInv, SerialStores, CloseIsGood
    <3>5. StoresAgree'
      <4>1. req'[r] = m /\ m.at \in Holding /\ m.id = q.id
        BY <2>2 DEF TypeInv, MovesTo, Moved, Holding
      <4>2. \A s \in Requests : req[s].at \notin Holding
        BY <1>1, <1>3, <2>4 DEF Alone, IdleRequest, Holding
      <4>3. ASSUME crashes = 0
            PROVE  \A l \in LockIds \ {q.id} : mirror'[l].status = lock'[l].status
        <5>1. \A l \in LockIds : mirror[l].status = lock[l].status
          BY <2>4, <3>1, <4>2, <4>3 DEF SerialInv, StoresAgree
        <5>2. \A l \in LockIds \ {q.id} : lock'[l] = lock[l]
          BY <1>3, <1>6, <3>4, <5>1, LockFreed
        <5>3. QED  BY <3>2, <5>1, <5>2
      <4>4. QED  BY <3>2, <4>1, <4>3 DEF StoresAgree
    <3>6. Knows(m)'
      <4>1. m.at = "reopenMirror" /\ m.op = "reopen" /\ m.c = q.c /\ m.id = q.id
            /\ m.view = q.view
        BY <1>2, <2>2 DEF Moved
      <4>2. QED  BY <3>1, <3>2, <4>1 DEF Knows
    <3>7. QED  BY <2>2, <2>4, <3>3, <3>5, <3>6, SerialMove
  <2>5. QED  BY <1>4, <2>2, <2>3, <2>4, TypedMove
<1>7. QED  BY <1>2, <1>5, <1>6

\* The workflow shows the reopen.
LEMMA ReopenInMirrorStep ==
  ASSUME TypeInv, GovernanceInv, NEW r \in Requests, ReopenInMirror(r)
  PROVE  TypeInv' /\ (SerialInv /\ Alone(r) => SerialInv')
<1>1. PICK q : q = req[r] /\ IsTypedRequest(q) /\ (SerialInv => Knows(q))
  BY DEF TypeInv, SerialInv
<1>2. PICK c, id, e :
        /\ c = q.c /\ id = q.id /\ q.op = "reopen" /\ q.at = "reopenMirror" /\ Answer(r)
        /\ e = [q.view EXCEPT !.status = "REOPENED"]
        /\ mirror' = [mirror EXCEPT ![id] = e]
        /\ close' = [close EXCEPT ![c].closeStatus = "REOPENED",
                                  ![c].approvalStatus = "INVALIDATED_BY_REOPEN"]
        /\ UNCHANGED <<realData, evidenceVars, crashes, ledgerVars>>
  BY <1>1, Zenon DEF ReopenInMirror, At
<1>3. c \in Closes /\ q.at \in Holding
  BY <1>1, <1>2 DEF IsTypedRequest, Holding
<1>4. MovesTo(r, IdleRequest)
  BY <1>2 DEF Answer, MovesTo
<1>5. StoresAreTyped'
  BY <1>2 DEF TypeInv, StoresAreTyped, evidenceVars
<1>6. ASSUME SerialInv, Alone(r)
      PROVE  SerialInv'
  <2>1. close[c].closeStatus = "LOCKED" /\ id = close[c].lockId /\ q.view = mirror[id]
    BY <1>1, <1>2, <1>6 DEF Knows
  <2>2. /\ DOMAIN close = Closes /\ CloseIsGood(c) /\ DOMAIN mirror = LockIds
        /\ \A l \in LockIds : MirroredLockIsGood(l)
    BY <1>3, <1>6 DEF SerialInv, SerialStores
  <2>3. PICK a, g, h, n : /\ Shows(c, "REOPENED", "INVALIDATED_BY_REOPEN", g, h, n)
                          /\ h = close[c].approvedHash
    BY <1>2, <1>3, <2>2, CloseShows, Zenon DEF CloseIsGood
  <2>4. UNCHANGED <<realData, source, balance, activeLocks, lock, crashes>>
    BY <1>2 DEF evidenceVars, ledgerVars
  <2>i. id \in LockIds /\ id[1] = c /\ IsMirrored(q.view)
    BY <2>1, <2>2 DEF CloseIsGood, MirroredLockIsGood
  <2>5. MirrorShows(id, e) /\ IsMirrored(e) /\ e.status = "REOPENED"
    BY <1>2, <2>i, <2>2 DEF MirrorShows, IsMirrored
  <2>6. ASSUME NEW d \in Closes
        PROVE  CloseIsGood(d)'
    <3>1. CASE d = c
      <4>1. PICK v : /\ v = close'[c] /\ IsClose(v) /\ v.closeStatus = "REOPENED"
                     /\ v.approvalStatus = "INVALIDATED_BY_REOPEN" /\ v.approvedHash = h
        BY <2>3 DEF Shows, IsClose
      <4>2. h # None => EvidencePasses(c, h)
        BY <2>2, <2>3 DEF CloseIsGood
      <4>3. QED  BY <3>1, <4>1, <4>2 DEF CloseIsGood, EvidencePasses
    <3>2. CASE d # c
      <4>1. close'[d] = close[d]
        BY <2>3, <3>2 DEF Shows
      <4>2. CloseIsGood(d)
        BY <1>6 DEF SerialInv, SerialStores
      <4>3. close[d].closeStatus = "LOCKED" => mirror'[close[d].lockId].status = "LOCKED"
        BY <2>i, <2>5, <3>2, <4>2 DEF CloseIsGood, MirrorShows
      <4>4. QED  BY <2>4, <4>1, <4>2, <4>3 DEF CloseIsGood, Evidence, EvidencePasses
    <3>3. QED  BY <3>1, <3>2
  <2>7. ASSUME NEW l \in LockIds
        PROVE  MirroredLockIsGood(l)'
    <3>1. MirroredLockIsGood(l) /\ l[1] \in Closes
      BY <1>6 DEF SerialInv, SerialStores, LockIds
    <3>2. CASE l = id
      BY <2>i, <2>3, <2>5, <3>2 DEF MirroredLockIsGood, MirrorShows, Shows, LockStatuses
    <3>3. CASE l # id /\ l[1] = c
      <4>1. mirror'[l] = mirror[l] /\ mirror[l].status \notin {"LOCKED", "REOPENED"}
        BY <2>1, <2>5, <3>1, <3>3 DEF MirrorShows, MirroredLockIsGood
      <4>2. QED  BY <3>1, <4>1 DEF MirroredLockIsGood
    <3>4. CASE l[1] # c
      <4>1. mirror'[l] = mirror[l] /\ close'[l[1]] = close[l[1]]
        BY <2>i, <2>3, <2>5, <3>1, <3>4 DEF MirrorShows, Shows
      <4>2. QED  BY <3>1, <4>1 DEF MirroredLockIsGood
    <3>5. QED  BY <3>2, <3>3, <3>4
  <2>8. ASSUME NEW k \in LockIds, NEW l \in LockIds,
               mirror'[k].status = "LOCKED", mirror'[l].status = "LOCKED", k # l
        PROVE  ~Ledger!Collide(k[1], l[1])
    BY <1>6, <2>5, <2>8
       DEF SerialInv, SerialStores, MirroredLocksDoNotOverlap, MirrorShows
  <2>9. MirroredLocksDoNotOverlap'
    BY <2>8 DEF MirroredLocksDoNotOverlap, Ledger!Collide
  <2>10. SerialStores'
    BY <1>6, <2>3, <2>4, <2>5, <2>6, <2>7, <2>9
       DEF SerialInv, SerialStores, Shows, MirrorShows
  <2>11. StoresAgree'
    <3>1. \A s \in Requests : req[s].at \in Holding => s = r
      BY <1>6 DEF Alone, IdleRequest, Holding
    <3>2. realData /\ crashes = 0 =>
            \A l \in LockIds \ {id} : mirror[l].status = lock[l].status
      BY <1>1, <1>2, <1>6, <3>1 DEF SerialInv, StoresAgree
    <3>3. realData => lock[id].status = "REOPENED"
      BY <1>1, <1>2, <2>i DEF GovernanceInv, RequestsAreGood, RequestIsGood
    <3>4. QED  BY <2>4, <2>5, <3>2, <3>3 DEF StoresAgree, MirrorShows
  <2>12. QED  BY <1>4, <1>6, <2>10, <2>11, IdleKnows, SerialMove
<1>7. QED  BY <1>4, <1>5, <1>6, IdleKnows, TypedMove

-----------------------------------------------------------------------------
(* Every step *)

\* The invariant of any interleaving.
StoresInv == TypeInv /\ Proved!LockInv /\ GovernanceInv

\* A step is one of a request that is waiting.
LEMMA SteppingIsBusy ==
  ASSUME NEW r \in Requests, Step(r)
  PROVE  req[r] # IdleRequest
<1>1. CASE \/ AssertLedgerOpen(r) \/ AssertMirrorOpen(r) \/ StoreEvidence(r)
           \/ ReconcileCheck(r) \/ ReconcileScope(r) \/ StoreBalance(r)
  <2>1. req[r].at # "idle"
    BY <1>1, Zenon DEF AssertLedgerOpen, AssertMirrorOpen, StoreEvidence, ReconcileCheck,
                       ReconcileScope, StoreBalance, At
  <2>2. QED  BY <2>1 DEF IdleRequest
<1>2. CASE \/ RefreshRead(r) \/ EvaluateCheck(r) \/ DeriveSource(r)
           \/ StoreSource(r) \/ LoadBalance(r) \/ LoadScope(r) \/ StoreGovernance(r)
           \/ SnapshotSource(r)
  <2>1. req[r].at # "idle"
    BY <1>2, Zenon DEF RefreshRead, EvaluateCheck, DeriveSource, StoreSource, LoadBalance,
                       LoadScope, StoreGovernance, SnapshotSource
  <2>2. QED  BY <2>1 DEF IdleRequest
<1>3. CASE \/ ApproveCheck(r) \/ ApproveSnapshot(r) \/ ApproveInLedger(r)
           \/ ApproveInMirror(r) \/ LockCheck(r) \/ LockSnapshot(r)
           \/ LockOverlap(r) \/ LockInLedger(r) \/ LockInMirror(r)
           \/ ReopenCheck(r) \/ ReopenReadLock(r) \/ ReopenInLedger(r)
           \/ ReopenInMirror(r)
  <2>1. req[r].at # "idle"
    BY <1>3, Zenon DEF ApproveCheck, ApproveSnapshot, ApproveInLedger, ApproveInMirror,
                       LockCheck, LockSnapshot, LockOverlap, LockInLedger, LockInMirror,
                       ReopenCheck, ReopenReadLock, ReopenInLedger, ReopenInMirror, At
  <2>2. QED  BY <2>1 DEF IdleRequest
<1>4. QED  BY <1>1, <1>2, <1>3, Zenon DEF Step

\* A step of a request keeps the types, and the serial invariant if no other request runs.
LEMMA RequestStep ==
  ASSUME StoresInv, NEW r \in Requests, Step(r)
  PROVE  TypeInv' /\ (SerialInv /\ Alone(r) => SerialInv')
<1>0. TypeInv /\ Proved!LockInv /\ GovernanceInv
  BY DEF StoresInv
<1>1. CASE \/ AssertLedgerOpen(r) \/ AssertMirrorOpen(r) \/ StoreEvidence(r)
           \/ ReconcileCheck(r) \/ ReconcileScope(r) \/ StoreBalance(r)
  BY <1>0, <1>1, AssertLedgerOpenStep, AssertMirrorOpenStep, StoreEvidenceStep,
     ReconcileCheckStep, ReconcileScopeStep, StoreBalanceStep
<1>2. CASE \/ RefreshRead(r) \/ EvaluateCheck(r) \/ DeriveSource(r)
           \/ StoreSource(r) \/ LoadBalance(r) \/ LoadScope(r) \/ StoreGovernance(r)
           \/ SnapshotSource(r)
  BY <1>0, <1>2, RefreshReadStep, EvaluateCheckStep, DeriveSourceStep, StoreSourceStep,
     LoadBalanceStep, LoadScopeStep, StoreGovernanceStep, SnapshotSourceStep
<1>3. CASE \/ ApproveCheck(r) \/ ApproveSnapshot(r) \/ ApproveInLedger(r)
           \/ ApproveInMirror(r) \/ LockCheck(r) \/ LockSnapshot(r)
           \/ LockOverlap(r) \/ LockInLedger(r) \/ LockInMirror(r)
  BY <1>0, <1>3, ApproveCheckStep, ApproveSnapshotStep, ApproveInLedgerStep,
     ApproveInMirrorStep, LockCheckStep, LockSnapshotStep, LockOverlapStep,
     LockInLedgerStep, LockInMirrorStep
<1>4. CASE \/ ReopenCheck(r) \/ ReopenReadLock(r) \/ ReopenInLedger(r)
           \/ ReopenInMirror(r)
  BY <1>0, <1>4, ReopenCheckStep, ReopenReadLockStep, ReopenInLedgerStep, ReopenInMirrorStep
<1>5. QED  BY <1>1, <1>2, <1>3, <1>4, Zenon DEF Step

\* At most one request is in flight.
OneAtATime ==
  \A r, s \in Requests : req[r] # IdleRequest /\ req[s] # IdleRequest => r = s

\* Nothing happened yet.
LEMMA SerialInit ==
  ASSUME Init
  PROVE  StoresInv /\ SerialInv
<1>1. TypeInv
  <2>1. StoresAreTyped
    BY GovernanceAssumption DEF Init, StoresAreTyped, SourceRecords, BalanceRecords
  <2>2. QED  BY <2>1, IdleKnows DEF Init, TypeInv
<1>2. SerialStores
  <2>1. \A c \in Closes : /\ IsClose(close[c]) /\ close[c].approvedHash = None
                          /\ close[c].closeStatus = "PREPARED_NOT_CLOSED"
    BY DEF Init, IsClose
  <2>2. \A l \in LockIds : IsMirrored(mirror[l]) /\ mirror[l].status = "ABSENT"
    BY DEF Init, IsMirrored
  <2>3. DOMAIN close = Closes /\ DOMAIN mirror = LockIds
        /\ \A c \in Closes : activeLocks[c.company] = {}
    BY DEF Init
  <2>4. QED
    BY <2>1, <2>2, <2>3
       DEF SerialStores, CloseIsGood, MirroredLockIsGood, MirroredLocksDoNotOverlap,
           LockStatuses
<1>3. StoresAgree
  BY DEF Init, StoresAgree
<1>4. \A r \in Requests : Knows(req[r])
  BY IdleKnows DEF Init
<1>5. QED  BY <1>1, <1>2, <1>3, <1>4, LedgerInit, InitialStates DEF StoresInv, SerialInv

\* Every step of the system keeps both, the second while requests come one at a time.
LEMMA SerialStep ==
  ASSUME StoresInv, [Next]_vars
  PROVE  StoresInv' /\ (SerialInv /\ OneAtATime => SerialInv')
<1>0. TypeInv /\ Proved!LockInv /\ GovernanceInv
  BY DEF StoresInv
<1>1. Proved!LockInv' /\ GovernanceInv'
  BY <1>0, LedgerStep, EveryStep
<1>2. CASE UNCHANGED vars
  <2>1. Still /\ StoresAreTyped' /\ req' = req /\ crashes' = crashes
    BY <1>0, <1>2 DEF vars, evidenceVars, ledgerVars, Still, TypeInv, StoresAreTyped
  <2>2. TypeInv'
    BY <1>0, <2>1 DEF TypeInv
  <2>3. ASSUME SerialInv
        PROVE  SerialInv'
    <3>1. SerialStores'
      BY <2>1, <2>3, StillStores DEF SerialInv
    <3>2. StoresAgree'
      BY <2>1, <2>3 DEF SerialInv, StoresAgree, Still
    <3>3. ASSUME NEW s \in Requests
          PROVE  Knows(req[s])'
      <4>1. PICK n : n = req[s]
        OBVIOUS
      <4>2. Knows(n)'
        BY <2>1, <2>3, <4>1, StillKnows DEF SerialInv
      <4>3. QED
        BY <2>1, <4>1, <4>2 DEF Knows, Free, Evidence, EvidencePasses, HashOf, MirrorBlocks
    <3>4. QED  BY <3>1, <3>2, <3>3 DEF SerialInv
  <2>4. QED  BY <1>1, <2>2, <2>3 DEF StoresInv
<1>3. ASSUME NEW r \in Requests, Start(r) \/ Crash(r)
      PROVE  TypeInv' /\ (SerialInv => SerialInv')
  BY <1>0, <1>3, StartStep, CrashStep
<1>4. ASSUME NEW r \in Requests, Step(r)
      PROVE  TypeInv' /\ (SerialInv /\ OneAtATime => SerialInv')
  <2>1. OneAtATime => Alone(r)
    BY <1>4, SteppingIsBusy DEF OneAtATime, Alone
  <2>2. QED  BY <1>4, <2>1, RequestStep
<1>5. CASE \/ \E v \in Registries : ConfigureSourceRequirements(v)
           \/ \E s \in Scopes : ConfigureBalanceSheetScope(s)
  BY <1>0, <1>1, <1>5, ConfigureStep DEF StoresInv
<1>6. CASE Next
  BY <1>1, <1>3, <1>4, <1>5, <1>6, Zenon DEF StoresInv, Next
<1>7. QED  BY <1>2, <1>6

-----------------------------------------------------------------------------
(* The theorems *)

\* However requests interleave and die, types are kept and the ledger's documents agree.
THEOREM StoresAreAlwaysTyped == Spec => []StoresInv
<1>1. Init => StoresInv
  BY SerialInit
<1>2. StoresInv /\ [Next]_vars => StoresInv'
  BY SerialStep
<1>3. QED  BY <1>1, <1>2, PTL DEF Spec

\* The composition: every step of the workflow is a step of PeriodLedger or none of its
\* business.  (Its initial states are not PeriodLedger's: the companies are registered.)
THEOREM WorkflowUsesTheLedger == Spec => [][Ledger!Next]_ledgerVars
<1>1. StoresInv /\ [Next]_vars => [Ledger!Next]_ledgerVars
  BY LedgerUsed DEF StoresInv
<1>2. QED  BY <1>1, StoresAreAlwaysTyped, PTL DEF Spec

\* What the ledger promises holds under the workflow, for any interleaving: locks held never
\* overlap, and locks, lock state and index agree.
THEOREM LedgerStaysGood ==
  Spec => [](Ledger!NoOverlappingLocks /\ Ledger!LockDocumentsAgree)
<1>1. StoresInv => Ledger!NoOverlappingLocks /\ Ledger!LockDocumentsAgree
  BY LedgerFacts DEF StoresInv
<1>2. QED  BY <1>1, StoresAreAlwaysTyped, PTL

\* One request at a time: what each one knows of the stores stays so until it writes.
THEOREM OneRequestKnowsTheStores == Spec /\ []OneAtATime => []SerialInv
<1>1. Init => SerialInv
  BY SerialInit
<1>2. StoresInv /\ SerialInv /\ OneAtATime /\ [Next]_vars => SerialInv'
  BY SerialStep
<1>3. QED  BY <1>1, <1>2, StoresAreAlwaysTyped, PTL DEF Spec

\* One request at a time, whatever dies: an approval is bound to evidence that passes.
\* (With two in flight it is not: the evidence changes between the check and the snapshot.)
THEOREM ApprovalsRestOnPassingEvidence == Spec /\ []OneAtATime => []ApprovedEvidencePasses
<1>1. SerialInv => ApprovedEvidencePasses
  BY DEF SerialInv, SerialStores, CloseIsGood, ApprovedEvidencePasses
<1>2. QED  BY <1>1, OneRequestKnowsTheStores, PTL

\* One request at a time: a locked close still has the evidence it was approved with.
THEOREM LocksRestOnApprovedEvidence == Spec /\ []OneAtATime => []LockedEvidenceIsApproved
<1>1. SerialInv => LockedEvidenceIsApproved
  BY DEF SerialInv, SerialStores, CloseIsGood, LockedEvidenceIsApproved, Evidence
<1>2. QED  BY <1>1, OneRequestKnowsTheStores, PTL

\* One request at a time: a close whose lock was reopened stays reopened.
THEOREM ReopenedClosesAreFinal == Spec /\ []OneAtATime => []ReopenedCloseIsFinal
<1>1. SerialInv => ReopenedCloseIsFinal
  BY DEF SerialInv, SerialStores, MirroredLockIsGood, ReopenedCloseIsFinal
<1>2. QED  BY <1>1, OneRequestKnowsTheStores, PTL

\* One request at a time: the locks the workflow shows never overlap.
THEOREM MirroredLocksNeverOverlap == Spec /\ []OneAtATime => []MirroredLocksDoNotOverlap
<1>1. SerialInv => MirroredLocksDoNotOverlap
  BY DEF SerialInv, SerialStores
<1>2. QED  BY <1>1, OneRequestKnowsTheStores, PTL

\* At rest nothing is between the stores, and their locks are those of the closes.
LEMMA RestAgrees ==
  ASSUME StoresInv, SerialInv
  PROVE  StoresAgreeAtRest
<1> SUFFICES ASSUME realData, crashes = 0, \A r \in Requests : req[r] = IdleRequest
             PROVE  /\ \A l \in LockIds : mirror[l].status = lock[l].status
                    /\ \A c \in Closes :
                         close[c].closeStatus = "LOCKED"
                           <=> \E l \in activeLocks[c.company] : l[1] = c
  BY DEF StoresAgreeAtRest
<1>1. \A l \in LockIds : mirror[l].status = lock[l].status
  BY DEF SerialInv, StoresAgree, IdleRequest, Holding
<1>2. ASSUME NEW c \in Closes, close[c].closeStatus = "LOCKED"
      PROVE  \E l \in activeLocks[c.company] : l[1] = c
  <2>1. PICK l \in LockIds : l[1] = c /\ mirror[l].status = "LOCKED"
    BY <1>2 DEF SerialInv, SerialStores, CloseIsGood
  <2>2. QED  BY <1>1, <2>1, LedgerFacts DEF StoresInv
<1>3. ASSUME NEW c \in Closes, NEW l \in activeLocks[c.company], l[1] = c
      PROVE  close[c].closeStatus = "LOCKED"
  <2>1. l \in LockIds /\ lock[l].status = "LOCKED"
    BY LedgerFacts DEF StoresInv
  <2>2. QED  BY <1>1, <1>3, <2>1 DEF SerialInv, SerialStores, MirroredLockIsGood
<1>4. QED  BY <1>1, <1>2, <1>3

\* One request at a time and none cut off: whenever none runs, Firestore and the Realtime
\* Database hold the same locks and the closes' states say so.
THEOREM StoresAlwaysAgreeAtRest == Spec /\ []OneAtATime => []StoresAgreeAtRest
<1>1. StoresInv /\ SerialInv => StoresAgreeAtRest
  BY RestAgrees
<1>2. QED  BY <1>1, OneRequestKnowsTheStores, StoresAreAlwaysTyped, PTL

\* The closes of a deployment are closes of one period, as the artifacts are.
OnePeriod ==
  \A c, d \in Closes : c.company = d.company /\ c.start = d.start /\ c.end = d.end

\* Only recordPeriodSourceEvidence writes the period's evidence.
LEMMA EvidenceIsRecorded ==
  ASSUME [Next]_vars, artifacts' # artifacts
  PROVE  \E r \in Requests : StoreEvidence(r)
<1>1. CASE UNCHANGED vars
  BY <1>1 DEF vars, evidenceVars
<1>2. CASE \E r \in Requests : Start(r) \/ Crash(r)
  BY <1>2, Zenon DEF Start, Begin, Crash, evidenceVars
<1>3. CASE \/ \E v \in Registries : ConfigureSourceRequirements(v)
           \/ \E s \in Scopes : ConfigureBalanceSheetScope(s)
  BY <1>3, Zenon DEF ConfigureSourceRequirements, ConfigureBalanceSheetScope
<1>4. ASSUME NEW r \in Requests, Step(r), ~StoreEvidence(r)
      PROVE  FALSE
  <2>1. CASE \/ AssertLedgerOpen(r) \/ AssertMirrorOpen(r)
             \/ ReconcileCheck(r) \/ ReconcileScope(r) \/ StoreBalance(r)
    BY <2>1, Zenon DEF AssertLedgerOpen, AssertMirrorOpen, ReconcileCheck,
                       ReconcileScope, StoreBalance, evidenceVars
  <2>2. CASE \/ RefreshRead(r) \/ EvaluateCheck(r) \/ DeriveSource(r)
             \/ StoreSource(r) \/ LoadBalance(r) \/ LoadScope(r) \/ StoreGovernance(r)
             \/ SnapshotSource(r)
    BY <2>2, Zenon DEF RefreshRead, EvaluateCheck, DeriveSource, StoreSource, LoadBalance,
                       LoadScope, StoreGovernance, SnapshotSource, evidenceVars
  <2>3. CASE \/ ApproveCheck(r) \/ ApproveSnapshot(r) \/ ApproveInLedger(r)
             \/ ApproveInMirror(r) \/ LockCheck(r) \/ LockSnapshot(r)
             \/ LockOverlap(r) \/ LockInLedger(r) \/ LockInMirror(r)
    BY <2>3, Zenon DEF ApproveCheck, ApproveSnapshot, ApproveInLedger, ApproveInMirror,
                       LockCheck, LockSnapshot, LockOverlap, LockInLedger, LockInMirror,
                       evidenceVars
  <2>4. CASE \/ ReopenCheck(r) \/ ReopenReadLock(r) \/ ReopenInLedger(r)
             \/ ReopenInMirror(r)
    BY <2>4, Zenon DEF ReopenCheck, ReopenReadLock, ReopenInLedger, ReopenInMirror,
                       evidenceVars
  <2>5. QED  BY <1>4, <2>1, <2>2, <2>3, <2>4, Zenon DEF Step
<1>5. QED  BY <1>1, <1>2, <1>3, <1>4, Zenon DEF Next

\* It is written while the ledger holds no lock on the period.
LEMMA FreezeStep ==
  ASSUME OnePeriod, StoresInv, SerialInv, [Next]_vars, artifacts' # artifacts
  PROVE  \A c \in Closes : Ledger!Blocking(c) = {}
<1>1. PICK r \in Requests : StoreEvidence(r)
  BY EvidenceIsRecorded
<1>2. PICK q : q = req[r] /\ q.at = "storeEvidence" /\ Knows(q) /\ q.c \in Closes
  BY <1>1 DEF StoreEvidence, At, SerialInv, StoresInv, TypeInv, IsTypedRequest
<1>3. CASE ~realData
  BY <1>3 DEF SerialInv, SerialStores, Ledger!Blocking
<1>4. CASE realData
  <2>1. Ledger!Blocking(q.c) = {}
    BY <1>2, <1>4 DEF Knows
  <2>2. QED  BY <1>2, <2>1 DEF OnePeriod, Ledger!Blocking, Ledger!RangesOverlap
<1>5. QED  BY <1>3, <1>4

\* One request at a time: the source evidence of a period does not change while the ledger
\* holds a lock on any day of it.
THEOREM LockedEvidenceStaysFrozen ==
  ASSUME OnePeriod
  PROVE  Spec /\ []OneAtATime => LockedEvidenceIsFrozen
<1>1. StoresInv /\ SerialInv /\ [Next]_vars =>
        [artifacts' # artifacts => \A c \in Closes : Ledger!Blocking(c) = {}]_vars
  BY FreezeStep
<1>2. QED
  BY <1>1, OneRequestKnowsTheStores, StoresAreAlwaysTyped, PTL DEF Spec, LockedEvidenceIsFrozen

=============================================================================
