------------------------- MODULE ServiceIntakeProofs -------------------------
(***************************************************************************)
(* Proofs about ServiceIntake for any number of requests, companies and    *)
(* uploads, all operations in flight at once: no deployment is past a step *)
(* that nobody did, and the decision of a review stays.                    *)
(***************************************************************************)
EXTENDS ServiceIntake, ServerRequestsProofs

ClearedUploads == {u \in Uploads : Cleared(u)}

Done(cleared, init) == \/ Histories \cap cleared # {}
                       \/ \E c \in init : StageOf[c] = "NEW"

\* The steps a deployment shows, and who did them.
Earned(d, cleared, init) ==
  /\ d.company # None => d.company \in init
  /\ d.history = "RECEIVED" => Histories \cap cleared # {}
  /\ HistoryReady(d) \/ d.connector # None => Done(cleared, init)
  /\ d.latestSource # None => d.latestSource \in cleared /\ Done(cleared, init)
  /\ d.latestHistory # None => d.latestHistory \in cleared

\* Every record has the fields of its collection.
StoresAreTyped ==
  /\ registered \subseteq Companies /\ initialized \subseteq Companies
  /\ deployment \in Deployments \cup {None}
  /\ upload \in [Uploads -> UploadStatuses \cup {None}]
  /\ claim \in [Uploads -> Claims \cup {None}]
  /\ payrollRun \in [PayrollInputs -> Companies \cup {None}]
  /\ ledgerRun \in [PayrollInputs -> Companies \cup {None}]

\* An upload was sent to the deployment, a source after the history step; it is in
\* quarantine until it is claimed, and then as the claim's decision says or still there.
UploadIsGood(status, c, isHistory, done, has) ==
  /\ status # None => has /\ (isHistory \/ done)
  /\ c # None => /\ policy = "MANUAL_REVIEW"
                 /\ status \in {"QUARANTINED", StatusOf(c.decision)}
  /\ RealData /\ c = None /\ status # None => status = "QUARANTINED"

UploadsAreGood ==
  \A u \in Uploads : UploadIsGood(upload[u], claim[u], u \in Histories,
                                  Done(ClearedUploads, initialized), deployment # None)

RunsAreGood ==
  \A i \in PayrollInputs :
    /\ payrollRun[i] # None => /\ payrollRun[i] \in initialized
                               /\ Done(ClearedUploads, initialized)
    /\ ledgerRun[i] # None => ledgerRun[i] \in registered /\ payrollRun[i] # None

StoresAreGood ==
  /\ RealData => initialized \subseteq registered
  /\ deployment # None => Earned(deployment, ClearedUploads, initialized)
  /\ UploadsAreGood
  /\ RunsAreGood

\* What a request between two awaits relies on, of what it has read.
Knows(q, init, reg, cleared, has, uploads, claims, runs) ==
  /\ q.op = "initialize" => q.in \in Companies
  /\ q.op = "initialize" /\ q.at = "record" /\ RealData => q.in \in reg
  /\ q.op = "start" => q.in.service \in Services /\ q.in.country \in Countries \cup {None}
  /\ q.op = "link" => q.in \in Companies
  /\ q.op = "link" /\ q.at = "write" => has /\ q.in \in init
  /\ q.op = "configure" => q.in \in Countries \cup {None}
  /\ q.op = "configure" /\ q.at = "write" => has /\ q.seen \in Deployments
  /\ q.op = "skip" /\ q.at = "write" => has /\ Done(cleared, init)
  /\ q.op = "connector" => q.in \in Connectors
  /\ q.op = "connector" /\ q.at # "route" => Done(cleared, init)
  /\ q.op = "connector" /\ q.at = "write" => has
  /\ q.op = "history" => q.in \in Histories
  /\ q.op = "history" /\ q.at \in {"find", "store"} => has /\ q.seen \in Deployments
  /\ q.op = "source" => q.in \in Sources
  /\ q.op = "source" /\ q.at # "route" => Done(cleared, init)
  /\ q.op = "source" /\ q.at \in {"find", "store"} => has
  /\ q.op = "review" => q.in.upload \in Uploads /\ q.in.decision \in Decisions
  /\ q.op = "review" /\ q.at = "claim" => policy = "MANUAL_REVIEW" /\ uploads[q.in.upload] # None
  /\ q.op = "review" /\ q.at \in {"apply", "release"} =>
       claims[q.in.upload] # None /\ claims[q.in.upload].decision = q.in.decision
  /\ q.op = "payroll" => q.in \in PayrollInputs
  /\ q.op = "payroll" /\ q.at # "route" => has
  /\ q.op = "payroll" /\ q.at \in {"find", "store", "persist"} =>
       q.seen.company \in init /\ q.seen.company # None /\ Done(cleared, init)
  /\ q.op = "payroll" /\ q.at = "persist" => runs[q.in] # None

KnowsNow(r) ==
  Knows(request[r], initialized, registered, ClearedUploads, deployment # None,
        upload, claim, payrollRun)

IntakeInv ==
  /\ RequestShape
  /\ StoresAreTyped
  /\ StoresAreGood
  /\ \A r \in Requests : KnowsNow(r)

\* Steps that were done stay done.
Progress ==
  /\ policy' = policy
  /\ initialized \subseteq initialized' /\ registered \subseteq registered'
  /\ deployment # None => deployment' # None
  /\ ClearedUploads \subseteq ClearedUploads'
  /\ \A u \in Uploads :
       /\ upload[u] # None => upload'[u] # None
       /\ claim[u] # None => claim'[u] # None /\ claim'[u].decision = claim[u].decision
  /\ \A i \in PayrollInputs : payrollRun[i] # None => payrollRun'[i] # None

-----------------------------------------------------------------------------
(* What a step of one request leaves to the others *)

\* The history step stays done.
LEMMA DoneStays ==
  ASSUME NEW cleared, NEW init, NEW more, NEW grown, cleared \subseteq more,
         init \subseteq grown, Done(cleared, init)
  PROVE  Done(more, grown)
BY DEF Done

\* A deployment that is left alone stays earned.
LEMMA EarnedStays ==
  ASSUME NEW d, NEW cleared, NEW init, NEW more, NEW grown, cleared \subseteq more,
         init \subseteq grown, Earned(d, cleared, init)
  PROVE  Earned(d, more, grown)
<1>1. Done(cleared, init) => Done(more, grown)
  BY DoneStays
<1>2. QED  BY <1>1 DEF Earned

\* What a request knows stays true.
LEMMA KnowledgeStays ==
  ASSUME Progress, NEW q,
         Knows(q, initialized, registered, ClearedUploads, deployment # None, upload, claim,
               payrollRun)
  PROVE  Knows(q, initialized', registered', ClearedUploads', (deployment # None)', upload',
               claim', payrollRun')
<1>1. Done(ClearedUploads, initialized) => Done(ClearedUploads', initialized')
  BY DoneStays DEF Progress
<1>2. initialized \subseteq initialized' /\ registered \subseteq registered'
  BY DEF Progress
<1>3. q.op = "payroll" => q.in \in PayrollInputs
  BY DEF Knows
<1>4. q.op = "review" => q.in.upload \in Uploads
  BY DEF Knows
<1>5. QED  BY <1>1, <1>2, <1>3, <1>4 DEF Knows, Progress

\* A step of one request keeps the invariant if the stores stay good, nothing is taken back
\* and the request that moved knows only what is so.
LEMMA MoveKeepsInv ==
  ASSUME IntakeInv, NEW r \in Requests, NEW op, NEW label, NEW seen,
         MovesTo(r, op, label, seen), Progress, StoresAreTyped', StoresAreGood', KnowsNow(r)'
  PROVE  IntakeInv'
<1>1. RequestShape'
  BY MovesKeepShape DEF IntakeInv
<1>2. ASSUME NEW s \in Requests \ {r}
      PROVE  KnowsNow(s)'
  <2>1. /\ request'[s] = request[s]
        /\ Knows(request[s], initialized, registered, ClearedUploads, deployment # None, upload,
                 claim, payrollRun)
    BY DEF MovesTo, IntakeInv, KnowsNow
  <2>2. Knows(request[s], initialized', registered', ClearedUploads', (deployment # None)',
              upload', claim', payrollRun')
    BY <2>1, KnowledgeStays
  <2>3. policy' = policy
    BY DEF Progress
  <2>4. KnowsNow(s)' <=> Knows(request'[s], initialized', registered', ClearedUploads',
                               (deployment # None)', upload', claim', payrollRun')
    BY <2>3 DEF KnowsNow, Knows, RealData
  <2>5. QED  BY <2>1, <2>2, <2>4
<1>3. \A s \in Requests : KnowsNow(s)'
  BY <1>2
<1>4. QED  BY <1>1, <1>3 DEF IntakeInv

\* Where no request moves.
LEMMA StillKeepsInv ==
  ASSUME IntakeInv, request' = request, Progress, StoresAreTyped', StoresAreGood'
  PROVE  IntakeInv'
<1>1. ASSUME NEW s \in Requests
      PROVE  KnowsNow(s)'
  <2>1. Knows(request[s], initialized, registered, ClearedUploads, deployment # None, upload,
              claim, payrollRun)
    BY DEF IntakeInv, KnowsNow
  <2>2. Knows(request[s], initialized', registered', ClearedUploads', (deployment # None)',
              upload', claim', payrollRun')
    BY <2>1, KnowledgeStays
  <2>3. policy' = policy
    BY DEF Progress
  <2>4. KnowsNow(s)' <=> Knows(request[s], initialized', registered', ClearedUploads',
                               (deployment # None)', upload', claim', payrollRun')
    BY <2>3 DEF KnowsNow, Knows, RealData
  <2>5. QED  BY <2>2, <2>4
<1>2. \A s \in Requests : KnowsNow(s)'
  BY <1>1
<1>3. RequestShape'
  BY DEF IntakeInv, RequestShape
<1>4. QED  BY <1>2, <1>3 DEF IntakeInv

\* A read leaves the stores as they are.
LEMMA ReadsKeepStores ==
  ASSUME IntakeInv, NothingStored
  PROVE  StoresAreTyped' /\ StoresAreGood' /\ Progress
<1>1. /\ policy' = policy /\ registered' = registered /\ initialized' = initialized
      /\ deployment' = deployment /\ upload' = upload /\ claim' = claim
      /\ payrollRun' = payrollRun /\ ledgerRun' = ledgerRun
  BY DEF NothingStored, intakeVars, companyVars, uploadVars, runVars
<1>2. ClearedUploads' = ClearedUploads
  BY <1>1 DEF ClearedUploads, Cleared, Applied, RealData
<1>3. StoresAreTyped'
  BY <1>1 DEF IntakeInv, StoresAreTyped
<1>4. StoresAreGood'
  BY <1>1, <1>2 DEF IntakeInv, StoresAreGood, UploadsAreGood, UploadIsGood, RunsAreGood,
                    RealData, Earned, HistoryReady, Done
<1>5. QED  BY <1>1, <1>2, <1>3, <1>4 DEF Progress

\* A request that is answered, or dies, knows nothing.
LEMMA AnswerKeepsInv ==
  ASSUME IntakeInv, NEW r \in Requests, request' = [request EXCEPT ![r] = IdleRequest],
         Progress, StoresAreTyped', StoresAreGood'
  PROVE  IntakeInv'
<1>1. MovesTo(r, "none", "idle", None)
  BY AnswerMoves DEF IntakeInv
<1>2. request'[r].op = "none"
  BY <1>1 DEF MovesTo
<1>3. KnowsNow(r)'
  BY <1>2 DEF KnowsNow, Knows
<1>4. QED  BY <1>1, <1>3, MoveKeepsInv

\* What a request would know at its next await, with what it has seen by then.
After(r, label, seen) ==
  [op |-> request[r].op, at |-> label, in |-> request[r].in, seen |-> seen]

KnowsThen(q) ==
  Knows(q, initialized, registered, ClearedUploads, deployment # None, upload, claim, payrollRun)

\* A request that read something goes on if it knows what it will rely on, or is answered.
LEMMA ReadKeepsInv ==
  ASSUME IntakeInv, NEW r \in Requests, NothingStored, NEW label, NEW seen,
         Answer(r) \/ (Goto(r, label, seen) /\ KnowsThen(After(r, label, seen)))
  PROVE  IntakeInv'
<1>1. StoresAreTyped' /\ StoresAreGood' /\ Progress
  BY ReadsKeepStores
<1>2. CASE Answer(r)
  BY <1>1, <1>2, AnswerKeepsInv DEF Answer
<1>3. CASE Goto(r, label, seen) /\ KnowsThen(After(r, label, seen))
  <2>1. MovesTo(r, request[r].op, label, seen) /\ request'[r].in = request[r].in
    BY <1>3, GotoMoves DEF IntakeInv
  <2>2. request'[r] = After(r, label, seen)
    BY <2>1 DEF MovesTo, After
  <2>3. Knows(request'[r], initialized, registered, ClearedUploads, deployment # None, upload,
              claim, payrollRun)
    BY <1>3, <2>2 DEF KnowsThen
  <2>4. Knows(request'[r], initialized', registered', ClearedUploads', (deployment # None)',
              upload', claim', payrollRun')
    BY <1>1, <2>3, KnowledgeStays
  <2>5. policy' = policy
    BY <1>1 DEF Progress
  <2>6. KnowsNow(r)'
    BY <2>4, <2>5 DEF KnowsNow, Knows, RealData
  <2>7. QED  BY <1>1, <2>1, <2>6, MoveKeepsInv
<1>4. QED  BY <1>2, <1>3

-----------------------------------------------------------------------------
(* The steps that read *)

\* What the stores say of the deployment that a request has just read.
LEMMA DeploymentRead ==
  ASSUME IntakeInv, deployment # None
  PROVE  /\ deployment \in Deployments
         /\ Earned(deployment, ClearedUploads, initialized)
         /\ HistoryReady(deployment) => Done(ClearedUploads, initialized)
         /\ deployment.company # None => deployment.company \in initialized
BY DEF IntakeInv, StoresAreTyped, StoresAreGood, Earned

\* The first reads of each operation on the deployment.
LEMMA DeploymentReads ==
  ASSUME IntakeInv, NEW r \in Requests,
         \/ ReadForLink(r) \/ ReadForConfiguration(r) \/ ReadForSkip(r)
         \/ RouteConnector(r) \/ ReadForConnector(r) \/ ReadForHistory(r)
         \/ RouteSource(r) \/ ReadForSource(r)
  PROVE  IntakeInv'
<1>k. KnowsThen(request[r])
  BY DEF IntakeInv, KnowsNow, KnowsThen
<1> USE DEF KnowsThen, After, In
<1>1. CASE ReadForLink(r)
  <2>1. /\ NothingStored /\ request[r].op = "link"
        /\ Answer(r) \/ (Goto(r, "write", deployment) /\ deployment # None /\ In(r) \in initialized)
    BY <1>1, Zenon DEF ReadForLink, ReadDeployment, At
  <2>2. deployment # None /\ In(r) \in initialized =>
          KnowsThen(After(r, "write", deployment))
    BY <1>k, <2>1, DeploymentRead DEF Knows
  <2>3. QED  BY <2>1, <2>2, ReadKeepsInv
<1>2. CASE ReadForConfiguration(r)
  <2>1. /\ NothingStored /\ request[r].op = "configure"
        /\ Answer(r) \/ (Goto(r, "write", deployment) /\ deployment # None)
    BY <1>2, Zenon DEF ReadForConfiguration, ReadDeployment, At
  <2>2. deployment # None =>
          KnowsThen(After(r, "write", deployment))
    BY <1>k, <2>1, DeploymentRead DEF Knows
  <2>3. QED  BY <2>1, <2>2, ReadKeepsInv
<1>3. CASE ReadForSkip(r)
  <2>1. /\ NothingStored /\ request[r].op = "skip"
        /\ \/ Answer(r)
           \/ /\ Goto(r, "write", deployment) /\ deployment # None
              /\ deployment.company # None /\ StageOf[deployment.company] = "NEW"
    BY <1>3, Zenon DEF ReadForSkip, ReadDeployment, At
  <2>2. deployment # None /\ deployment.company # None /\ StageOf[deployment.company] = "NEW" =>
          KnowsThen(After(r, "write", deployment))
    BY <1>k, <2>1, DeploymentRead DEF Knows, Done
  <2>3. QED  BY <2>1, <2>2, ReadKeepsInv
<1>4. CASE RouteConnector(r)
  <2>1. /\ NothingStored /\ request[r].op = "connector"
        /\ \/ Answer(r)
           \/ Goto(r, "read", deployment) /\ deployment # None /\ HistoryReady(deployment)
    BY <1>4, Zenon DEF RouteConnector, ReadDeployment, At
  <2>2. deployment # None /\ HistoryReady(deployment) =>
          KnowsThen(After(r, "read", deployment))
    BY <1>k, <2>1, DeploymentRead DEF Knows
  <2>3. QED  BY <2>1, <2>2, ReadKeepsInv
<1>5. CASE ReadForConnector(r)
  <2>1. /\ NothingStored /\ request[r].op = "connector" /\ request[r].at = "read"
        /\ Answer(r) \/ (Goto(r, "write", deployment) /\ deployment # None)
    BY <1>5, Zenon DEF ReadForConnector, ReadDeployment, At
  <2>2. deployment # None =>
          KnowsThen(After(r, "write", deployment))
    BY <1>k, <2>1, DeploymentRead DEF Knows
  <2>3. QED  BY <2>1, <2>2, ReadKeepsInv
<1>6. CASE ReadForHistory(r)
  <2>1. /\ NothingStored /\ request[r].op = "history"
        /\ Answer(r) \/ (Goto(r, "find", deployment) /\ deployment # None)
    BY <1>6, Zenon DEF ReadForHistory, ReadDeployment, At
  <2>2. deployment # None =>
          KnowsThen(After(r, "find", deployment))
    BY <1>k, <2>1, DeploymentRead DEF Knows
  <2>3. QED  BY <2>1, <2>2, ReadKeepsInv
<1>7. CASE RouteSource(r)
  <2>1. /\ NothingStored /\ request[r].op = "source"
        /\ \/ Answer(r)
           \/ Goto(r, "read", deployment) /\ deployment # None /\ HistoryReady(deployment)
    BY <1>7, Zenon DEF RouteSource, ReadDeployment, At
  <2>2. deployment # None /\ HistoryReady(deployment) =>
          KnowsThen(After(r, "read", deployment))
    BY <1>k, <2>1, DeploymentRead DEF Knows
  <2>3. QED  BY <2>1, <2>2, ReadKeepsInv
<1>8. CASE ReadForSource(r)
  <2>1. /\ NothingStored /\ request[r].op = "source" /\ request[r].at = "read"
        /\ Answer(r) \/ (Goto(r, "find", deployment) /\ deployment # None)
    BY <1>8, Zenon DEF ReadForSource, ReadDeployment, At
  <2>2. deployment # None =>
          KnowsThen(After(r, "find", deployment))
    BY <1>k, <2>1, DeploymentRead DEF Knows
  <2>3. QED  BY <2>1, <2>2, ReadKeepsInv
<1>9. QED  BY <1>1, <1>2, <1>3, <1>4, <1>5, <1>6, <1>7, <1>8

\* The other reads: the initialized companies, an earlier copy of the upload, the artifact
\* under review, and what the payroll run is prepared from.
LEMMA OtherReads ==
  ASSUME IntakeInv, NEW r \in Requests,
         \/ ReadInitialization(r) \/ FindUpload(r) \/ LoadArtifact(r)
         \/ RoutePayroll(r) \/ PreparePayroll(r)
  PROVE  IntakeInv'
<1>k. KnowsThen(request[r])
  BY DEF IntakeInv, KnowsNow, KnowsThen
<1> USE DEF KnowsThen, After, In
<1>1. CASE ReadInitialization(r)
  <2> DEFINE label == IF RealData THEN "register" ELSE "record"
  <2>1. NothingStored /\ request[r].op = "initialize" /\ (Answer(r) \/ Goto(r, label, None))
    BY <1>1, Zenon DEF ReadInitialization, At
  <2>2. KnowsThen(After(r, label, None))
    BY <1>k, <2>1 DEF Knows
  <2>3. QED  BY <2>1, <2>2, ReadKeepsInv
<1>2. CASE FindUpload(r)
  <2>1. /\ NothingStored /\ request[r].op \in {"history", "source"} /\ request[r].at = "find"
        /\ Answer(r) \/ Goto(r, "store", request[r].seen)
    BY <1>2, Zenon DEF FindUpload, At, Seen
  <2>2. KnowsThen(After(r, "store", request[r].seen))
    BY <1>k, <2>1 DEF Knows
  <2>3. QED  BY <2>1, <2>2, ReadKeepsInv
<1>3. CASE LoadArtifact(r)
  <2> DEFINE ready == policy = "MANUAL_REVIEW" /\ upload[In(r).upload] = "QUARANTINED"
  <2>1. /\ NothingStored /\ request[r].op = "review"
        /\ Answer(r) \/ (Goto(r, "claim", None) /\ ready)
    BY <1>3, Zenon DEF LoadArtifact, At
  <2>2. ready => KnowsThen(After(r, "claim", None))
    BY <1>k, <2>1, IntakeAssumption DEF Knows, UploadStatuses
  <2>3. QED  BY <2>1, <2>2, ReadKeepsInv
<1>4. CASE RoutePayroll(r)
  <2> DEFINE scoped == [scoped |-> deployment.company]
  <2>1. /\ NothingStored /\ request[r].op = "payroll"
        /\ Answer(r) \/ (Goto(r, "prepare", scoped) /\ deployment # None)
    BY <1>4, Zenon DEF RoutePayroll, At
  <2>2. deployment # None => KnowsThen(After(r, "prepare", scoped))
    BY <1>k, <2>1 DEF Knows
  <2>3. QED  BY <2>1, <2>2, ReadKeepsInv
<1>5. CASE PreparePayroll(r)
  <2> DEFINE both == [scoped |-> Seen(r).scoped, company |-> deployment.company]
  <2>1. /\ NothingStored /\ request[r].op = "payroll" /\ request[r].at = "prepare"
        /\ \/ Answer(r)
           \/ CanPreparePayroll(deployment) /\ Goto(r, "find", both)
    BY <1>5, Zenon DEF PreparePayroll, At
  <2>2. /\ deployment # None
        /\ CanPreparePayroll(deployment) => deployment.company # None /\ HistoryReady(deployment)
    BY <1>k, <2>1 DEF CanPreparePayroll, Knows
  <2>3. CanPreparePayroll(deployment) => KnowsThen(After(r, "find", both))
    BY <1>k, <2>1, <2>2, DeploymentRead DEF Knows
  <2>4. QED  BY <2>1, <2>3, ReadKeepsInv
<1>6. QED  BY <1>1, <1>2, <1>3, <1>4, <1>5

\* A request arrives with what it was called with.
LEMMA ReceiveStep ==
  ASSUME IntakeInv, NEW r \in Requests, ReceiveIntake(r)
  PROVE  IntakeInv'
<1>1. StoresAreTyped' /\ StoresAreGood' /\ Progress
  BY ReadsKeepStores DEF ReceiveIntake
<1>2. ASSUME NEW op, NEW label, NEW in, Receive(r, op, label, in),
             KnowsThen([op |-> op, at |-> label, in |-> in, seen |-> None])
      PROVE  IntakeInv'
  <2>1. MovesTo(r, op, label, None) /\ request'[r].in = in
    BY <1>2, ReceiveMoves DEF IntakeInv
  <2>2. request'[r] = [op |-> op, at |-> label, in |-> in, seen |-> None]
    BY <2>1 DEF MovesTo
  <2>3. Knows(request'[r], initialized', registered', ClearedUploads', (deployment # None)',
              upload', claim', payrollRun')
    BY <1>1, <1>2, <2>2, KnowledgeStays DEF KnowsThen
  <2>4. policy' = policy
    BY <1>1 DEF Progress
  <2>5. KnowsNow(r)'
    BY <2>3, <2>4 DEF KnowsNow, Knows, RealData
  <2>6. QED  BY <1>1, <2>1, <2>5, MoveKeepsInv
<1> USE DEF KnowsThen, Knows
<1>3. ASSUME NEW c \in Companies,
             Receive(r, "initialize", "read", c) \/ Receive(r, "link", "read", c)
      PROVE  IntakeInv'
  BY <1>2, <1>3
<1>4. ASSUME NEW s \in Services, NEW k \in Countries \cup {None},
             Receive(r, "start", "write", [service |-> s, country |-> k])
      PROVE  IntakeInv'
  BY <1>2, <1>4
<1>5. ASSUME NEW k \in Countries \cup {None}, Receive(r, "configure", "read", k)
      PROVE  IntakeInv'
  BY <1>2, <1>5
<1>6. ASSUME NEW k \in Connectors, Receive(r, "connector", "route", k)
      PROVE  IntakeInv'
  BY <1>2, <1>6
<1>7. ASSUME NEW h \in Histories, Receive(r, "history", "read", h)
      PROVE  IntakeInv'
  BY <1>2, <1>7
<1>8. ASSUME NEW s \in Sources, Receive(r, "source", "route", s)
      PROVE  IntakeInv'
  BY <1>2, <1>8
<1>9. ASSUME NEW u \in Uploads, NEW decision \in Decisions,
             Receive(r, "review", "load", [upload |-> u, decision |-> decision])
      PROVE  IntakeInv'
  BY <1>2, <1>9
<1>10. ASSUME NEW i \in PayrollInputs, Receive(r, "payroll", "route", i)
       PROVE  IntakeInv'
  BY <1>2, <1>10
<1>11. ASSUME Receive(r, "skip", "read", None)
       PROVE  IntakeInv'
  BY <1>2, <1>11
<1> HIDE DEF KnowsThen, Knows
<1>12. QED
  BY <1>3, <1>4, <1>5, <1>6, <1>7, <1>8, <1>9, <1>10, <1>11, Zenon
     DEF ReceiveIntake, ReceiveReview

-----------------------------------------------------------------------------
(* The steps that write the deployment *)

\* What is written in place of a deployment is earned already.
LEMMA DeploymentWritten ==
  ASSUME IntakeInv, NEW d \in Deployments, Earned(d, ClearedUploads, initialized),
         SetDeployment(d)
  PROVE  StoresAreTyped' /\ StoresAreGood' /\ Progress
<1>1. /\ policy' = policy /\ registered' = registered /\ initialized' = initialized
      /\ deployment' = d /\ upload' = upload /\ claim' = claim
      /\ payrollRun' = payrollRun /\ ledgerRun' = ledgerRun
  BY DEF SetDeployment, companyVars, uploadVars, runVars
<1>2. ClearedUploads' = ClearedUploads
  BY <1>1 DEF ClearedUploads, Cleared, Applied, RealData
<1>3. StoresAreTyped'
  BY <1>1 DEF IntakeInv, StoresAreTyped
<1>4. deployment' # None
  BY <1>1, IntakeAssumption
<1>5. UploadsAreGood' /\ RunsAreGood'
  BY <1>1, <1>2, <1>4 DEF IntakeInv, StoresAreGood, UploadsAreGood, UploadIsGood, RunsAreGood,
                          RealData, Done
<1>6. Earned(deployment', ClearedUploads', initialized')
  BY <1>1, <1>2
<1>7. Earned(deployment', ClearedUploads', initialized')
      <=> Earned(deployment, ClearedUploads, initialized)'
  BY DEF Earned, Done, HistoryReady
<1>8. StoresAreGood'
  BY <1>1, <1>5, <1>6, <1>7 DEF IntakeInv, StoresAreGood, RealData
<1>9. QED  BY <1>1, <1>2, <1>3, <1>4, <1>8 DEF Progress

\* A request that wrote the deployment is answered.
LEMMA DeploymentWriteStep ==
  ASSUME IntakeInv, NEW r \in Requests, NEW d \in Deployments,
         Earned(d, ClearedUploads, initialized), SetDeployment(d), Answer(r)
  PROVE  IntakeInv'
BY DeploymentWritten, AnswerKeepsInv DEF Answer

\* A deployment with the fields that what it earned is read from.
Shows(d, company, history, connector, latestSource, latestHistory) ==
  /\ d \in Deployments
  /\ d.company = company /\ d.history = history /\ d.connector = connector
  /\ d.latestSource = latestSource /\ d.latestHistory = latestHistory

\* The field company alone is written.
LEMMA DeploymentCompany ==
  ASSUME NEW d \in Deployments, NEW x \in Companies \cup {None}, NEW n,
         n = [d EXCEPT !.company = x]
  PROVE  Shows(n, x, d.history, d.connector, d.latestSource, d.latestHistory)
BY DEF Deployments, Shows

\* The field country alone is written.
LEMMA DeploymentCountry ==
  ASSUME NEW d \in Deployments, NEW x \in Countries \cup {None}, NEW n,
         n = [d EXCEPT !.country = x]
  PROVE  Shows(n, d.company, d.history, d.connector, d.latestSource, d.latestHistory)
BY DEF Deployments, Shows

\* The field configured alone is written.
LEMMA DeploymentConfigured ==
  ASSUME NEW d \in Deployments, NEW x \in Countries \cup {None}, NEW n,
         n = [d EXCEPT !.configured = x]
  PROVE  Shows(n, d.company, d.history, d.connector, d.latestSource, d.latestHistory)
BY DEF Deployments, Shows

\* The field history alone is written.
LEMMA DeploymentHistory ==
  ASSUME NEW d \in Deployments, NEW x \in HistoryStatuses, NEW n,
         n = [d EXCEPT !.history = x]
  PROVE  Shows(n, d.company, x, d.connector, d.latestSource, d.latestHistory)
BY DEF Deployments, Shows

\* The field connector alone is written.
LEMMA DeploymentConnector ==
  ASSUME NEW d \in Deployments, NEW x \in Connectors, NEW n,
         n = [d EXCEPT !.connector = x]
  PROVE  Shows(n, d.company, d.history, x, d.latestSource, d.latestHistory)
BY DEF Deployments, Shows

\* The field latestSource alone is written.
LEMMA DeploymentLatestSource ==
  ASSUME NEW d \in Deployments, NEW x \in Sources, NEW n,
         n = [d EXCEPT !.latestSource = x]
  PROVE  Shows(n, d.company, d.history, d.connector, x, d.latestHistory)
BY DEF Deployments, Shows

\* The field latestHistory alone is written.
LEMMA DeploymentLatestHistory ==
  ASSUME NEW d \in Deployments, NEW x \in Histories, NEW n,
         n = [d EXCEPT !.latestHistory = x]
  PROVE  Shows(n, d.company, d.history, d.connector, d.latestSource, x)
BY DEF Deployments, Shows

\* The field count alone is written.
LEMMA DeploymentCount ==
  ASSUME NEW d \in Deployments, NEW x \in Nat, NEW n,
         n = [d EXCEPT !.count = x]
  PROVE  Shows(n, d.company, d.history, d.connector, d.latestSource, d.latestHistory)
BY DEF Deployments, Shows

\* What is added to a deployment is earned: a company that is initialized, the history step,
\* an upload that is cleared, whatever else is cleared by the same step.
LEMMA AddedIsEarned ==
  ASSUME IntakeInv, deployment # None, NEW cleared, ClearedUploads \subseteq cleared,
         NEW n, NEW company, NEW history, NEW connector, NEW latestSource, NEW latestHistory,
         Shows(n, company, history, connector, latestSource, latestHistory),
         company = deployment.company \/ company \in initialized,
         \/ history = deployment.history \/ history = "QUARANTINED_REVIEW_REQUIRED"
         \/ history = "RECEIVED" /\ latestHistory \in Histories \cap cleared
         \/ history = "NOT_APPLICABLE_NEW_COMPANY" /\ Done(ClearedUploads, initialized),
         latestHistory = deployment.latestHistory \/ latestHistory \in cleared,
         connector = deployment.connector \/ Done(ClearedUploads, initialized),
         \/ latestSource = deployment.latestSource
         \/ latestSource \in cleared /\ Done(ClearedUploads, initialized)
  PROVE  Earned(n, cleared, initialized)
<1>1. n.company = company /\ n.history = history /\ n.connector = connector
      /\ n.latestSource = latestSource /\ n.latestHistory = latestHistory
  BY DEF Shows
<1>2. Earned(deployment, cleared, initialized)
  BY DeploymentRead, EarnedStays
<1>3. Done(ClearedUploads, initialized) => Done(cleared, initialized)
  BY DoneStays
<1>4. history = "RECEIVED" /\ latestHistory \in Histories \cap cleared
        => Histories \cap cleared # {} /\ Done(cleared, initialized)
  BY DEF Done
<1>5. n.company # None => n.company \in initialized
  BY <1>1, <1>2 DEF Earned
<1>6. n.history = "RECEIVED" => Histories \cap cleared # {}
  BY <1>1, <1>2, <1>4 DEF Earned
<1>7. HistoryReady(n) => Done(cleared, initialized)
  BY <1>1, <1>2, <1>3, <1>4 DEF Earned, HistoryReady
<1>8. n.connector # None => Done(cleared, initialized)
  BY <1>1, <1>2, <1>3 DEF Earned
<1>9. n.latestSource # None => n.latestSource \in cleared /\ Done(cleared, initialized)
  BY <1>1, <1>2, <1>3 DEF Earned
<1>10. n.latestHistory # None => n.latestHistory \in cleared
  BY <1>1, <1>2 DEF Earned
<1>11. QED  BY <1>5, <1>6, <1>7, <1>8, <1>9, <1>10 DEF Earned

\* The same for a step that clears nothing.
LEMMA AddedStep ==
  ASSUME IntakeInv, deployment # None, NEW r \in Requests, NEW n,
         NEW company, NEW history, NEW connector,
         Shows(n, company, history, connector, deployment.latestSource,
               deployment.latestHistory),
         company = deployment.company \/ company \in initialized,
         \/ history = deployment.history
         \/ history = "NOT_APPLICABLE_NEW_COMPANY" /\ Done(ClearedUploads, initialized),
         connector = deployment.connector \/ Done(ClearedUploads, initialized),
         SetDeployment(n), Answer(r)
  PROVE  IntakeInv'
<1>1. Earned(n, ClearedUploads, initialized)
  BY AddedIsEarned
<1>2. n \in Deployments
  BY DEF Shows
<1>3. QED  BY <1>1, <1>2, DeploymentWriteStep

\* Registration makes a deployment that shows nothing.
LEMMA StartStep ==
  ASSUME IntakeInv, NEW r \in Requests, StartDeployment(r)
  PROVE  IntakeInv'
<1> DEFINE d == [service |-> In(r).service, country |-> In(r).country,
                 configured |-> None, company |-> None, history |-> None, count |-> 0,
                 latestHistory |-> None, connector |-> None, latestSource |-> None]
<1>1. Answer(r) /\ (NothingStored \/ SetDeployment(d)) /\ request[r].op = "start"
  BY Zenon DEF StartDeployment, At
<1>2. In(r).service \in Services /\ In(r).country \in Countries \cup {None}
  BY <1>1 DEF IntakeInv, KnowsNow, Knows, In
<1>3. d \in Deployments
  BY <1>2 DEF Deployments
<1>4. CASE NothingStored
  BY <1>1, <1>4, ReadsKeepStores, AnswerKeepsInv DEF Answer
<1>5. CASE SetDeployment(d)
  <2>1. None \notin HistoryStatuses
    BY IntakeAssumption
  <2>2. Earned(d, ClearedUploads, initialized)
    BY <2>1 DEF Earned, HistoryReady, HistoryStatuses
  <2>3. QED  BY <1>1, <1>3, <1>5, <2>2, DeploymentWriteStep
<1>6. QED  BY <1>1, <1>4, <1>5

\* The company of a link is initialized, and its country one of COUNTRIES.
LEMMA LinkStep ==
  ASSUME IntakeInv, NEW r \in Requests, LinkCompany(r)
  PROVE  IntakeInv'
<1> DEFINE country == CountryOf[In(r)]
<1> DEFINE a == [deployment EXCEPT !.company = In(r)]
<1> DEFINE b == [a EXCEPT !.country = country]
<1> DEFINE n == [b EXCEPT !.configured = country]
<1>1. request[r].op = "link" /\ request[r].at = "write" /\ Answer(r)
  BY Zenon DEF LinkCompany, At
<1>2. deployment # None /\ In(r) \in Companies /\ In(r) \in initialized
  BY <1>1 DEF IntakeInv, KnowsNow, Knows, In
<1>3. deployment \in Deployments /\ country \in Countries \cup {None}
  BY <1>2, DeploymentRead, IntakeAssumption
<1> HIDE DEF country
<1>4. Shows(a, In(r), deployment.history, deployment.connector, deployment.latestSource,
            deployment.latestHistory)
  BY <1>2, <1>3, DeploymentCompany
<1> HIDE DEF a
<1>5. Shows(b, In(r), deployment.history, deployment.connector, deployment.latestSource,
            deployment.latestHistory)
  BY <1>3, <1>4, DeploymentCountry DEF Shows
<1> HIDE DEF b
<1>6. Shows(n, In(r), deployment.history, deployment.connector, deployment.latestSource,
            deployment.latestHistory)
  BY <1>3, <1>5, DeploymentConfigured DEF Shows
<1>7. SetDeployment(n)
  <2>1. [deployment EXCEPT !.company = In(r), !.country = CountryOf[In(r)],
                           !.configured = CountryOf[In(r)]] = n
    BY <1>3 DEF n, b, a, country, Deployments
  <2>2. QED  BY <2>1, Zenon DEF LinkCompany
<1> HIDE DEF n
<1>8. QED  BY <1>1, <1>2, <1>6, <1>7, AddedStep

\* A configuration changes no step.
LEMMA ConfigureStep ==
  ASSUME IntakeInv, NEW r \in Requests, SaveConfiguration(r)
  PROVE  IntakeInv'
<1> DEFINE sent == IF In(r) # None THEN In(r) ELSE Seen(r).country
<1> DEFINE configured == IF NeedsCountry(Seen(r).service) THEN sent ELSE None
<1> DEFINE country == IF configured # None THEN configured ELSE Seen(r).country
<1> DEFINE a == [deployment EXCEPT !.configured = configured]
<1> DEFINE n == [a EXCEPT !.country = country]
<1>1. request[r].op = "configure" /\ request[r].at = "write" /\ Answer(r)
  BY Zenon DEF SaveConfiguration, At
<1>2. deployment # None /\ In(r) \in Countries \cup {None} /\ Seen(r) \in Deployments
  BY <1>1 DEF IntakeInv, KnowsNow, Knows, In, Seen
<1>3. Seen(r).country \in Countries \cup {None}
  BY <1>2 DEF Deployments
<1>4. configured \in Countries \cup {None} /\ country \in Countries \cup {None}
  BY <1>2, <1>3
<1>5. SetDeployment([deployment EXCEPT !.configured = configured, !.country = country])
  BY Zenon DEF SaveConfiguration
<1> HIDE DEF sent, configured, country
<1>6. deployment \in Deployments
  BY <1>2, DeploymentRead
<1>7. Shows(a, deployment.company, deployment.history, deployment.connector,
            deployment.latestSource, deployment.latestHistory)
  BY <1>4, <1>6, DeploymentConfigured
<1>8. [deployment EXCEPT !.configured = configured, !.country = country] = n
  BY <1>6 DEF Deployments
<1> HIDE DEF a
<1>9. Shows(n, deployment.company, deployment.history, deployment.connector,
            deployment.latestSource, deployment.latestHistory)
  BY <1>4, <1>7, DeploymentCountry DEF Shows
<1>10. SetDeployment(n)
  BY <1>5, <1>8
<1> HIDE DEF n
<1>11. QED  BY <1>1, <1>2, <1>9, <1>10, AddedStep

\* History is skipped for a new company.
LEMMA SkipStep ==
  ASSUME IntakeInv, NEW r \in Requests, SkipHistory(r)
  PROVE  IntakeInv'
<1> DEFINE n == [deployment EXCEPT !.history = "NOT_APPLICABLE_NEW_COMPANY"]
<1>1. request[r].op = "skip" /\ request[r].at = "write" /\ Answer(r) /\ SetDeployment(n)
  BY Zenon DEF SkipHistory, At
<1>2. deployment # None /\ Done(ClearedUploads, initialized)
  BY <1>1 DEF IntakeInv, KnowsNow, Knows
<1>3. Shows(n, deployment.company, "NOT_APPLICABLE_NEW_COMPANY", deployment.connector,
            deployment.latestSource, deployment.latestHistory)
  BY <1>2, DeploymentRead, DeploymentHistory DEF HistoryStatuses
<1> HIDE DEF n
<1>4. QED  BY <1>1, <1>2, <1>3, AddedStep

\* A connector is selected after the history step.
LEMMA ConnectorStep ==
  ASSUME IntakeInv, NEW r \in Requests, SelectConnector(r)
  PROVE  IntakeInv'
<1> DEFINE n == [deployment EXCEPT !.connector = In(r)]
<1>1. request[r].op = "connector" /\ request[r].at = "write" /\ Answer(r) /\ SetDeployment(n)
  BY Zenon DEF SelectConnector, At
<1>2. deployment # None /\ Done(ClearedUploads, initialized) /\ In(r) \in Connectors
  BY <1>1 DEF IntakeInv, KnowsNow, Knows, In
<1>3. Shows(n, deployment.company, deployment.history, In(r),
            deployment.latestSource, deployment.latestHistory)
  BY <1>2, DeploymentRead, DeploymentConnector
<1> HIDE DEF n
<1>4. QED  BY <1>1, <1>2, <1>3, AddedStep

-----------------------------------------------------------------------------
(* The steps that write uploads *)

\* An upload is stored, cleared at once in LAB, and the deployment shows what was earned.
LEMMA UploadStored ==
  ASSUME IntakeInv, NEW r \in Requests, NEW u \in Uploads, deployment # None,
         u \in Histories \/ Done(ClearedUploads, initialized),
         upload' = [upload EXCEPT ![u] = UploadStatus],
         NEW n \in Deployments, deployment' = n,
         Earned(n, IF RealData THEN ClearedUploads ELSE ClearedUploads \cup {u}, initialized),
         Answer(r), UNCHANGED <<companyVars, claim, runVars>>
  PROVE  IntakeInv'
<1> DEFINE cleared == IF RealData THEN ClearedUploads ELSE ClearedUploads \cup {u}
<1>1. /\ policy' = policy /\ registered' = registered /\ initialized' = initialized
      /\ claim' = claim /\ payrollRun' = payrollRun /\ ledgerRun' = ledgerRun
      /\ (RealData' <=> RealData)
  BY DEF companyVars, runVars, RealData
<1>2. upload \in [Uploads -> UploadStatuses \cup {None}] /\ UploadStatus \in UploadStatuses
  BY DEF IntakeInv, StoresAreTyped, UploadStatus, UploadStatuses
<1>3. upload'[u] = UploadStatus /\ \A v \in Uploads \ {u} : upload'[v] = upload[v]
  BY <1>2
<1>4. ClearedUploads' = cleared
  <2>1. ASSUME NEW v \in Uploads
        PROVE  Cleared(v)' <=> v \in cleared
    <3>1. CASE RealData
      BY <1>1, <3>1 DEF Cleared, Applied, ClearedUploads
    <3>2. CASE ~RealData
      BY <1>1, <1>3, <3>2 DEF Cleared, ClearedUploads, UploadStatus
    <3>3. QED  BY <3>1, <3>2
  <2>2. cleared \subseteq Uploads
    BY DEF ClearedUploads
  <2>3. QED  BY <2>1, <2>2 DEF ClearedUploads
<1>5. ClearedUploads \subseteq cleared
  OBVIOUS
<1> HIDE DEF cleared
<1>6. Done(ClearedUploads, initialized) => Done(cleared, initialized)
  BY <1>5, DoneStays
<1>7. deployment' # None
  BY IntakeAssumption
<1>8. StoresAreTyped'
  BY <1>1, <1>2 DEF IntakeInv, StoresAreTyped
<1>9. \A v \in Uploads : UploadIsGood(upload'[v], claim'[v], v \in Histories,
                                       Done(cleared, initialized), TRUE)
  <2>1. ASSUME NEW v \in Uploads \ {u}
        PROVE  UploadIsGood(upload'[v], claim'[v], v \in Histories,
                            Done(cleared, initialized), TRUE)
    BY <1>1, <1>3, <1>6 DEF IntakeInv, StoresAreGood, UploadsAreGood, UploadIsGood
  <2>2. UploadIsGood(upload'[u], claim'[u], u \in Histories, Done(cleared, initialized), TRUE)
    BY <1>1, <1>3, <1>6
       DEF IntakeInv, StoresAreGood, UploadsAreGood, UploadIsGood, UploadStatus, RealData
  <2>3. QED  BY <2>1, <2>2
<1>10. UploadsAreGood'
  BY <1>1, <1>4, <1>7, <1>9 DEF UploadsAreGood, UploadIsGood, Done
<1>11. RunsAreGood'
  BY <1>1, <1>4, <1>6 DEF IntakeInv, StoresAreGood, RunsAreGood, Done
<1>12. Earned(deployment, ClearedUploads, initialized)'
  BY <1>1, <1>4 DEF cleared, Earned, Done, HistoryReady
<1>13. StoresAreGood'
  BY <1>1, <1>10, <1>11, <1>12 DEF IntakeInv, StoresAreGood
<1>14. Progress
  <2>1. \A v \in Uploads : upload[v] # None => upload'[v] # None
    BY <1>2, <1>3, IntakeAssumption
  <2>2. QED  BY <1>1, <1>4, <1>5, <1>7, <2>1 DEF Progress
<1>15. QED  BY <1>8, <1>13, <1>14, AnswerKeepsInv DEF Answer

\* History is stored.
LEMMA StoreHistoryStep ==
  ASSUME IntakeInv, NEW r \in Requests, StoreHistory(r)
  PROVE  IntakeInv'
<1> DEFINE h == In(r)
<1> DEFINE cleared == IF RealData THEN ClearedUploads ELSE ClearedUploads \cup {h}
<1>1. /\ request[r].op = "history" /\ request[r].at = "store" /\ Answer(r)
      /\ upload' = [upload EXCEPT ![h] = UploadStatus]
      /\ UNCHANGED <<companyVars, claim, runVars>>
      /\ deployment' = IF RealData
                       THEN [deployment EXCEPT !.history = "QUARANTINED_REVIEW_REQUIRED"]
                       ELSE [deployment EXCEPT !.history = "RECEIVED",
                                               !.count = Seen(r).count + 1, !.latestHistory = h]
  BY Zenon DEF StoreHistory, At
<1>2. deployment # None /\ h \in Histories /\ Seen(r) \in Deployments
  BY <1>1 DEF IntakeInv, KnowsNow, Knows, In, Seen
<1>3. deployment \in Deployments /\ h \in Uploads /\ Seen(r).count + 1 \in Nat
  BY <1>2, DeploymentRead DEF Uploads, Deployments
<1> DEFINE count == Seen(r).count + 1
<1> HIDE DEF count, h
<1>4. ASSUME NEW n \in Deployments, deployment' = n, Earned(n, cleared, initialized)
      PROVE  IntakeInv'
  BY <1>1, <1>2, <1>3, <1>4, UploadStored DEF h
<1>5. CASE RealData
  <2> DEFINE n == [deployment EXCEPT !.history = "QUARANTINED_REVIEW_REQUIRED"]
  <2>1. Shows(n, deployment.company, "QUARANTINED_REVIEW_REQUIRED", deployment.connector,
              deployment.latestSource, deployment.latestHistory)
    BY <1>3, DeploymentHistory DEF HistoryStatuses
  <2>2. deployment' = n
    BY <1>1, <1>5
  <2> HIDE DEF n
  <2>3. Earned(n, cleared, initialized)
    BY <1>2, <1>5, <2>1, AddedIsEarned
  <2>4. QED  BY <1>4, <2>1, <2>2, <2>3 DEF Shows
<1>6. CASE ~RealData
  <2> DEFINE a == [deployment EXCEPT !.history = "RECEIVED"]
  <2> DEFINE b == [a EXCEPT !.count = count]
  <2> DEFINE n == [b EXCEPT !.latestHistory = h]
  <2>1. deployment' = n
    BY <1>1, <1>3, <1>6 DEF Deployments, count, h
  <2>2. Shows(a, deployment.company, "RECEIVED", deployment.connector, deployment.latestSource,
              deployment.latestHistory)
    BY <1>3, DeploymentHistory DEF HistoryStatuses
  <2> HIDE DEF a
  <2>3. Shows(b, deployment.company, "RECEIVED", deployment.connector, deployment.latestSource,
              deployment.latestHistory)
    BY <1>3, <2>2, DeploymentCount DEF Shows, count
  <2> HIDE DEF b
  <2>4. Shows(n, deployment.company, "RECEIVED", deployment.connector, deployment.latestSource, h)
    BY <1>2, <2>3, DeploymentLatestHistory DEF Shows
  <2> HIDE DEF n
  <2>5. h \in Histories \cap cleared /\ ClearedUploads \subseteq cleared
    BY <1>2, <1>6
  <2> HIDE DEF cleared
  <2>6. Earned(n, cleared, initialized)
    BY <1>2, <2>4, <2>5, AddedIsEarned
  <2>7. QED  BY <1>4, <2>1, <2>4, <2>6 DEF Shows
<1>7. QED  BY <1>5, <1>6

\* A source is stored, after the history step.
LEMMA StoreSourceStep ==
  ASSUME IntakeInv, NEW r \in Requests, StoreSource(r)
  PROVE  IntakeInv'
<1> DEFINE x == In(r)
<1> DEFINE cleared == IF RealData THEN ClearedUploads ELSE ClearedUploads \cup {x}
<1>1. /\ request[r].op = "source" /\ request[r].at = "store" /\ Answer(r)
      /\ upload' = [upload EXCEPT ![x] = UploadStatus]
      /\ UNCHANGED <<companyVars, claim, runVars>>
      /\ deployment' = IF RealData THEN deployment ELSE [deployment EXCEPT !.latestSource = x]
  BY Zenon DEF StoreSource, At
<1>2. deployment # None /\ x \in Sources /\ Done(ClearedUploads, initialized)
  BY <1>1 DEF IntakeInv, KnowsNow, Knows, In
<1>3. deployment \in Deployments /\ x \in Uploads
  BY <1>2, DeploymentRead DEF Uploads
<1> HIDE DEF x
<1>4. ASSUME NEW n \in Deployments, deployment' = n, Earned(n, cleared, initialized)
      PROVE  IntakeInv'
  BY <1>1, <1>2, <1>3, <1>4, UploadStored
<1>5. CASE RealData
  BY <1>1, <1>2, <1>3, <1>4, <1>5, DeploymentRead
<1>6. CASE ~RealData
  <2> DEFINE n == [deployment EXCEPT !.latestSource = x]
  <2>1. deployment' = n
    BY <1>1, <1>6
  <2>2. Shows(n, deployment.company, deployment.history, deployment.connector, x,
              deployment.latestHistory)
    BY <1>2, <1>3, DeploymentLatestSource
  <2> HIDE DEF n
  <2>3. x \in cleared /\ ClearedUploads \subseteq cleared
    BY <1>6
  <2> HIDE DEF cleared
  <2>4. Earned(n, cleared, initialized)
    BY <1>2, <2>2, <2>3, AddedIsEarned
  <2>5. QED  BY <1>4, <2>1, <2>2, <2>4 DEF Shows
<1>7. QED  BY <1>5, <1>6

-----------------------------------------------------------------------------
(* The steps of a review *)

\* Only claims change, and none loses its decision or what was applied: nothing else is
\* taken back.
ClaimsMove ==
  /\ claim' \in [Uploads -> Claims \cup {None}]
  /\ \A u \in Uploads :
       /\ claim[u] # None => /\ claim'[u] # None
                             /\ claim'[u].decision = claim[u].decision
                             /\ claim'[u].effects = claim[u].effects
       /\ claim[u] = None /\ claim'[u] # None =>
            /\ policy = "MANUAL_REVIEW" /\ upload[u] # None
            /\ claim'[u].effects = "PENDING"
  /\ UNCHANGED <<companyVars, deployment, upload, runVars>>

\* Claims that move clear nothing.
LEMMA ClaimsKeepStores ==
  ASSUME IntakeInv, ClaimsMove
  PROVE  StoresAreTyped' /\ StoresAreGood' /\ Progress
<1>1. /\ policy' = policy /\ registered' = registered /\ initialized' = initialized
      /\ deployment' = deployment /\ upload' = upload
      /\ payrollRun' = payrollRun /\ ledgerRun' = ledgerRun /\ (RealData' <=> RealData)
  BY DEF ClaimsMove, companyVars, runVars, RealData
<1>2. ClearedUploads' = ClearedUploads
  <2>1. ASSUME NEW u \in Uploads
        PROVE  Cleared(u)' <=> Cleared(u)
    BY <1>1 DEF ClaimsMove, Cleared, Applied
  <2>2. QED  BY <2>1 DEF ClearedUploads
<1>3. StoresAreTyped'
  BY <1>1 DEF IntakeInv, StoresAreTyped, ClaimsMove
<1>4. ASSUME NEW u \in Uploads, NEW done, NEW has,
             UploadIsGood(upload[u], claim[u], u \in Histories, done, has)
      PROVE  UploadIsGood(upload[u], claim'[u], u \in Histories, done, has)
  <2>1. claim[u] = None /\ claim'[u] # None => upload[u] = "QUARANTINED"
    BY <1>4 DEF ClaimsMove, UploadIsGood, RealData
  <2>2. QED  BY <1>4, <2>1 DEF ClaimsMove, UploadIsGood
<1>5. UploadsAreGood'
  <2>1. ASSUME NEW u \in Uploads
        PROVE  UploadIsGood(upload'[u], claim'[u], u \in Histories,
                            Done(ClearedUploads, initialized), deployment # None)
    BY <1>1, <1>4 DEF IntakeInv, StoresAreGood, UploadsAreGood
  <2>2. QED  BY <1>1, <1>2, <2>1 DEF UploadsAreGood, UploadIsGood, Done
<1>6. RunsAreGood'
  BY <1>1, <1>2 DEF IntakeInv, StoresAreGood, RunsAreGood, Done
<1>7. (deployment # None => Earned(deployment, ClearedUploads, initialized))'
  BY <1>1, <1>2 DEF IntakeInv, StoresAreGood, Earned, HistoryReady, Done
<1>8. StoresAreGood'
  BY <1>1, <1>5, <1>6, <1>7 DEF IntakeInv, StoresAreGood
<1>9. QED  BY <1>1, <1>2, <1>3, <1>8 DEF Progress, ClaimsMove

\* Claims that stay are claims that move.
LEMMA StillClaims ==
  ASSUME IntakeInv, NothingStored
  PROVE  ClaimsMove
BY DEF IntakeInv, StoresAreTyped, ClaimsMove, NothingStored, intakeVars, uploadVars

\* A claim that is taken is pending, and one that exists keeps its decision.
LEMMA LeaseStep ==
  ASSUME IntakeInv, NEW r \in Requests, LeaseClaim(r)
  PROVE  IntakeInv' /\ ClaimsMove
<1> DEFINE u == In(r).upload
<1> DEFINE new == NewClaim(r)
<1>1. request[r].op = "review" /\ request[r].at = "claim"
  BY DEF LeaseClaim, At
<1>2. /\ u \in Uploads /\ In(r).decision \in Decisions /\ policy = "MANUAL_REVIEW"
      /\ upload[u] # None
  BY <1>1 DEF IntakeInv, KnowsNow, Knows, In
<1>3. CASE Answer(r) /\ NothingStored
  BY <1>3, StillClaims, ReadsKeepStores, AnswerKeepsInv DEF Answer
<1>4. CASE /\ claim[u] = None \/ MayLease(claim[u], r)
           /\ claim' = [claim EXCEPT ![u] = new] /\ Goto(r, "apply", None)
           /\ UNCHANGED <<companyVars, deployment, upload, runVars>>
  <2>0. new \in Claims
    BY <1>2 DEF NewClaim, Claims
  <2>1. new \in Claims /\ new # None /\ new.decision = In(r).decision /\ new.effects = "PENDING"
    BY <2>0, IntakeAssumption DEF NewClaim
  <2>2. claim \in [Uploads -> Claims \cup {None}]
    BY DEF IntakeInv, StoresAreTyped
  <2>3. claim[u] # None => claim[u].decision = In(r).decision /\ claim[u].effects = "PENDING"
    BY <1>4 DEF MayLease
  <2> HIDE DEF new, u
  <2>4. claim'[u] = new /\ \A v \in Uploads \ {u} : claim'[v] = claim[v]
    BY <1>2, <1>4, <2>2
  <2>5. claim' \in [Uploads -> Claims \cup {None}]
    BY <1>4, <2>1, <2>2
  <2>6. ClaimsMove
    BY <1>2, <1>4, <2>1, <2>3, <2>4, <2>5 DEF ClaimsMove
  <2>7. StoresAreTyped' /\ StoresAreGood' /\ Progress
    BY <2>6, ClaimsKeepStores
  <2>8. MovesTo(r, "review", "apply", None) /\ request'[r].in = request[r].in
    BY <1>1, <1>4, GotoMoves DEF IntakeInv
  <2>9. request'[r].op = "review" /\ request'[r].at = "apply"
    BY <2>8 DEF MovesTo
  <2>10. /\ request'[r].in.upload = u /\ request'[r].in.decision = In(r).decision
    BY <2>8 DEF u, In
  <2>11. KnowsNow(r)'
    BY <1>2, <2>1, <2>4, <2>9, <2>10 DEF KnowsNow, Knows
  <2>12. QED  BY <2>6, <2>7, <2>8, <2>11, MoveKeepsInv
<1>5. QED
  BY <1>3, <1>4, Zenon DEF LeaseClaim, NothingStored, uploadVars, intakeVars

\* A step that changes nothing of a claim but its lease.
LEMMA LeaseFields ==
  ASSUME NEW c \in Claims, NEW lease \in Requests \cup {None, "dead"}, NEW expired \in BOOLEAN,
         NEW n, n = [c EXCEPT !.lease = lease, !.expired = expired]
  PROVE  n \in Claims /\ n # None /\ n.decision = c.decision /\ n.effects = c.effects
BY IntakeAssumption DEF Claims

\* A failed update goes on where the lease is given back.
LEMMA FailStep ==
  ASSUME IntakeInv, NEW r \in Requests, FailReview(r)
  PROVE  IntakeInv'
<1>1. /\ request[r].op = "review" /\ request[r].at = "apply" /\ NothingStored
      /\ Rejected(r, "release", None)
  BY DEF FailReview, At
<1>2. StoresAreTyped' /\ StoresAreGood' /\ Progress
  BY <1>1, ReadsKeepStores
<1>3. MovesTo(r, "review", "release", None) /\ request'[r].in = request[r].in
  BY <1>1, RejectedMoves DEF IntakeInv
<1>4. request'[r].op = "review" /\ request'[r].at = "release"
  BY <1>3 DEF MovesTo
<1>5. /\ In(r).upload \in Uploads /\ In(r).decision \in Decisions
      /\ claim[In(r).upload] # None /\ claim[In(r).upload].decision = In(r).decision
  BY <1>1 DEF IntakeInv, KnowsNow, Knows, In
<1>6. claim' = claim
  BY <1>1 DEF NothingStored, intakeVars, uploadVars
<1>7. KnowsNow(r)'
  BY <1>3, <1>4, <1>5, <1>6 DEF KnowsNow, Knows, In
<1>8. QED  BY <1>2, <1>3, <1>7, MoveKeepsInv

\* The lease of one claim is given back, or runs out.
LEMMA OneLeaseMoves ==
  ASSUME IntakeInv, NEW u \in Uploads, claim[u] # None, NEW n, n \in Claims,
         n.decision = claim[u].decision, n.effects = claim[u].effects,
         claim' = [claim EXCEPT ![u] = n],
         UNCHANGED <<companyVars, deployment, upload, runVars>>
  PROVE  ClaimsMove
<1>1. claim \in [Uploads -> Claims \cup {None}] /\ n # None
  BY IntakeAssumption DEF IntakeInv, StoresAreTyped
<1>2. claim'[u] = n /\ \A v \in Uploads \ {u} : claim'[v] = claim[v]
  BY <1>1
<1>3. claim' \in [Uploads -> Claims \cup {None}]
  BY <1>1
<1>4. QED  BY <1>1, <1>2, <1>3 DEF ClaimsMove

\* Giving the lease back.
LEMMA ReleaseStep ==
  ASSUME IntakeInv, NEW r \in Requests, ReleaseLease(r)
  PROVE  IntakeInv' /\ ClaimsMove
<1> DEFINE u == In(r).upload
<1> DEFINE c == claim[u]
<1> DEFINE lease == IF c.lease = r THEN None ELSE c.lease
<1> DEFINE expired == c.lease # r /\ c.expired
<1> DEFINE n == [c EXCEPT !.lease = lease, !.expired = expired]
<1>1. /\ request[r].op = "review" /\ request[r].at = "release" /\ Answer(r)
      /\ claim' = [claim EXCEPT ![u].lease = IF @ = r THEN None ELSE @,
                                ![u].expired = c.lease # r /\ @]
      /\ UNCHANGED <<companyVars, deployment, upload, runVars>>
  BY Zenon DEF ReleaseLease, At
<1>2. u \in Uploads /\ c # None
  BY <1>1 DEF IntakeInv, KnowsNow, Knows, In
<1>3. claim \in [Uploads -> Claims \cup {None}] /\ c \in Claims
  BY <1>2 DEF IntakeInv, StoresAreTyped
<1>4. claim' = [claim EXCEPT ![u] = n]
  BY <1>1, <1>3 DEF Claims
<1>5. lease \in Requests \cup {None, "dead"} /\ expired \in BOOLEAN
  BY <1>3 DEF Claims
<1>6. n = [c EXCEPT !.lease = lease, !.expired = expired]
  OBVIOUS
<1> HIDE DEF lease, expired, c, n
<1>9. n \in Claims /\ n.decision = c.decision /\ n.effects = c.effects
  BY <1>3, <1>5, <1>6 DEF Claims
<1> USE DEF c
<1>10. ClaimsMove
  BY <1>1, <1>2, <1>4, <1>9, OneLeaseMoves
<1>11. QED  BY <1>1, <1>10, ClaimsKeepStores, AnswerKeepsInv DEF Answer

\* Two minutes pass.
LEMMA LeaseExpiresStep ==
  ASSUME IntakeInv, NEW u \in Uploads, LeaseExpires(u)
  PROVE  IntakeInv' /\ ClaimsMove
<1> DEFINE c == claim[u]
<1> DEFINE n == [c EXCEPT !.expired = TRUE]
<1>1. c # None /\ claim' = [claim EXCEPT ![u].expired = TRUE] /\ request' = request
      /\ UNCHANGED <<companyVars, deployment, upload, runVars>>
  BY DEF LeaseExpires
<1>2. claim \in [Uploads -> Claims \cup {None}] /\ c \in Claims
  BY <1>1 DEF IntakeInv, StoresAreTyped
<1>3. claim' = [claim EXCEPT ![u] = n]
  BY <1>1
<1>4. n = [c EXCEPT !.expired = TRUE]
  OBVIOUS
<1> HIDE DEF n, c
<1>5. n \in Claims /\ n.decision = c.decision /\ n.effects = c.effects
  BY <1>2, <1>4 DEF Claims
<1> USE DEF c
<1>6. ClaimsMove
  BY <1>1, <1>3, <1>5, OneLeaseMoves
<1>7. QED  BY <1>1, <1>6, ClaimsKeepStores, StillKeepsInv

\* A request that dies leaves its leases to nobody.
LEMMA DiesStep ==
  ASSUME IntakeInv, NEW r \in Requests, IntakeDies(r)
  PROVE  IntakeInv' /\ ClaimsMove
<1> DEFINE Dead(c) == [c EXCEPT !.lease = "dead"]
<1>1. /\ claim' = [u \in Uploads |-> IF claim[u] # None /\ claim[u].lease = r
                                     THEN Dead(claim[u]) ELSE claim[u]]
      /\ UNCHANGED <<companyVars, deployment, upload, runVars>>
      /\ request' = [request EXCEPT ![r] = IdleRequest]
  BY DEF IntakeDies, Die
<1>2. ASSUME NEW c \in Claims
      PROVE  Dead(c) \in Claims /\ Dead(c) # None /\ Dead(c).decision = c.decision
             /\ Dead(c).effects = c.effects
  <2>1. Dead(c) \in Claims /\ Dead(c).decision = c.decision /\ Dead(c).effects = c.effects
    BY DEF Claims
  <2>2. QED  BY <2>1, IntakeAssumption
<1> HIDE DEF Dead
<1>3. claim \in [Uploads -> Claims \cup {None}]
  BY DEF IntakeInv, StoresAreTyped
<1>4. claim' \in [Uploads -> Claims \cup {None}]
  BY <1>1, <1>2, <1>3
<1>5. ClaimsMove
  BY <1>1, <1>2, <1>3, <1>4 DEF ClaimsMove
<1>6. QED  BY <1>1, <1>5, ClaimsKeepStores, AnswerKeepsInv

\* The claim that a request applies is applied, and the upload cleared if it says so.
LEMMA ApplyClears ==
  ASSUME IntakeInv, NEW r \in Requests, ApplyReview(r)
  PROVE  LET u == In(r).upload IN
         /\ u \in Uploads /\ claim[u] \in Claims /\ claim[u] # None
         /\ claim[u].decision = In(r).decision /\ policy = "MANUAL_REVIEW" /\ deployment # None
         /\ claim' \in [Uploads -> Claims \cup {None}] /\ claim'[u] # None
         /\ claim'[u].decision = claim[u].decision /\ claim'[u].effects = "APPLIED"
         /\ \A v \in Uploads \ {u} : claim'[v] = claim[v] /\ upload'[v] = upload[v]
         /\ upload'[u] = StatusOf(claim[u].decision)
         /\ upload[u] \in {"QUARANTINED", StatusOf(claim[u].decision)}
         /\ u \in Histories \/ Done(ClearedUploads, initialized)
<1> DEFINE u == In(r).upload
<1> DEFINE c == claim[u]
<1> DEFINE n == [[[c EXCEPT !.effects = "APPLIED"] EXCEPT !.lease = None] EXCEPT !.expired = FALSE]
<1>1. /\ request[r].op = "review" /\ request[r].at = "apply"
      /\ upload' = [upload EXCEPT ![u] = StatusOf(In(r).decision)]
      /\ claim' = [claim EXCEPT ![u].effects = "APPLIED", ![u].lease = None, ![u].expired = FALSE]
  BY Zenon DEF ApplyReview, At
<1>2. u \in Uploads /\ c # None /\ c.decision = In(r).decision
  BY <1>1 DEF IntakeInv, KnowsNow, Knows, In
<1>3. /\ claim \in [Uploads -> Claims \cup {None}] /\ c \in Claims
      /\ upload \in [Uploads -> UploadStatuses \cup {None}]
  BY <1>2 DEF IntakeInv, StoresAreTyped
<1>4. claim' = [claim EXCEPT ![u] = n]
  BY <1>1, <1>2, <1>3
<1>5. n = [[[c EXCEPT !.effects = "APPLIED"] EXCEPT !.lease = None] EXCEPT !.expired = FALSE]
  OBVIOUS
<1>6. /\ policy = "MANUAL_REVIEW" /\ upload[u] \in {"QUARANTINED", StatusOf(c.decision)}
      /\ upload[u] # None => /\ deployment # None
                             /\ u \in Histories \/ Done(ClearedUploads, initialized)
  BY <1>2 DEF IntakeInv, StoresAreGood, UploadsAreGood, UploadIsGood
<1>7. upload[u] # None
  BY <1>6, IntakeAssumption DEF StatusOf, UploadStatuses
<1> HIDE DEF n, c
<1>8. n \in Claims /\ n.decision = c.decision /\ n.effects = "APPLIED"
  BY <1>3, <1>5 DEF Claims
<1>9. n # None
  BY <1>8, IntakeAssumption
<1>10. claim' \in [Uploads -> Claims \cup {None}] /\ claim'[u] = n
       /\ \A v \in Uploads \ {u} : claim'[v] = claim[v]
  BY <1>2, <1>3, <1>4, <1>8
<1>11. upload'[u] = StatusOf(c.decision) /\ \A v \in Uploads \ {u} : upload'[v] = upload[v]
  BY <1>1, <1>2, <1>3
<1> USE DEF c
<1>12. QED  BY <1>2, <1>3, <1>6, <1>7, <1>8, <1>9, <1>10, <1>11

\* The deployment shows what was cleared.
LEMMA ReviewedIsEarned ==
  ASSUME IntakeInv, deployment # None, NEW u \in Uploads, NEW decision \in Decisions, NEW cleared,
         ClearedUploads \subseteq cleared, decision = "CLEAN" => u \in cleared,
         u \in Histories \/ Done(ClearedUploads, initialized)
  PROVE  /\ Reviewed(u, decision) \in Deployments
         /\ Earned(Reviewed(u, decision), cleared, initialized)
<1>1. deployment \in Deployments
  BY DeploymentRead
<1>2. CASE decision = "REJECTED"
  BY <1>1, <1>2, DeploymentRead, EarnedStays DEF Reviewed
<1>3. CASE decision # "REJECTED" /\ u \in Histories
  <2> DEFINE a == [deployment EXCEPT !.history = "RECEIVED"]
  <2> DEFINE count == deployment.count + 1
  <2> DEFINE b == [a EXCEPT !.count = count]
  <2> DEFINE n == [b EXCEPT !.latestHistory = u]
  <2>1. Reviewed(u, decision) = n /\ count \in Nat
    BY <1>1, <1>3 DEF Reviewed, Deployments
  <2>2. Shows(a, deployment.company, "RECEIVED", deployment.connector, deployment.latestSource,
              deployment.latestHistory)
    BY <1>1, DeploymentHistory DEF HistoryStatuses
  <2> HIDE DEF a, count
  <2>3. Shows(b, deployment.company, "RECEIVED", deployment.connector, deployment.latestSource,
              deployment.latestHistory)
    BY <2>1, <2>2, DeploymentCount DEF Shows
  <2> HIDE DEF b
  <2>4. Shows(n, deployment.company, "RECEIVED", deployment.connector, deployment.latestSource, u)
    BY <1>3, <2>3, DeploymentLatestHistory DEF Shows
  <2> HIDE DEF n
  <2>5. u \in Histories \cap cleared
    BY <1>3 DEF Decisions
  <2>6. Earned(n, cleared, initialized)
    BY <2>4, <2>5, AddedIsEarned
  <2>7. QED  BY <2>1, <2>4, <2>6 DEF Shows
<1>4. CASE decision # "REJECTED" /\ u \notin Histories
  <2> DEFINE n == [deployment EXCEPT !.latestSource = u]
  <2>1. Reviewed(u, decision) = n
    BY <1>4 DEF Reviewed
  <2>2. Shows(n, deployment.company, deployment.history, deployment.connector, u,
              deployment.latestHistory)
    BY <1>1, <1>4, DeploymentLatestSource DEF Uploads
  <2> HIDE DEF n
  <2>3. u \in cleared
    BY <1>4 DEF Decisions
  <2>4. Earned(n, cleared, initialized)
    BY <1>4, <2>2, <2>3, AddedIsEarned
  <2>5. QED  BY <2>1, <2>2, <2>4 DEF Shows
<1>5. QED  BY <1>2, <1>3, <1>4

\* One update applies the claim to the upload and the deployment.
LEMMA ApplyStep ==
  ASSUME IntakeInv, NEW r \in Requests, ApplyReview(r)
  PROVE  IntakeInv'
<1> SUFFICES ASSUME NEW u, u = In(r).upload, NEW decision, decision = In(r).decision
             PROVE  IntakeInv'
  OBVIOUS
<1>1. /\ u \in Uploads /\ claim[u] \in Claims /\ claim[u] # None
      /\ claim[u].decision = decision /\ policy = "MANUAL_REVIEW" /\ deployment # None
      /\ claim' \in [Uploads -> Claims \cup {None}] /\ claim'[u] # None
      /\ claim'[u].decision = decision /\ claim'[u].effects = "APPLIED"
      /\ \A v \in Uploads \ {u} : claim'[v] = claim[v] /\ upload'[v] = upload[v]
      /\ upload'[u] = StatusOf(decision)
      /\ u \in Histories \/ Done(ClearedUploads, initialized)
  BY ApplyClears
<1>2. /\ policy' = policy /\ registered' = registered /\ initialized' = initialized
      /\ payrollRun' = payrollRun /\ ledgerRun' = ledgerRun /\ (RealData' <=> RealData)
      /\ deployment' = Reviewed(u, decision) /\ Answer(r)
      /\ upload' = [upload EXCEPT ![u] = StatusOf(decision)]
  BY DEF ApplyReview, companyVars, runVars, RealData
<1>3. decision \in Decisions
  BY <1>1 DEF Claims
<1>4. RealData
  BY <1>1 DEF RealData
<1>5. /\ \A v \in Uploads \ {u} : Cleared(v)' <=> Cleared(v)
      /\ Cleared(u)' <=> decision = "CLEAN"
      /\ Cleared(u) => decision = "CLEAN"
  BY <1>1, <1>2, <1>4 DEF Cleared, Applied
<1>6. ClearedUploads \subseteq ClearedUploads' /\ (decision = "CLEAN" => u \in ClearedUploads')
  BY <1>1, <1>5 DEF ClearedUploads
<1>7. Done(ClearedUploads, initialized) => Done(ClearedUploads', initialized)
  BY <1>6, DoneStays
<1>8. deployment' \in Deployments /\ Earned(deployment', ClearedUploads', initialized)
  BY <1>1, <1>2, <1>3, <1>6, ReviewedIsEarned
<1>9. deployment' # None /\ StatusOf(decision) \in UploadStatuses /\ upload'[u] # None
  BY <1>1, <1>8, IntakeAssumption DEF StatusOf, UploadStatuses
<1>10. StoresAreTyped'
  BY <1>1, <1>2, <1>8, <1>9 DEF IntakeInv, StoresAreTyped
<1>11. ASSUME NEW v \in Uploads
       PROVE  UploadIsGood(upload'[v], claim'[v], v \in Histories,
                           Done(ClearedUploads', initialized), TRUE)
  <2>1. CASE v = u
    BY <1>1, <1>7, <1>9, <2>1 DEF UploadIsGood
  <2>2. CASE v # u
    BY <1>1, <1>7, <2>2 DEF IntakeInv, StoresAreGood, UploadsAreGood, UploadIsGood
  <2>3. QED  BY <2>1, <2>2
<1>12. UploadsAreGood'
  BY <1>2, <1>9, <1>11 DEF UploadsAreGood, UploadIsGood, Done
<1>13. RunsAreGood'
  BY <1>2, <1>7 DEF IntakeInv, StoresAreGood, RunsAreGood, Done
<1>14. Earned(deployment, ClearedUploads, initialized)'
  BY <1>2, <1>8 DEF Earned, Done, HistoryReady
<1>15. StoresAreGood'
  BY <1>2, <1>12, <1>13, <1>14 DEF IntakeInv, StoresAreGood
<1>16. Progress
  BY <1>1, <1>2, <1>6, <1>9 DEF Progress
<1>17. QED  BY <1>2, <1>10, <1>15, <1>16, AnswerKeepsInv DEF Answer

-----------------------------------------------------------------------------
(* The steps that write companies and payroll runs *)

\* A company is registered before it is recorded.
LEMMA InitializeSteps ==
  ASSUME IntakeInv, NEW r \in Requests, RegisterCompany(r) \/ RecordCompany(r)
  PROVE  IntakeInv'
<1> SUFFICES ASSUME NEW c, c = In(r)
             PROVE  IntakeInv'
  OBVIOUS
<1>1. /\ policy' = policy /\ deployment' = deployment /\ upload' = upload /\ claim' = claim
      /\ payrollRun' = payrollRun /\ ledgerRun' = ledgerRun /\ (RealData' <=> RealData)
      /\ request[r].op = "initialize"
  BY DEF RegisterCompany, RecordCompany, uploadVars, runVars, RealData, At
<1>2. c \in Companies
  BY <1>1 DEF IntakeInv, KnowsNow, Knows, In
<1>3. /\ registered \subseteq registered' /\ registered' \subseteq Companies
      /\ initialized \subseteq initialized' /\ initialized' \subseteq Companies
  BY <1>2 DEF IntakeInv, StoresAreTyped, RegisterCompany, RecordCompany
<1>4. ClearedUploads' = ClearedUploads
  BY <1>1 DEF ClearedUploads, Cleared, Applied
<1>5. Done(ClearedUploads, initialized) => Done(ClearedUploads', initialized')
  BY <1>3, <1>4, DoneStays
<1>6. StoresAreTyped'
  BY <1>1, <1>3 DEF IntakeInv, StoresAreTyped
<1>7. RealData => initialized' \subseteq registered'
  <2>1. CASE RegisterCompany(r)
    BY <2>1 DEF IntakeInv, StoresAreGood, RegisterCompany
  <2>2. CASE RecordCompany(r)
    <3>1. RealData => c \in registered
      BY <2>2 DEF IntakeInv, KnowsNow, Knows, In, RecordCompany, At
    <3>2. QED  BY <2>2, <3>1 DEF IntakeInv, StoresAreGood, RecordCompany
  <2>3. QED  BY <2>1, <2>2
<1>8. UploadsAreGood'
  BY <1>1, <1>4, <1>5
     DEF IntakeInv, StoresAreGood, UploadsAreGood, UploadIsGood, RealData, Done
<1>9. RunsAreGood'
  BY <1>1, <1>3, <1>4, <1>5 DEF IntakeInv, StoresAreGood, RunsAreGood, Done
<1>10. deployment # None => Earned(deployment, ClearedUploads', initialized')
  BY <1>3, <1>4, EarnedStays DEF IntakeInv, StoresAreGood
<1>11. (deployment # None => Earned(deployment, ClearedUploads, initialized))'
  BY <1>1, <1>10 DEF Earned, Done, HistoryReady
<1>12. StoresAreGood'
  BY <1>1, <1>7, <1>8, <1>9, <1>11 DEF StoresAreGood
<1>13. Progress
  BY <1>1, <1>3, <1>4 DEF Progress
<1>14. CASE RecordCompany(r)
  BY <1>6, <1>12, <1>13, <1>14, AnswerKeepsInv DEF RecordCompany, Answer
<1>15. CASE RegisterCompany(r)
  <2>1. Goto(r, "record", None) /\ registered' = registered \cup {c}
    BY <1>15 DEF RegisterCompany
  <2>2. MovesTo(r, "initialize", "record", None) /\ request'[r].in = c
    BY <1>1, <2>1, GotoMoves DEF IntakeInv, In
  <2>3. request'[r].op = "initialize" /\ request'[r].at = "record"
    BY <2>2 DEF MovesTo
  <2>4. KnowsNow(r)'
    BY <1>2, <2>1, <2>2, <2>3 DEF KnowsNow, Knows
  <2>5. QED  BY <1>6, <1>12, <1>13, <2>2, <2>4, MoveKeepsInv
<1>16. QED  BY <1>14, <1>15

\* What the two stores of payroll runs may become.
LEMMA RunsWritten ==
  ASSUME IntakeInv, UNCHANGED <<companyVars, deployment, uploadVars>>,
         payrollRun' \in [PayrollInputs -> Companies \cup {None}],
         ledgerRun' \in [PayrollInputs -> Companies \cup {None}],
         \A i \in PayrollInputs :
           /\ payrollRun[i] # None => payrollRun'[i] # None
           /\ payrollRun'[i] # None /\ payrollRun'[i] # payrollRun[i] =>
                payrollRun'[i] \in initialized /\ Done(ClearedUploads, initialized)
           /\ ledgerRun'[i] # ledgerRun[i] => ledgerRun'[i] \in registered /\ payrollRun'[i] # None
  PROVE  StoresAreTyped' /\ StoresAreGood' /\ Progress
<1>1. /\ policy' = policy /\ registered' = registered /\ initialized' = initialized
      /\ deployment' = deployment /\ upload' = upload /\ claim' = claim
  BY DEF companyVars, uploadVars
<1>2. ClearedUploads' = ClearedUploads
  BY <1>1 DEF ClearedUploads, Cleared, Applied, RealData
<1>3. StoresAreTyped'
  BY <1>1 DEF IntakeInv, StoresAreTyped
<1>4. RunsAreGood'
  BY <1>1, <1>2 DEF IntakeInv, StoresAreGood, RunsAreGood, Done
<1>5. StoresAreGood'
  BY <1>1, <1>2, <1>4 DEF IntakeInv, StoresAreGood, UploadsAreGood, UploadIsGood,
                          RealData, Earned, HistoryReady, Done
<1>6. QED  BY <1>1, <1>2, <1>3, <1>5 DEF Progress

\* A payroll run is looked up, stored, and recorded in the ledger.
LEMMA FindRunStep ==
  ASSUME IntakeInv, NEW r \in Requests, FindPayrollRun(r)
  PROVE  IntakeInv'
<1> DEFINE label == IF payrollRun[In(r)] = None THEN "store" ELSE "persist"
<1>1. /\ NothingStored /\ request[r].op = "payroll" /\ request[r].at = "find"
      /\ Answer(r) \/ Goto(r, label, request[r].seen)
  BY Zenon DEF FindPayrollRun, At, Seen
<1>2. KnowsThen(request[r])
  BY DEF IntakeInv, KnowsNow, KnowsThen
<1>3. KnowsThen(After(r, label, request[r].seen))
  BY <1>1, <1>2 DEF KnowsThen, Knows, After, In
<1>4. QED  BY <1>1, <1>3, ReadKeepsInv

\* The run is stored under the company it was prepared for.
LEMMA StoreRunStep ==
  ASSUME IntakeInv, NEW r \in Requests, StorePayrollRun(r)
  PROVE  IntakeInv'
<1> DEFINE i == In(r)
<1> DEFINE c == Seen(r).company
<1>1. /\ request[r].op = "payroll" /\ request[r].at = "store"
      /\ payrollRun' = [payrollRun EXCEPT ![i] = c] /\ Goto(r, "persist", Seen(r))
      /\ UNCHANGED <<companyVars, deployment, uploadVars, ledgerRun>>
  BY DEF StorePayrollRun, At
<1>2. /\ i \in PayrollInputs /\ c \in initialized /\ c # None /\ deployment # None
      /\ Done(ClearedUploads, initialized)
  BY <1>1 DEF IntakeInv, KnowsNow, Knows, In, Seen
<1>3. /\ payrollRun \in [PayrollInputs -> Companies \cup {None}] /\ c \in Companies
      /\ ledgerRun \in [PayrollInputs -> Companies \cup {None}] /\ ledgerRun' = ledgerRun
  BY <1>1, <1>2 DEF IntakeInv, StoresAreTyped
<1>4. MovesTo(r, "payroll", "persist", Seen(r)) /\ request'[r].in = i
  BY <1>1, GotoMoves DEF IntakeInv, In
<1>5. /\ request'[r].op = "payroll" /\ request'[r].at = "persist"
      /\ request'[r].seen.company = c
  BY <1>4 DEF MovesTo
<1> HIDE DEF i, c
<1>6. payrollRun'[i] = c /\ \A j \in PayrollInputs \ {i} : payrollRun'[j] = payrollRun[j]
  BY <1>1, <1>2, <1>3
<1>7. payrollRun' \in [PayrollInputs -> Companies \cup {None}]
  BY <1>1, <1>2, <1>3
<1>8. StoresAreTyped' /\ StoresAreGood' /\ Progress
  BY <1>1, <1>2, <1>3, <1>6, <1>7, RunsWritten
<1>9. deployment' # None /\ initialized' = initialized /\ Done(ClearedUploads', initialized')
  BY <1>1, <1>2, <1>8, DoneStays DEF Progress, companyVars
<1>10. KnowsNow(r)'
  BY <1>2, <1>4, <1>5, <1>6, <1>9 DEF KnowsNow, Knows, Done
<1>11. QED  BY <1>4, <1>8, <1>10, MoveKeepsInv

\* The ledger takes it for a registered company.
LEMMA PersistRunStep ==
  ASSUME IntakeInv, NEW r \in Requests, PersistPayrollRun(r)
  PROVE  IntakeInv'
<1> DEFINE i == In(r)
<1> DEFINE c == Seen(r).scoped
<1>1. /\ request[r].op = "payroll" /\ request[r].at = "persist" /\ Answer(r)
      /\ \/ ledgerRun' = ledgerRun
         \/ c \in registered /\ ledgerRun' = [ledgerRun EXCEPT ![i] = c]
      /\ UNCHANGED <<companyVars, deployment, uploadVars, payrollRun>>
  BY DEF PersistPayrollRun, At
<1>2. i \in PayrollInputs /\ payrollRun[i] # None
  BY <1>1 DEF IntakeInv, KnowsNow, Knows, In
<1>3. /\ payrollRun \in [PayrollInputs -> Companies \cup {None}] /\ payrollRun' = payrollRun
      /\ ledgerRun \in [PayrollInputs -> Companies \cup {None}] /\ registered \subseteq Companies
  BY <1>1 DEF IntakeInv, StoresAreTyped
<1> HIDE DEF i, c
<1>4. /\ ledgerRun' \in [PayrollInputs -> Companies \cup {None}]
      /\ \A j \in PayrollInputs :
           ledgerRun'[j] # ledgerRun[j] => j = i /\ ledgerRun'[j] \in registered
  BY <1>1, <1>2, <1>3
<1>5. StoresAreTyped' /\ StoresAreGood' /\ Progress
  BY <1>1, <1>2, <1>3, <1>4, RunsWritten
<1>6. QED  BY <1>1, <1>5, AnswerKeepsInv DEF Answer

-----------------------------------------------------------------------------
(* Theorems *)

\* At the start nothing is stored and no request runs.
LEMMA IntakeInvInit ==
  ASSUME RequestsInit, IntakeInit
  PROVE  IntakeInv
<1>1. RequestShape /\ \A r \in Requests : request[r].op = "none"
  BY DEF RequestsInit, RequestShape, IdleRequest
<1>2. \A r \in Requests : KnowsNow(r)
  BY <1>1 DEF KnowsNow, Knows
<1>3. StoresAreTyped
  BY DEF IntakeInit, StoresAreTyped
<1>4. StoresAreGood
  BY DEF IntakeInit, StoresAreGood, UploadsAreGood, UploadIsGood, RunsAreGood
<1>5. QED  BY <1>1, <1>2, <1>3, <1>4 DEF IntakeInv

\* Every step keeps the invariant.
LEMMA IntakeInvNext ==
  ASSUME IntakeInv, [IntakeNext]_<<request, crashes, intakeVars>>
  PROVE  IntakeInv'
<1>1. ASSUME NEW r \in Requests, IntakeStep(r)
      PROVE  IntakeInv'
  BY <1>1, DeploymentReads, OtherReads, StartStep, LinkStep, ConfigureStep, SkipStep,
     ConnectorStep, StoreHistoryStep, StoreSourceStep, LeaseStep, ApplyStep, ReleaseStep,
     InitializeSteps, FindRunStep, StoreRunStep, PersistRunStep DEF IntakeStep
<1>2. ASSUME NEW r \in Requests, ReceiveIntake(r) \/ FailReview(r) \/ IntakeDies(r)
      PROVE  IntakeInv'
  BY <1>2, ReceiveStep, FailStep, DiesStep
<1>3. ASSUME NEW u \in Uploads, LeaseExpires(u)
      PROVE  IntakeInv'
  BY <1>3, LeaseExpiresStep
<1>4. CASE UNCHANGED <<request, crashes, intakeVars>>
  BY <1>4, ReadsKeepStores, StillKeepsInv DEF NothingStored
<1>5. QED  BY <1>1, <1>2, <1>3, <1>4 DEF IntakeNext

\* The invariant says what StepsAreEarned says.
LEMMA InvShowsSteps ==
  ASSUME IntakeInv
  PROVE  StepsAreEarned
<1>1. HistoryWasDone <=> Done(ClearedUploads, initialized)
  BY DEF HistoryWasDone, Done, ClearedUploads, Uploads
<1>2. ASSUME deployment # None
      PROVE  /\ deployment.company # None => deployment.company \in initialized
             /\ deployment.history = "RECEIVED" => \E h \in Histories : Cleared(h)
             /\ HistoryReady(deployment) \/ deployment.connector # None => HistoryWasDone
             /\ deployment.latestSource # None => Cleared(deployment.latestSource) /\ HistoryWasDone
             /\ deployment.latestHistory # None => Cleared(deployment.latestHistory)
  BY <1>1, <1>2, DeploymentRead DEF Earned, ClearedUploads
<1>3. QED
  BY <1>1, <1>2 DEF IntakeInv, StoresAreGood, RunsAreGood, StepsAreEarned

\* A deployment is never past a step that nobody did, whatever is in flight at once.
THEOREM StepsAreAlwaysEarned == IntakeSpec => []StepsAreEarned
<1>1. RequestsInit /\ IntakeInit => IntakeInv
  BY IntakeInvInit
<1>2. IntakeInv /\ [IntakeNext]_<<request, crashes, intakeVars>> => IntakeInv'
  BY IntakeInvNext
<1>3. IntakeInv => StepsAreEarned
  BY InvShowsSteps
<1>4. QED  BY <1>1, <1>2, <1>3, PTL DEF IntakeSpec

-----------------------------------------------------------------------------
(* Reviews are final *)

\* What ReviewsAreFinal says of one step.
ReviewStays ==
  \A u \in Uploads :
    /\ claim[u] # None => /\ claim'[u] # None
                          /\ claim'[u].decision = claim[u].decision
                          /\ Applied(u) => claim'[u].effects = "APPLIED"
    /\ RealData /\ upload'[u] # upload[u] /\ upload'[u] # "QUARANTINED"
         => /\ upload[u] = "QUARANTINED"
            /\ upload'[u] = StatusOf(claim'[u].decision)
            /\ claim'[u].effects = "APPLIED"

\* A step that only moves claims takes nothing back.
LEMMA ClaimsStay ==
  ASSUME ClaimsMove
  PROVE  ReviewStays
BY DEF ClaimsMove, ReviewStays, Applied

\* Of the steps that leave the claims alone, only an upload writes an upload.
LEMMA OthersStay ==
  ASSUME IntakeInv, NEW r \in Requests, IntakeStep(r) \/ ReceiveIntake(r) \/ FailReview(r),
         ~LeaseClaim(r), ~ReleaseLease(r), ~ApplyReview(r), ~StoreHistory(r), ~StoreSource(r)
  PROVE  claim' = claim /\ upload' = upload
<1>1. CASE NothingStored
  BY <1>1 DEF NothingStored, intakeVars, uploadVars
<1>2. CASE \/ ReadInitialization(r) \/ RegisterCompany(r) \/ RecordCompany(r)
           \/ StartDeployment(r) \/ LinkCompany(r) \/ SaveConfiguration(r)
           \/ SkipHistory(r) \/ SelectConnector(r)
  BY <1>1, <1>2 DEF ReadInitialization, RegisterCompany, RecordCompany, StartDeployment,
     LinkCompany, SaveConfiguration, SkipHistory, SelectConnector, SetDeployment, uploadVars
<1>3. CASE \/ ReadForLink(r) \/ ReadForConfiguration(r) \/ ReadForSkip(r)
           \/ RouteConnector(r) \/ ReadForConnector(r) \/ ReadForHistory(r)
           \/ RouteSource(r) \/ ReadForSource(r) \/ FindUpload(r) \/ LoadArtifact(r)
           \/ RoutePayroll(r) \/ PreparePayroll(r) \/ FindPayrollRun(r)
  BY <1>1, <1>3 DEF ReadForLink, ReadForConfiguration, ReadForSkip, RouteConnector,
     ReadForConnector, ReadForHistory, RouteSource, ReadForSource, FindUpload, LoadArtifact,
     RoutePayroll, PreparePayroll, FindPayrollRun, ReadDeployment
<1>4. CASE StorePayrollRun(r) \/ PersistPayrollRun(r)
  BY <1>4 DEF StorePayrollRun, PersistPayrollRun, uploadVars
<1>5. CASE ReceiveIntake(r) \/ FailReview(r)
  BY <1>1, <1>5 DEF ReceiveIntake, FailReview
<1>6. QED  BY <1>2, <1>3, <1>4, <1>5 DEF IntakeStep

\* A file that is stored in a real-data deployment goes into quarantine.
LEMMA StoringQuarantines ==
  ASSUME IntakeInv, NEW r \in Requests, StoreHistory(r) \/ StoreSource(r)
  PROVE  ReviewStays
<1>1. claim' = claim /\ upload' = [upload EXCEPT ![In(r)] = UploadStatus]
  BY DEF StoreHistory, StoreSource
<1>2. upload \in [Uploads -> UploadStatuses \cup {None}]
  BY DEF IntakeInv, StoresAreTyped
<1>3. \A u \in Uploads : RealData /\ upload'[u] # upload[u] => upload'[u] = "QUARANTINED"
  BY <1>1, <1>2 DEF UploadStatus
<1>4. QED  BY <1>1, <1>3 DEF ReviewStays, Applied

\* An applied review leaves quarantine as its claim decided.
LEMMA ApplyingDecides ==
  ASSUME IntakeInv, NEW r \in Requests, ApplyReview(r)
  PROVE  ReviewStays
<1> SUFFICES ASSUME NEW u, u = In(r).upload
             PROVE  ReviewStays
  OBVIOUS
<1>1. /\ u \in Uploads /\ claim'[u] # None
      /\ claim'[u].decision = claim[u].decision /\ claim'[u].effects = "APPLIED"
      /\ \A v \in Uploads \ {u} : claim'[v] = claim[v] /\ upload'[v] = upload[v]
      /\ upload'[u] = StatusOf(claim[u].decision)
      /\ upload[u] \in {"QUARANTINED", StatusOf(claim[u].decision)}
  BY ApplyClears
<1>2. QED  BY <1>1 DEF ReviewStays, Applied

\* There is one decision for an upload, which stays and is what it leaves quarantine with.
THEOREM ReviewsAreAlwaysFinal == IntakeSpec => ReviewsAreFinal
<1>1. RequestsInit /\ IntakeInit => IntakeInv
  BY IntakeInvInit
<1>2. IntakeInv /\ [IntakeNext]_<<request, crashes, intakeVars>> => IntakeInv'
  BY IntakeInvNext
<1>3. ASSUME IntakeInv, IntakeNext
      PROVE  ReviewStays
  <2>1. ASSUME NEW r \in Requests, IntakeStep(r) \/ ReceiveIntake(r) \/ FailReview(r)
        PROVE  ReviewStays
    <3>1. CASE LeaseClaim(r) \/ ReleaseLease(r)
      BY <1>3, <3>1, LeaseStep, ReleaseStep, ClaimsStay
    <3>2. CASE StoreHistory(r) \/ StoreSource(r)
      BY <1>3, <3>2, StoringQuarantines
    <3>3. CASE ApplyReview(r)
      BY <1>3, <3>3, ApplyingDecides
    <3>4. CASE claim' = claim /\ upload' = upload
      BY <3>4 DEF ReviewStays, Applied
    <3>5. QED  BY <1>3, <2>1, <3>1, <3>2, <3>3, <3>4, OthersStay
  <2>2. ASSUME NEW r \in Requests, IntakeDies(r)
        PROVE  ReviewStays
    BY <1>3, <2>2, DiesStep, ClaimsStay
  <2>3. ASSUME NEW u \in Uploads, LeaseExpires(u)
        PROVE  ReviewStays
    BY <1>3, <2>3, LeaseExpiresStep, ClaimsStay
  <2>4. QED  BY <1>3, <2>1, <2>2, <2>3 DEF IntakeNext
<1>4. IntakeInv /\ [IntakeNext]_<<request, crashes, intakeVars>> => [ReviewStays]_intakeVars
  BY <1>3 DEF intakeVars
<1>5. QED  BY <1>1, <1>2, <1>4, PTL DEF IntakeSpec, ReviewsAreFinal, ReviewStays
===============================================================================
