---------------------------- MODULE ServiceIntake ----------------------------
(***************************************************************************)
(* One service deployment from registration to its payroll runs: companies *)
(* are initialized and linked (lib/finclose-backend.ts,                    *)
(* lib/onboarding-history.ts), history and current sources are uploaded    *)
(* into quarantine and reviewed (lib/service-deployments.ts,               *)
(* lib/upload-quarantine.ts), and a payroll run is prepared and recorded   *)
(* (lib/payroll-engine.ts and the route).                                  *)
(*                                                                         *)
(* The database is the Realtime Database, except for `registered' and      *)
(* `ledgerRun', which are Firestore's.  Left out of the deployment: names, *)
(* billing, the display field `status' and the latest quarantined ids,     *)
(* which no handler reads.  Whether a period is locked is PeriodLedger's   *)
(* matter: here the ledger may refuse any run.                             *)
(***************************************************************************)
EXTENDS ServerRequests

CONSTANTS
  Policies,         \* "LAB", or the quarantine mode of a real-data deployment
  Services,         \* the services a customer registers for
  Countries,        \* the countries of COUNTRIES
  VerifiedCountries,\* those whose payroll rule pack is VERIFIED_BASIC_RULES
  Companies, CountryOf, StageOf,
  Histories, Sources,   \* uploads, by SHA-256
  PayrollInputs         \* pay period, date and employees, by fingerprint

VARIABLES
  policy,       \* runtime mode and upload quarantine mode
  registered,   \* finclose_prod_companies
  initialized,  \* finclose_companies
  deployment,   \* the record of finclose_service_deployments
  upload,       \* status in finclose_service_history and finclose_service_sources
  claim,        \* finclose_upload_review_claims
  payrollRun,   \* finclose_payroll_runs: the company of each run
  ledgerRun     \* finclose_prod_payroll_runs: the company of each run

companyVars == <<policy, registered, initialized>>
uploadVars == <<upload, claim>>
runVars == <<payrollRun, ledgerRun>>
intakeVars == <<companyVars, deployment, uploadVars, runVars>>

Uploads == Histories \cup Sources
RealData == policy # "LAB"
Decisions == {"CLEAN", "REJECTED"}
StatusOf(decision) == IF decision = "CLEAN" THEN "RECEIVED" ELSE "REJECTED"

\* What the records hold.  Two connectors stand for the five: files, enabled everywhere,
\* and Xero, whose payroll is enabled for GB only.
Connectors == {"manual-upload", "xero"}
HistoryStatuses == {"RECEIVED", "QUARANTINED_REVIEW_REQUIRED", "NOT_APPLICABLE_NEW_COMPANY"}
Deployments ==
  [service : Services, country : Countries \cup {None}, configured : Countries \cup {None},
   company : Companies \cup {None}, history : HistoryStatuses \cup {None}, count : Nat,
   latestHistory : Histories \cup {None}, connector : Connectors \cup {None},
   latestSource : Sources \cup {None}]
UploadStatuses == {"RECEIVED", "QUARANTINED", "REJECTED"}
Claims == [decision : Decisions, effects : {"PENDING", "APPLIED"},
           lease : Requests \cup {None, "dead"}, expired : BOOLEAN]

\* None is none of them, and a company's country is one of COUNTRIES.
ASSUME IntakeAssumption ==
  /\ None \notin Deployments \cup HistoryStatuses \cup UploadStatuses \cup Claims
  /\ CountryOf \in [Companies -> Countries]

IntakeInit ==
  /\ policy \in Policies
  /\ registered = {} /\ initialized = {}
  /\ deployment = None
  /\ upload = [u \in Uploads |-> None]
  /\ claim = [u \in Uploads |-> None]
  /\ payrollRun = [i \in PayrollInputs |-> None]
  /\ ledgerRun = [i \in PayrollInputs |-> None]

\* A read, a refusal, or the first step of a request: only the request moves on.
NothingStored == UNCHANGED intakeVars

SetDeployment(changed) ==
  /\ deployment' = changed
  /\ UNCHANGED <<companyVars, uploadVars, runVars>>

\* What a handler that awaits the deployment does next: the label it goes on at,
\* or 404 and other refusals.
ReadDeployment(r, guard, label) ==
  /\ NothingStored
  /\ IF deployment # None /\ guard THEN Goto(r, label, deployment) ELSE Answer(r)

-----------------------------------------------------------------------------
(* initializeCompany: Firestore first, then one update of the database *)

ReadInitialization(r) ==
  /\ At(r, "initialize", "read") /\ NothingStored
  /\ IF In(r) \in initialized THEN Answer(r)
     ELSE Goto(r, IF RealData THEN "register" ELSE "record", None)

RegisterCompany(r) ==
  /\ At(r, "initialize", "register")
  /\ registered' = registered \cup {In(r)}
  /\ Goto(r, "record", None)
  /\ UNCHANGED <<policy, initialized, deployment, uploadVars, runVars>>

RecordCompany(r) ==
  /\ At(r, "initialize", "record")
  /\ initialized' = initialized \cup {In(r)}
  /\ Answer(r)
  /\ UNCHANGED <<policy, registered, deployment, uploadVars, runVars>>

-----------------------------------------------------------------------------
(* Registration, company and configuration *)

NeedsCountry(service) == service # "balance-books"
PayrollServices == {"payroll", "bookkeeping-payroll"}

\* startServiceDeployment.  Bound: one deployment.
StartDeployment(r) ==
  /\ At(r, "start", "write")
  /\ IF deployment = None /\ (NeedsCountry(In(r).service) => In(r).country # None)
     THEN SetDeployment([service |-> In(r).service, country |-> In(r).country,
                         configured |-> None, company |-> None, history |-> None, count |-> 0,
                         latestHistory |-> None, connector |-> None, latestSource |-> None])
     ELSE NothingStored
  /\ Answer(r)

ReadForLink(r) ==
  /\ At(r, "link", "read")
  /\ ReadDeployment(r, /\ In(r) \in initialized
                       /\ deployment.country \in {None, CountryOf[In(r)]}, "write")

LinkCompany(r) ==
  /\ At(r, "link", "write")
  /\ SetDeployment([deployment EXCEPT !.company = In(r), !.country = CountryOf[In(r)],
                                      !.configured = CountryOf[In(r)]])
  /\ Answer(r)

ReadForConfiguration(r) ==
  /\ At(r, "configure", "read")
  /\ ReadDeployment(r, TRUE, "write")

\* The configuration is replaced; a field that is not sent falls back on the country
\* of the deployment as it was read.  balance-books has no fields.
SaveConfiguration(r) ==
  /\ At(r, "configure", "write")
  /\ LET sent == IF In(r) # None THEN In(r) ELSE Seen(r).country
         configured == IF NeedsCountry(Seen(r).service) THEN sent ELSE None IN
     SetDeployment([deployment EXCEPT !.configured = configured,
                      !.country = IF configured # None THEN configured ELSE Seen(r).country])
  /\ Answer(r)

-----------------------------------------------------------------------------
(* The historical-context step and the connector *)

HistoryReady(d) == d.history \in {"RECEIVED", "NOT_APPLICABLE_NEW_COMPANY"}

ReadForSkip(r) ==
  /\ At(r, "skip", "read")
  /\ ReadDeployment(r, /\ deployment.service # "balance-books"
                       /\ deployment.company # None
                       /\ StageOf[deployment.company] = "NEW", "write")

SkipHistory(r) ==
  /\ At(r, "skip", "write")
  /\ SetDeployment([deployment EXCEPT !.history = "NOT_APPLICABLE_NEW_COMPANY"])
  /\ Answer(r)

ConnectorEnabled(d, connector) ==
  \/ connector = "manual-upload"
  \/ d.service \notin PayrollServices
  \/ (IF d.configured # None THEN d.configured ELSE d.country) \in {None, "GB"}

RouteConnector(r) ==
  /\ At(r, "connector", "route")
  /\ ReadDeployment(r, HistoryReady(deployment), "read")

ReadForConnector(r) ==
  /\ At(r, "connector", "read")
  /\ ReadDeployment(r, ConnectorEnabled(deployment, In(r)), "write")

SelectConnector(r) ==
  /\ At(r, "connector", "write")
  /\ SetDeployment([deployment EXCEPT !.connector = In(r)])
  /\ Answer(r)

-----------------------------------------------------------------------------
(* saveHistoricalContext and saveServiceSource *)

ReadForHistory(r) ==
  /\ At(r, "history", "read")
  /\ ReadDeployment(r, deployment.service = "balance-books" \/ deployment.company # None, "find")

RouteSource(r) ==
  /\ At(r, "source", "route")
  /\ ReadDeployment(r, HistoryReady(deployment), "read")

ReadForSource(r) ==
  /\ At(r, "source", "read")
  /\ ReadDeployment(r, deployment.connector = "manual-upload", "find")

\* The same content again is a duplicate; a real-data deployment without a review
\* policy refuses; otherwise the file is saved, under a path of its own.
FindUpload(r) ==
  /\ At(r, "history", "find") \/ At(r, "source", "find")
  /\ NothingStored
  /\ IF upload[In(r)] = None /\ policy # "BLOCK" THEN Goto(r, "store", Seen(r)) ELSE Answer(r)

UploadStatus == IF RealData THEN "QUARANTINED" ELSE "RECEIVED"

StoreHistory(r) ==
  /\ At(r, "history", "store")
  /\ upload' = [upload EXCEPT ![In(r)] = UploadStatus]
  /\ deployment' = IF RealData
                   THEN [deployment EXCEPT !.history = "QUARANTINED_REVIEW_REQUIRED"]
                   ELSE [deployment EXCEPT !.history = "RECEIVED", !.count = Seen(r).count + 1,
                                           !.latestHistory = In(r)]
  /\ Answer(r)
  /\ UNCHANGED <<companyVars, claim, runVars>>

StoreSource(r) ==
  /\ At(r, "source", "store")
  /\ upload' = [upload EXCEPT ![In(r)] = UploadStatus]
  /\ deployment' = IF RealData THEN deployment ELSE [deployment EXCEPT !.latestSource = In(r)]
  /\ Answer(r)
  /\ UNCHANGED <<companyVars, claim, runVars>>

-----------------------------------------------------------------------------
(* reviewServiceUpload: In(r) is the upload and the decision *)

LoadArtifact(r) ==
  /\ At(r, "review", "load") /\ NothingStored
  /\ IF policy = "MANUAL_REVIEW" /\ upload[In(r).upload] = "QUARANTINED"
     THEN Goto(r, "claim", None)
     ELSE Answer(r)

\* A claim is made once, for one decision; its effects are leased to one request
\* until they are applied, the lease is given back, or two minutes have passed.
NewClaim(r) == [decision |-> In(r).decision, effects |-> "PENDING", lease |-> r, expired |-> FALSE]

\* A bug to catch: the two minutes are not looked at.
MayLeaseOnce(c, r) ==
  /\ c.decision = In(r).decision
  /\ c.effects = "PENDING"
  /\ c.lease = None

MayLease(c, r) ==
  /\ c.decision = In(r).decision
  /\ c.effects = "PENDING"
  /\ c.lease # None => c.expired

\* A bug to catch: the lease of a claim that exists is taken with the decision asked for.
LeaseClaimForAnyDecision(r) ==
  LET u == In(r).upload IN
  /\ At(r, "review", "claim")
  /\ claim' = [claim EXCEPT ![u] = NewClaim(r)]
  /\ Goto(r, "apply", None)
  /\ UNCHANGED <<companyVars, deployment, upload, runVars>>

LeaseClaim(r) ==
  LET u == In(r).upload IN
  /\ At(r, "review", "claim")
  /\ IF claim[u] = None \/ MayLease(claim[u], r)
     THEN claim' = [claim EXCEPT ![u] = NewClaim(r)] /\ Goto(r, "apply", None)
     ELSE Answer(r) /\ UNCHANGED claim
  /\ UNCHANGED <<companyVars, deployment, upload, runVars>>

\* A bug to catch: a rejected history also completes the step.
ReviewedEitherWay(u, decision) ==
  IF u \in Histories
  THEN [deployment EXCEPT !.history = "RECEIVED", !.count = @ + 1, !.latestHistory = u]
  ELSE [deployment EXCEPT !.latestSource = u]

Reviewed(u, decision) ==
  IF decision = "REJECTED" THEN deployment
  ELSE IF u \in Histories
       THEN [deployment EXCEPT !.history = "RECEIVED", !.count = @ + 1, !.latestHistory = u]
       ELSE [deployment EXCEPT !.latestSource = u]

\* One multi-path update, which does not look at the lease again.
ApplyReview(r) ==
  LET u == In(r).upload IN
  /\ At(r, "review", "apply")
  /\ upload' = [upload EXCEPT ![u] = StatusOf(In(r).decision)]
  /\ claim' = [claim EXCEPT ![u].effects = "APPLIED", ![u].lease = None, ![u].expired = FALSE]
  /\ deployment' = Reviewed(u, In(r).decision)
  /\ Answer(r)
  /\ UNCHANGED <<companyVars, runVars>>

FailReview(r) ==
  /\ At(r, "review", "apply") /\ NothingStored
  /\ Rejected(r, "release", None)

\* Only a claim that is still pending and still this request's is given back.
ReleaseLease(r) ==
  LET u == In(r).upload IN
  /\ At(r, "review", "release")
  /\ claim' = [claim EXCEPT ![u].lease = IF @ = r THEN None ELSE @,
                            ![u].expired = claim[u].lease # r /\ @]
  /\ Answer(r)
  /\ UNCHANGED <<companyVars, deployment, upload, runVars>>

\* Two minutes pass; the holder may be slow or dead.
LeaseExpires(u) ==
  /\ claim[u] # None /\ claim[u].lease # None /\ ~claim[u].expired
  /\ claim' = [claim EXCEPT ![u].expired = TRUE]
  /\ UNCHANGED <<companyVars, deployment, upload, runVars, request, crashes>>

-----------------------------------------------------------------------------
(* POST payroll/runs: preparePayrollRun, then persistPayrollRun *)

\* authorizedDeployment: the company the run will be recorded under.
RoutePayroll(r) ==
  /\ At(r, "payroll", "route") /\ NothingStored
  /\ IF deployment # None THEN Goto(r, "prepare", [scoped |-> deployment.company])
     ELSE Answer(r)

CanPreparePayroll(d) ==
  /\ d.service \in PayrollServices
  /\ d.company # None
  /\ HistoryReady(d)
  /\ d.country \in VerifiedCountries

PreparePayroll(r) ==
  /\ At(r, "payroll", "prepare") /\ NothingStored
  /\ IF CanPreparePayroll(deployment)
     THEN Goto(r, "find", [scoped |-> Seen(r).scoped, company |-> deployment.company])
     ELSE Answer(r)

\* assertDateRangeOpenForCompany may refuse; the run's id does not name the company.
FindPayrollRun(r) ==
  /\ At(r, "payroll", "find") /\ NothingStored
  /\ \/ Answer(r)
     \/ Goto(r, IF payrollRun[In(r)] = None THEN "store" ELSE "persist", Seen(r))

StorePayrollRun(r) ==
  /\ At(r, "payroll", "store")
  /\ payrollRun' = [payrollRun EXCEPT ![In(r)] = Seen(r).company]
  /\ Goto(r, "persist", Seen(r))
  /\ UNCHANGED <<companyVars, deployment, uploadVars, ledgerRun>>

\* The first record stands; an unregistered company is refused, a locked period too.
PersistPayrollRun(r) ==
  /\ At(r, "payroll", "persist")
  /\ \/ UNCHANGED ledgerRun
     \/ /\ RealData /\ ledgerRun[In(r)] = None /\ Seen(r).scoped \in registered
        /\ ledgerRun' = [ledgerRun EXCEPT ![In(r)] = Seen(r).scoped]
  /\ Answer(r)
  /\ UNCHANGED <<companyVars, deployment, uploadVars, payrollRun>>

-----------------------------------------------------------------------------
(* The specification *)

ReceiveReview(r, u, decision) ==
  Receive(r, "review", "load", [upload |-> u, decision |-> decision])

ReceiveIntake(r) ==
  /\ \/ \E c \in Companies : Receive(r, "initialize", "read", c) \/ Receive(r, "link", "read", c)
     \/ \E s \in Services, k \in Countries \cup {None} :
          Receive(r, "start", "write", [service |-> s, country |-> k])
     \/ \E k \in Countries \cup {None} : Receive(r, "configure", "read", k)
     \/ \E k \in Connectors : Receive(r, "connector", "route", k)
     \/ \E h \in Histories : Receive(r, "history", "read", h)
     \/ \E s \in Sources : Receive(r, "source", "route", s)
     \/ \E u \in Uploads, decision \in Decisions : ReceiveReview(r, u, decision)
     \/ \E i \in PayrollInputs : Receive(r, "payroll", "route", i)
     \/ Receive(r, "skip", "read", None)
  /\ NothingStored

\* A dead request's id is never used again, so its lease is nobody's.
IntakeDies(r) ==
  /\ Die(r)
  /\ claim' = [u \in Uploads |-> IF claim[u] # None /\ claim[u].lease = r
                                 THEN [claim[u] EXCEPT !.lease = "dead"] ELSE claim[u]]
  /\ UNCHANGED <<companyVars, deployment, upload, runVars>>

IntakeStep(r) ==
  \/ ReadInitialization(r) \/ RegisterCompany(r) \/ RecordCompany(r)
  \/ StartDeployment(r) \/ ReadForLink(r) \/ LinkCompany(r)
  \/ ReadForConfiguration(r) \/ SaveConfiguration(r)
  \/ ReadForSkip(r) \/ SkipHistory(r)
  \/ RouteConnector(r) \/ ReadForConnector(r) \/ SelectConnector(r)
  \/ ReadForHistory(r) \/ StoreHistory(r)
  \/ RouteSource(r) \/ ReadForSource(r) \/ StoreSource(r) \/ FindUpload(r)
  \/ LoadArtifact(r) \/ LeaseClaim(r) \/ ApplyReview(r) \/ ReleaseLease(r)
  \/ RoutePayroll(r) \/ PreparePayroll(r) \/ FindPayrollRun(r)
  \/ StorePayrollRun(r) \/ PersistPayrollRun(r)

IntakeNext ==
  \/ \E r \in Requests : ReceiveIntake(r) \/ IntakeStep(r) \/ FailReview(r) \/ IntakeDies(r)
  \/ \E u \in Uploads : LeaseExpires(u)

IntakeSpec ==
  RequestsInit /\ IntakeInit /\ [][IntakeNext]_<<request, crashes, intakeVars>>

\* The event loop goes on with every request, time passes, and a reviewer who was
\* told to retry a review asks again for the decision on record.
RetryReview(u) ==
  /\ claim[u] # None /\ claim[u].effects = "PENDING"
  /\ \E r \in Requests : ReceiveReview(r, u, claim[u].decision)
  /\ NothingStored

-----------------------------------------------------------------------------
(* Properties *)

Applied(u) == claim[u] # None /\ claim[u].effects = "APPLIED"
Cleared(u) ==
  IF RealData THEN Applied(u) /\ claim[u].decision = "CLEAN" ELSE upload[u] = "RECEIVED"

\* Whoever reviews an upload, at once, again or after a crash, there is one decision,
\* which stays; a real-data upload leaves quarantine only as that decision says
\* (docs/CONTROLLED_PILOT_UPLOAD_PROCEDURE_V1.md:62).  Only a second copy of the same
\* content, uploaded before the first was recorded, puts a reviewed one back.
ReviewsAreFinal ==
  [][\A u \in Uploads :
       /\ claim[u] # None => /\ claim'[u] # None
                             /\ claim'[u].decision = claim[u].decision
                             /\ Applied(u) => claim'[u].effects = "APPLIED"
       /\ RealData /\ upload'[u] # upload[u] /\ upload'[u] # "QUARANTINED"
            => /\ upload[u] = "QUARANTINED"
               /\ upload'[u] = StatusOf(claim'[u].decision)
               /\ claim'[u].effects = "APPLIED"]_intakeVars

HistoryWasDone ==
  \/ \E h \in Histories : Cleared(h)
  \/ \E c \in initialized : StageOf[c] = "NEW"

\* A deployment is never past a step that nobody did: a linked company is initialized and
\* known to the ledger, history or a source counts once it was cleared and never while it
\* is in quarantine, connectors, sources and payroll runs come after the history step, and
\* the ledger holds runs of registered companies (procedure :85, route.ts:396 and :404).
StepsAreEarned ==
  /\ RealData => initialized \subseteq registered
  /\ deployment # None =>
       /\ deployment.company # None => deployment.company \in initialized
       /\ deployment.history = "RECEIVED" => \E h \in Histories : Cleared(h)
       /\ HistoryReady(deployment) \/ deployment.connector # None => HistoryWasDone
       /\ deployment.latestSource # None => Cleared(deployment.latestSource) /\ HistoryWasDone
       /\ deployment.latestHistory # None => Cleared(deployment.latestHistory)
  /\ \A i \in PayrollInputs :
       /\ payrollRun[i] # None => payrollRun[i] \in initialized /\ HistoryWasDone
       /\ ledgerRun[i] # None => ledgerRun[i] \in registered /\ payrollRun[i] # None

\* Payroll is prepared for a company with cleared history, or for a new company
\* (RED_TEAM_PAYROLL_FLOW.md:27, CANONICAL_TRUTH.md:50).
PayrollFollowsHistory ==
  \A i \in PayrollInputs :
    payrollRun[i] # None => StageOf[payrollRun[i]] = "NEW" \/ \E h \in Histories : Cleared(h)

\* A decision that was claimed is carried out, also when the request that claimed it died
\* or its update failed: the lease runs out and the reviewer's retry applies it.
ReviewsAreApplied ==
  \A u \in Uploads : (claim[u] # None /\ claim[u].effects = "PENDING") ~> Applied(u)

=============================================================================
