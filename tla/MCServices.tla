------------------------------ MODULE MCServices ------------------------------
(***************************************************************************)
(* TLC instances of seven parts of one server that share nothing but its   *)
(* event loop: the intake of a service deployment, a firm's clients and    *)
(* its staff, a provider connection, the push of journals, bank matching   *)
(* and the rate limits.  A behaviour stays with one part, the focus, so    *)
(* that the run costs their sum and not their product.                     *)
(***************************************************************************)
EXTENDS ServiceIntake, StaffInvitations, Connections, JournalPush, BankReconciliation,
        RateLimits, TLC

CONSTANTS r1, r2, newCo, oldCo, h1, s1, i1, founder, staff, temp, admin, k1, k2, tn1, tn2

VARIABLE focus

vars == <<focus, request, crashes, intakeVars, firmVars, invitation,
          connectionVars, pushVars, matchingVars, limitVars>>

\* Bound: what one behaviour calls.  Onboarding has every operation, one at a time; the
\* reviews of two uploads overlap; so do the steps that lead to a payroll run.
IntakeOps ==
  [onboarding |-> {"none", "initialize", "start", "link", "configure", "skip", "connector",
                   "history", "review", "payroll"},
   reviews    |-> {"none", "history", "connector", "source", "review"},
   payroll    |-> {"none", "link", "skip", "payroll"}]
Foci == DOMAIN IntakeOps \cup {"firm", "staff", "connection", "push", "matching", "limits"}

MCTwoRequests == {r1, r2}
MCCompanies == {newCo, oldCo}
MCCountryOf == [c \in Companies |-> "GE"]
MCStageOf == [c \in Companies |-> IF c = newCo THEN "NEW" ELSE "EXISTING"]
MCServicesUsed == {"payroll", "balance-books"}
MCCountries == {"GE", "GB"}
MCVerified == {"GE"}
MCPolicies == {"LAB", "MANUAL_REVIEW", "SCANNER", "BLOCK"}
MCHistories == {h1}
MCSources == {s1}
MCInputs == {i1}

MCStaff == {founder, staff, temp}
MCAdmins == {admin}
MCOfferedRoles == {"REVIEWER"}
MCAskedRoles == {"ACCOUNTANT", "ADMIN"}
MCInvitations == 1..2
MCKeys == {k1, k2}

MCTenants == {tn1, tn2}
MCRotations == {"ONE_TIME", "KEPT"}

MCContents == 1..2

MCBankIds == {1, 2, 3}
MCLedgerIds == {1, 2}
L(amount, date, reference) == [amount |-> amount, date |-> date, reference |-> reference]
MCLines == {L(500, 0, "a"), L(500, 0, ""), L(500, 3, "a"), L(500, 4, "a"), L(-500, 0, "a")}

\* Reviews and payroll begin where onboarding leads: a linked payroll deployment.
Linked == [service |-> "payroll", country |-> "GE", configured |-> "GE", company |-> newCo,
           history |-> None, count |-> 0, latestHistory |-> None, connector |-> None,
           latestSource |-> None]

Init ==
  /\ focus \in Foci
  /\ RequestsInit /\ FirmInit /\ InvitationsInit /\ ConnectionsInit
  /\ PushInit /\ MatchingInit /\ LimitsInit
  /\ policy \in Policies
  /\ focus # "reviews" => policy \in {"LAB", "MANUAL_REVIEW"}
  /\ focus \notin {"onboarding", "reviews"} => policy = "MANUAL_REVIEW"
  /\ focus # "connection" => rotation = "KEPT"
  /\ focus # "limits" => limiter = "PROCESS"
  /\ IF focus \in {"reviews", "payroll"}
     THEN /\ registered = IF policy = "LAB" THEN {} ELSE Companies
          /\ initialized = Companies
          /\ deployment = Linked
     ELSE registered = {} /\ initialized = {} /\ deployment = None
  /\ upload = [u \in Uploads |-> None] /\ claim = [u \in Uploads |-> None]
  /\ payrollRun = [i \in PayrollInputs |-> None] /\ ledgerRun = payrollRun

Others == <<focus, connectionVars, pushVars, matchingVars, limitVars>>

IntakeAlone ==
  /\ focus \in DOMAIN IntakeOps
  /\ IntakeNext
  /\ focus = "onboarding" => request'[r2] = request[r2]
  /\ \A r \in Requests : request'[r].op \in IntakeOps[focus]
  /\ UNCHANGED <<Others, firmVars, invitation>>

\* Bound: two of the staff, and what overlaps is an acceptance or a check with anything.
FirmAlone ==
  /\ focus = "firm" /\ FirmNext
  /\ request'[r2].op \in {"none", "accept", "access"}
  /\ \A r \in Requests : request'[r] # IdleRequest =>
       temp \notin {request'[r].in.actor, request'[r].in.target}
  /\ UNCHANGED <<Others, intakeVars, invitation>>

StaffAlone ==
  /\ focus = "staff" /\ StaffNext
  /\ request'[r2] = request[r2]
  /\ UNCHANGED <<Others, intakeVars>>

ConnectionAlone ==
  /\ focus = "connection" /\ ConnectionsNext
  /\ UNCHANGED <<focus, intakeVars, firmVars, invitation, pushVars, matchingVars, limitVars>>

PushAlone ==
  /\ focus = "push" /\ PushNext
  /\ request'[r2] = request[r2]
  /\ UNCHANGED <<focus, intakeVars, firmVars, invitation, connectionVars, matchingVars, limitVars>>

MatchingAlone ==
  /\ focus = "matching" /\ MatchingNext
  /\ UNCHANGED <<focus, intakeVars, firmVars, invitation, connectionVars, pushVars, limitVars,
                 request, crashes>>

LimitsAlone ==
  /\ focus = "limits" /\ LimitsNext
  /\ UNCHANGED <<focus, intakeVars, firmVars, invitation, connectionVars, pushVars, matchingVars,
                 request, crashes>>

Next ==
  \/ IntakeAlone \/ FirmAlone \/ StaffAlone \/ ConnectionAlone \/ PushAlone
  \/ MatchingAlone \/ LimitsAlone
Spec == Init /\ [][Next]_vars

\* The event loop goes on with what it received, leases run out, and a reviewer retries.
Alone(action) == action /\ UNCHANGED <<Others, firmVars, invitation>>

FairSpec ==
  /\ Spec
  /\ \A r \in Requests : WF_vars(Alone(IntakeStep(r)))
  /\ \A u \in Uploads : WF_vars(Alone(LeaseExpires(u))) /\ SF_vars(Alone(RetryReview(u)))

=============================================================================
