----------------------------- MODULE FirmTenancy -----------------------------
(***************************************************************************)
(* An accounting firm and one client organization (lib/firm-tenancy.ts):   *)
(* staff with firm roles, the client's delegation with the highest         *)
(* organization role it allows, who of the staff is assigned to the        *)
(* client, and the check that every action of the firm goes through.       *)
(*                                                                         *)
(* The client's own members are lib/tenancy.ts's: here a set of admins.    *)
(* Every handler authorizes its actor in an await of its own, so what it   *)
(* read may have changed by the time it writes.                            *)
(***************************************************************************)
EXTENDS ServerRequests

CONSTANTS
  Staff,         \* users who may work for the firm
  Founder,       \* the one who created it
  ClientAdmins,  \* OWNER and ADMIN members of the client organization
  OfferedRoles,  \* firm roles given to staff
  AskedRoles     \* organization roles a firm asks for and a client grants

\* cleanFirmRole and cleanOrgRole refuse every other role before anything is written.
ASSUME FirmAssumption ==
  /\ OfferedRoles \subseteq {"PARTNER", "MANAGER", "ACCOUNTANT", "PAYROLL_SPECIALIST", "REVIEWER"}
  /\ AskedRoles \subseteq {"OWNER", "ADMIN", "APPROVER", "ACCOUNTANT", "VIEWER"}

VARIABLES
  member,      \* finclose_firm_memberships: role and status
  userFirm,    \* finclose_user_firms, the index by user
  delegation,  \* finclose_firm_client_delegations
  clientFirm,  \* finclose_organization_firm_delegations, the index by client
  assigned,    \* finclose_firm_client_assignments
  asked, granted, held   \* every role ever asked for, granted, and held by user

staffVars == <<member, userFirm, held>>
delegationVars == <<delegation, clientFirm, asked, granted>>
firmVars == <<staffVars, delegationVars, assigned>>

RoleLevel ==
  [VIEWER |-> 10, ACCOUNTANT |-> 30, APPROVER |-> 40, ADMIN |-> 50, OWNER |-> 60]
FirmRoleLevel ==
  [REVIEWER |-> 10, ACCOUNTANT |-> 20, PAYROLL_SPECIALIST |-> 20, MANAGER |-> 40, PARTNER |-> 50]
FirmRoleMaxOrgRole ==
  [PARTNER |-> "ADMIN", MANAGER |-> "ADMIN", ACCOUNTANT |-> "ACCOUNTANT",
   PAYROLL_SPECIALIST |-> "ACCOUNTANT", REVIEWER |-> "APPROVER"]

AtMost(role, ceiling) == RoleLevel[role] <= RoleLevel[ceiling]
Lower(role, other) == IF AtMost(role, other) THEN role ELSE other

\* effectiveDelegatedRole: the highest role that neither ceiling excludes.
EffectiveRole(maxRole, firmRole) ==
  CHOOSE role \in DOMAIN RoleLevel :
    RoleLevel[role] = RoleLevel[Lower(maxRole, FirmRoleMaxOrgRole[firmRole])]

Membership(role) == [role |-> role, status |-> "ACTIVE"]

FirmInit ==
  /\ member = [u \in Staff |-> IF u = Founder THEN Membership("PARTNER") ELSE None]
  /\ userFirm = member
  /\ delegation = None /\ clientFirm = None
  /\ assigned = {}
  /\ asked = {} /\ granted = {}
  /\ held = [u \in Staff |-> IF u = Founder THEN {"PARTNER"} ELSE {}]

IsMember(u) == member[u] # None /\ member[u].status = "ACTIVE"
HasFirmRole(u, minimum) ==
  u \in Staff /\ IsMember(u) /\ FirmRoleLevel[member[u].role] >= FirmRoleLevel[minimum]

OnlyReads == UNCHANGED firmVars

-----------------------------------------------------------------------------
(* Staff.  In(r): the actor, the target and the role *)

\* requireFirmRole(firmId, actor, 'MANAGER'), of every handler that the firm calls.
ManagerOps == {"addMember", "removeMember", "invite", "assign", "unassign"}
RequireManager(r) ==
  /\ \E op \in ManagerOps : At(r, op, "authorize")
  /\ OnlyReads
  /\ IF HasFirmRole(In(r).actor, "MANAGER")
     THEN Goto(r, IF request[r].op = "assign" THEN "delegation" ELSE "write", None)
     ELSE Answer(r)

SetMember(u, record) ==
  /\ member' = [member EXCEPT ![u] = record]
  /\ userFirm' = [userFirm EXCEPT ![u] = record]
  /\ held' = [held EXCEPT ![u] = @ \cup {record.role}]
  /\ UNCHANGED <<delegationVars, assigned>>

\* No look at what the target was before; joinFirmByInvitation reads that first.
AddFirmMember(r) ==
  /\ At(r, "addMember", "write") \/ At(r, "join", "write")
  /\ SetMember(In(r).target, Membership(In(r).role))
  /\ Answer(r)

ReadForJoin(r) ==
  /\ At(r, "join", "read") /\ OnlyReads
  /\ IF IsMember(In(r).target) THEN Answer(r) ELSE Goto(r, "write", None)

\* Removing a user who was never added leaves a REMOVED record, which reads as none.
RemoveFirmMember(r) ==
  LET u == In(r).target IN
  /\ At(r, "removeMember", "write")
  /\ IF member[u] = None THEN OnlyReads ELSE SetMember(u, [member[u] EXCEPT !.status = "REMOVED"])
  /\ Answer(r)

-----------------------------------------------------------------------------
(* The client's delegation *)

SetDelegation(record) ==
  /\ delegation' = record
  /\ clientFirm' = record
  /\ UNCHANGED <<staffVars, assigned>>

\* The whole record is replaced: an active delegation waits for consent again.
InviteClientDelegation(r) ==
  /\ At(r, "invite", "write")
  /\ SetDelegation([status |-> "PENDING", maxRole |-> In(r).role, requested |-> In(r).role])
  /\ asked' = asked \cup {In(r).role}
  /\ UNCHANGED granted
  /\ Answer(r)

\* acceptClientDelegation reads the record whatever its status; a revocation that found
\* no record left one without a requested role, and the update that would follow fails.
ReadForAccept(r) ==
  /\ At(r, "accept", "read") /\ OnlyReads
  /\ IF In(r).actor \in ClientAdmins /\ delegation # None /\ delegation.requested # None
     THEN Goto(r, "write", delegation.requested)
     ELSE Answer(r)

\* A bug to catch: what the client grants is taken as it comes.
FinalRoleAsGranted(grant, requested) == IF grant = None THEN requested ELSE grant

FinalRole(grant, requested) == IF grant = None THEN requested ELSE Lower(grant, requested)

\* Only the fields it names are written, on whatever record is there by now.
AcceptClientDelegation(r) ==
  LET role == FinalRole(In(r).role, Seen(r)) IN
  /\ At(r, "accept", "write")
  /\ SetDelegation([delegation EXCEPT !.status = "ACTIVE", !.maxRole = role])
  /\ granted' = granted \cup {IF In(r).role = None THEN Seen(r) ELSE In(r).role}
  /\ UNCHANGED asked
  /\ Answer(r)

RequireEitherSide(r) ==
  /\ At(r, "revoke", "authorize") /\ OnlyReads
  /\ IF HasFirmRole(In(r).actor, "MANAGER") \/ In(r).actor \in ClientAdmins
     THEN Goto(r, "write", None) ELSE Answer(r)

RevokeClientDelegation(r) ==
  /\ At(r, "revoke", "write")
  /\ SetDelegation(IF delegation = None
                   THEN [status |-> "REVOKED", maxRole |-> None, requested |-> None]
                   ELSE [delegation EXCEPT !.status = "REVOKED"])
  /\ UNCHANGED <<asked, granted>>
  /\ Answer(r)

-----------------------------------------------------------------------------
(* Assignments, and the check *)

ActiveDelegation == delegation # None /\ delegation.status = "ACTIVE"

ReadDelegationForAssign(r) ==
  /\ At(r, "assign", "delegation") /\ OnlyReads
  /\ IF ActiveDelegation THEN Goto(r, "target", None) ELSE Answer(r)

ReadTarget(r) ==
  /\ At(r, "assign", "target") /\ OnlyReads
  /\ IF IsMember(In(r).target) THEN Goto(r, "write", None) ELSE Answer(r)

SetAssigned(users) == assigned' = users /\ UNCHANGED <<staffVars, delegationVars>>

AssignFirmUserToClient(r) ==
  /\ At(r, "assign", "write")
  /\ SetAssigned(assigned \cup {In(r).target})
  /\ Answer(r)

UnassignFirmUser(r) ==
  /\ At(r, "unassign", "write")
  /\ SetAssigned(assigned \ {In(r).target})
  /\ Answer(r)

\* requireFirmClientAccess: membership, delegation, assignment, each a read of its own.
ReadMembership(r) ==
  /\ At(r, "access", "membership") /\ OnlyReads
  /\ IF IsMember(In(r).actor)
     THEN Goto(r, "delegation", [role |-> member[In(r).actor].role, maxRole |-> None])
     ELSE Answer(r)

ReadDelegation(r) ==
  /\ At(r, "access", "delegation") /\ OnlyReads
  /\ IF ActiveDelegation
     THEN Goto(r, "assignment", [role |-> Seen(r).role, maxRole |-> delegation.maxRole])
     ELSE Answer(r)

\* The partner sees every client; the others those they are assigned to.
GrantAccess(r) ==
  /\ At(r, "access", "assignment") /\ OnlyReads
  /\ IF Seen(r).role = "PARTNER" \/ In(r).actor \in assigned
     THEN Goto(r, "allowed", EffectiveRole(Seen(r).maxRole, Seen(r).role))
     ELSE Answer(r)

\* What the caller then does as that role is not the firm's matter.
ActOnClient(r) == At(r, "access", "allowed") /\ OnlyReads /\ Answer(r)

-----------------------------------------------------------------------------
(* The specification *)

Call(r, op, label, actor, target, role) ==
  Receive(r, op, label, [actor |-> actor, target |-> target, role |-> role])

\* Bound: the founder's own membership stays.
ReceiveFirm(r) ==
  /\ \/ \E a \in Staff, t \in Staff \ {Founder}, role \in OfferedRoles :
          Call(r, "addMember", "authorize", a, t, role) \/ Call(r, "join", "read", a, t, role)
     \/ \E a \in Staff, t \in Staff \ {Founder} :
          \/ Call(r, "removeMember", "authorize", a, t, None)
          \/ Call(r, "assign", "authorize", a, t, None)
          \/ Call(r, "unassign", "authorize", a, t, None)
     \/ \E a \in Staff, role \in AskedRoles : Call(r, "invite", "authorize", a, None, role)
     \/ \E a \in ClientAdmins, role \in AskedRoles \cup {None} :
          Call(r, "accept", "read", a, None, role)
     \/ \E a \in Staff \cup ClientAdmins : Call(r, "revoke", "authorize", a, None, None)
     \/ \E a \in Staff : Call(r, "access", "membership", a, None, None)
  /\ OnlyReads

FirmStep(r) ==
  \/ RequireManager(r)
  \/ AddFirmMember(r) \/ ReadForJoin(r) \/ RemoveFirmMember(r)
  \/ InviteClientDelegation(r) \/ ReadForAccept(r) \/ AcceptClientDelegation(r)
  \/ RequireEitherSide(r) \/ RevokeClientDelegation(r)
  \/ ReadDelegationForAssign(r) \/ ReadTarget(r)
  \/ AssignFirmUserToClient(r) \/ UnassignFirmUser(r)
  \/ ReadMembership(r) \/ ReadDelegation(r) \/ GrantAccess(r) \/ ActOnClient(r)

\* Every handler writes once, so one that dies before it only leaves a write out.
FirmNext == \E r \in Requests : ReceiveFirm(r) \/ FirmStep(r)

FirmSpec ==
  /\ RequestsInit /\ FirmInit
  /\ [][FirmNext \/ \E r \in Requests : Die(r) /\ OnlyReads]_<<request, crashes, firmVars>>

-----------------------------------------------------------------------------
(* Property *)

\* However invitations, acceptances, revocations and staff changes overlap, an active
\* delegation allows no more than the firm asked for and the client's admin granted, both
\* indexes agree, and the check never gives a user more than those and a firm role the
\* user held allow (firm-tenancy.ts:375 to :381).
FirmStaysWithinItsMandate ==
  LET Allowed(role) == /\ \E ceiling \in asked : AtMost(role, ceiling)
                       /\ \E ceiling \in granted : AtMost(role, ceiling) IN
  /\ member = userFirm /\ delegation = clientFirm
  /\ ActiveDelegation => Allowed(delegation.maxRole)
  /\ \A r \in Requests : At(r, "access", "allowed") =>
       /\ Allowed(Seen(r))
       /\ \E role \in held[In(r).actor] : AtMost(Seen(r), FirmRoleMaxOrgRole[role])

=============================================================================
