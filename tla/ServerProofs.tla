------------------------------ MODULE ServerProofs ------------------------------
(***************************************************************************)
(* Proofs about the parts of the server that MCServices checks beside the  *)
(* intake of a service deployment: FirmTenancy for any number of requests, *)
(* of staff and of client administrators, and for requests that die at any *)
(* await; StaffInvitations for any plan and any number of invitations;     *)
(* Connections for any organizations and tokens, and for providers that    *)
(* rotate refresh tokens or keep them; JournalPush for any jobs and        *)
(* provider records; RateLimits for any keys, limit and window; and        *)
(* BankReconciliation for any lines in any order.                          *)
(***************************************************************************)
EXTENDS StaffInvitations, Connections, JournalPush, BankReconciliation, RateLimits,
        ServerRequestsProofs, FiniteSetTheorems, FunctionTheorems, SequenceTheorems

(* A firm, its clients and its staff *)

RoleNames == {"OWNER", "ADMIN", "APPROVER", "ACCOUNTANT", "VIEWER"}
FirmRoles == {"PARTNER", "MANAGER", "ACCOUNTANT", "PAYROLL_SPECIALIST", "REVIEWER"}

\* A role that some role the firm asked for and some role the client granted allow.
Mandated(role, asks, grants) ==
  /\ role \in RoleNames
  /\ \E ceiling \in asks : AtMost(role, ceiling)
  /\ \E ceiling \in grants : AtMost(role, ceiling)

IsDelegation(d) == d = [status |-> d.status, maxRole |-> d.maxRole, requested |-> d.requested]
OnRecord(d, asks) == IsDelegation(d) /\ (d.requested # None => d.requested \in asks)
IsMembership(m) == m = [role |-> m.role, status |-> m.status]

RolesAreGood == asked \subseteq RoleNames /\ granted \subseteq RoleNames

IndexesAgree == member = userFirm /\ delegation = clientFirm

\* The role of a member, removed ones included, is one the user held.
MembersAreGood ==
  /\ DOMAIN member = Staff /\ DOMAIN held = Staff
  /\ \A u \in Staff : member[u] # None =>
       IsMembership(member[u]) /\ member[u].role \in held[u] \cap FirmRoles

\* The delegation waits for a role that was asked for, or stays within the mandate.
DelegationIsGood ==
  delegation # None =>
    /\ OnRecord(delegation, asked)
    /\ delegation.status = "ACTIVE" => Mandated(delegation.maxRole, asked, granted)

StoresAreGood == RolesAreGood /\ IndexesAgree /\ MembersAreGood /\ DelegationIsGood

\* What a request q was called with, and what it has read, given whether the
\* delegation is on record, what was asked for and granted, and which firm roles each user held.
Knows(q, onRecord, asks, grants, roles) ==
  /\ q.op \in {"addMember", "join"} => q.in.target \in Staff /\ q.in.role \in FirmRoles
  /\ q.op = "removeMember" => q.in.target \in Staff
  /\ q.op = "invite" => q.in.role \in RoleNames
  /\ q.op = "accept" /\ q.in.role # None => q.in.role \in RoleNames
  /\ q.op = "accept" /\ q.at = "write" => onRecord /\ q.seen \in asks
  /\ q.op = "access" => q.in.actor \in Staff
  /\ q.op = "access" /\ q.at \in {"delegation", "assignment"} =>
       q.seen.role \in roles[q.in.actor] \cap FirmRoles
  /\ q.op = "access" /\ q.at = "assignment" => Mandated(q.seen.maxRole, asks, grants)
  /\ q.op = "access" /\ q.at = "allowed" =>
       /\ Mandated(q.seen, asks, grants)
       /\ \E role \in roles[q.in.actor] : AtMost(q.seen, FirmRoleMaxOrgRole[role])

KnowsNow(r) == Knows(request[r], OnRecord(delegation, asked), asked, granted, held)

FirmInv == RequestShape /\ StoresAreGood /\ \A r \in Requests : KnowsNow(r)

-----------------------------------------------------------------------------
(* Roles are ordered by their level *)

\* The roles and their levels, as the two records give them.
LEMMA Levels ==
  /\ \A role \in RoleNames : RoleLevel[role] \in Nat
  /\ DOMAIN RoleLevel = RoleNames
  /\ \A role \in FirmRoles : FirmRoleMaxOrgRole[role] \in RoleNames
<1>1. \A role \in RoleNames : RoleLevel[role] \in Nat
  BY DEF RoleLevel, RoleNames
<1>2. DOMAIN RoleLevel = RoleNames
  BY DEF RoleLevel, RoleNames
<1>3. \A role \in FirmRoles : FirmRoleMaxOrgRole[role] \in RoleNames
  BY DEF FirmRoleMaxOrgRole, FirmRoles, RoleNames
<1>4. QED  BY <1>1, <1>2, <1>3

\* The lower of two roles is one of them and within both.
LEMMA LowerIsWithin ==
  ASSUME NEW a \in RoleNames, NEW b \in RoleNames
  PROVE  Lower(a, b) \in RoleNames /\ AtMost(Lower(a, b), a) /\ AtMost(Lower(a, b), b)
BY Levels DEF Lower, AtMost

\* Being within a role is transitive.
LEMMA AtMostIsTransitive ==
  ASSUME NEW a \in RoleNames, NEW b \in RoleNames, NEW c \in RoleNames,
         AtMost(a, b), AtMost(b, c)
  PROVE  AtMost(a, c)
BY Levels DEF AtMost

\* The role that a check gives is within the delegation and within the firm role.
LEMMA EffectiveIsWithin ==
  ASSUME NEW max \in RoleNames, NEW role \in FirmRoles
  PROVE  /\ EffectiveRole(max, role) \in RoleNames
         /\ AtMost(EffectiveRole(max, role), max)
         /\ AtMost(EffectiveRole(max, role), FirmRoleMaxOrgRole[role])
<1> DEFINE cap == FirmRoleMaxOrgRole[role]
<1> DEFINE low == Lower(max, cap)
<1>1. cap \in RoleNames
  BY Levels
<1>2. low \in RoleNames /\ AtMost(low, max) /\ AtMost(low, cap)
  BY <1>1, LowerIsWithin
<1> HIDE DEF low, cap
<1>3. \E e \in RoleNames : RoleLevel[e] = RoleLevel[low]
  BY <1>2
<1>4. EffectiveRole(max, role) = CHOOSE e \in RoleNames : RoleLevel[e] = RoleLevel[low]
  BY Levels DEF EffectiveRole, low, cap
<1>5. EffectiveRole(max, role) \in RoleNames /\ RoleLevel[EffectiveRole(max, role)] = RoleLevel[low]
  BY <1>3, <1>4
<1>6. QED  BY <1>2, <1>5 DEF AtMost, cap

\* A role within a mandated one is mandated.
LEMMA WithinMandate ==
  ASSUME NEW asks \in SUBSET RoleNames, NEW grants \in SUBSET RoleNames, NEW max,
         Mandated(max, asks, grants), NEW role \in RoleNames, AtMost(role, max)
  PROVE  Mandated(role, asks, grants)
BY AtMostIsTransitive DEF Mandated

-----------------------------------------------------------------------------
(* What a step leaves of what requests know *)

\* Nothing that was asked for, granted or held is ever taken back, and a delegation that
\* was recorded stays on record.
FirmProgress ==
  /\ OnRecord(delegation, asked) => OnRecord(delegation', asked')
  /\ asked \subseteq asked' /\ granted \subseteq granted'
  /\ \A u \in Staff : held[u] \subseteq held'[u]

\* A mandate only grows.
LEMMA MandateGrows ==
  ASSUME FirmProgress, NEW role, Mandated(role, asked, granted)
  PROVE  Mandated(role, asked', granted')
BY DEF FirmProgress, Mandated

\* So what a request knows stays true.
LEMMA KnowledgeStays ==
  ASSUME FirmProgress, NEW q, Knows(q, OnRecord(delegation, asked), asked, granted, held)
  PROVE  Knows(q, OnRecord(delegation', asked'), asked', granted', held')
<1>1. /\ q.op \in {"addMember", "join"} => q.in.target \in Staff /\ q.in.role \in FirmRoles
      /\ q.op = "removeMember" => q.in.target \in Staff
      /\ q.op = "invite" => q.in.role \in RoleNames
      /\ q.op = "accept" /\ q.in.role # None => q.in.role \in RoleNames
      /\ q.op = "access" => q.in.actor \in Staff
  BY DEF Knows
<1>2. q.op = "accept" /\ q.at = "write" => OnRecord(delegation', asked') /\ q.seen \in asked'
  BY DEF Knows, FirmProgress
<1>3. q.op = "access" /\ q.at \in {"delegation", "assignment"} =>
        q.seen.role \in held'[q.in.actor] \cap FirmRoles
  BY <1>1 DEF Knows, FirmProgress
<1>4. q.op = "access" /\ q.at = "assignment" => Mandated(q.seen.maxRole, asked', granted')
  BY MandateGrows DEF Knows
<1>5. ASSUME q.op = "access" /\ q.at = "allowed"
      PROVE  /\ Mandated(q.seen, asked', granted')
             /\ \E role \in held'[q.in.actor] : AtMost(q.seen, FirmRoleMaxOrgRole[role])
  BY <1>1, <1>5, MandateGrows DEF Knows, FirmProgress
<1>6. QED  BY <1>1, <1>2, <1>3, <1>4, <1>5 DEF Knows

\* A step of one request keeps the invariant if the stores stay good, nothing is taken back,
\* and the request that moved knows only what is so.
LEMMA MoveKeepsInv ==
  ASSUME FirmInv, NEW r \in Requests, NEW op, NEW label, NEW seen,
         MovesTo(r, op, label, seen), FirmProgress, StoresAreGood', KnowsNow(r)'
  PROVE  FirmInv'
<1>1. RequestShape'
  BY MovesKeepShape DEF FirmInv
<1>2. ASSUME NEW s \in Requests \ {r}
      PROVE  KnowsNow(s)'
  <2>1. /\ request'[s] = request[s]
        /\ Knows(request[s], OnRecord(delegation, asked), asked, granted, held)
    BY DEF MovesTo, FirmInv, KnowsNow
  <2>2. Knows(request[s], OnRecord(delegation', asked'), asked', granted', held')
    BY <2>1, KnowledgeStays
  <2>3. KnowsNow(s)' <=> Knows(request'[s], OnRecord(delegation', asked'), asked', granted', held')
    BY DEF KnowsNow, Knows, OnRecord, IsDelegation
  <2>4. QED  BY <2>1, <2>2, <2>3
<1>3. \A s \in Requests : KnowsNow(s)'
  BY <1>2
<1>4. QED  BY <1>1, <1>3 DEF FirmInv

\* A read leaves the stores as they are.
LEMMA ReadsKeepStores ==
  ASSUME StoresAreGood, OnlyReads
  PROVE  StoresAreGood' /\ FirmProgress
<1>1. /\ member' = member /\ userFirm' = userFirm /\ held' = held /\ delegation' = delegation
      /\ clientFirm' = clientFirm /\ asked' = asked /\ granted' = granted
  BY DEF OnlyReads, firmVars, staffVars, delegationVars
<1>2. QED
  BY <1>1 DEF StoresAreGood, RolesAreGood, IndexesAgree, MembersAreGood, DelegationIsGood,
              FirmProgress

\* A request that is answered, or dies, knows nothing.
LEMMA AnswerKeepsInv ==
  ASSUME FirmInv, NEW r \in Requests, request' = [request EXCEPT ![r] = IdleRequest],
         FirmProgress, StoresAreGood'
  PROVE  FirmInv'
<1>1. MovesTo(r, "none", "idle", None)
  BY AnswerMoves DEF FirmInv
<1>2. request'[r].op = "none"
  BY <1>1 DEF MovesTo
<1>3. KnowsNow(r)'
  BY <1>2 DEF KnowsNow, Knows
<1>4. QED  BY <1>1, <1>3, MoveKeepsInv

\* One that goes on at another await knows what it was called with, and no more unless it
\* accepts a delegation or checks an access.
LEMMA GoesOnKeepsInv ==
  ASSUME FirmInv, NEW r \in Requests, NEW label, NEW seen, Goto(r, label, seen), OnlyReads,
         request[r].op \notin {"accept", "access"}
  PROVE  FirmInv'
<1>1. MovesTo(r, request[r].op, label, seen) /\ request'[r].in = request[r].in
  BY GotoMoves DEF FirmInv
<1>2. request'[r].op = request[r].op
  BY <1>1 DEF MovesTo
<1>3. KnowsNow(r)'
  BY <1>1, <1>2 DEF FirmInv, KnowsNow, Knows
<1>4. StoresAreGood' /\ FirmProgress
  BY ReadsKeepStores DEF FirmInv
<1>5. QED  BY <1>1, <1>3, <1>4, MoveKeepsInv

-----------------------------------------------------------------------------
(* The invariant, step by step *)

\* At the start only the founder holds a role, and nothing is delegated.
LEMMA FirmInvInit ==
  ASSUME RequestsInit, FirmInit
  PROVE  FirmInv
<1>1. RequestShape /\ \A r \in Requests : request[r].op = "none"
  BY DEF RequestsInit, RequestShape, IdleRequest
<1>2. \A r \in Requests : KnowsNow(r)
  BY <1>1 DEF KnowsNow, Knows
<1>3. MembersAreGood
  BY DEF FirmInit, MembersAreGood, Membership, IsMembership, FirmRoles
<1>4. RolesAreGood /\ IndexesAgree /\ DelegationIsGood
  BY DEF FirmInit, RolesAreGood, IndexesAgree, DelegationIsGood
<1>5. QED  BY <1>1, <1>2, <1>3, <1>4 DEF FirmInv, StoresAreGood

\* The reads of the handlers that neither accept nor check an access.
LEMMA AuthorizingSteps ==
  ASSUME FirmInv, NEW r \in Requests,
         \/ RequireManager(r) \/ ReadForJoin(r) \/ RequireEitherSide(r)
         \/ ReadDelegationForAssign(r) \/ ReadTarget(r)
  PROVE  FirmInv'
<1>1. /\ OnlyReads /\ request[r].op \notin {"accept", "access"}
      /\ Answer(r) \/ \E label, seen : Goto(r, label, seen)
  BY DEF RequireManager, ReadForJoin, RequireEitherSide, ReadDelegationForAssign, ReadTarget,
         At, ManagerOps
<1>2. CASE Answer(r)
  BY <1>1, <1>2, ReadsKeepStores, AnswerKeepsInv DEF Answer, FirmInv
<1>3. ASSUME NEW label, NEW seen, Goto(r, label, seen)
      PROVE  FirmInv'
  BY <1>1, <1>3, GoesOnKeepsInv
<1>4. QED  BY <1>1, <1>2, <1>3

\* A membership is written, for a user who holds its role from then on.
LEMMA MemberWritten ==
  ASSUME StoresAreGood, NEW u \in Staff, NEW record, IsMembership(record),
         record.role \in FirmRoles, SetMember(u, record)
  PROVE  StoresAreGood' /\ FirmProgress
<1>1. /\ delegation' = delegation /\ clientFirm' = clientFirm /\ asked' = asked
      /\ granted' = granted /\ member' = [member EXCEPT ![u] = record]
      /\ userFirm' = [userFirm EXCEPT ![u] = record]
      /\ held' = [held EXCEPT ![u] = @ \cup {record.role}]
  BY DEF SetMember, delegationVars
<1>2. MembersAreGood'
  BY <1>1 DEF StoresAreGood, MembersAreGood
<1>3. FirmProgress
  BY <1>1 DEF FirmProgress, StoresAreGood, MembersAreGood
<1>4. (RolesAreGood /\ IndexesAgree /\ DelegationIsGood)'
  BY <1>1 DEF StoresAreGood, RolesAreGood, IndexesAgree, DelegationIsGood
<1>5. QED  BY <1>2, <1>3, <1>4 DEF StoresAreGood

\* A member is added or removed.
LEMMA StaffSteps ==
  ASSUME FirmInv, NEW r \in Requests, AddFirmMember(r) \/ RemoveFirmMember(r)
  PROVE  FirmInv'
<1> DEFINE u == In(r).target
<1>0. Knows(request[r], OnRecord(delegation, asked), asked, granted, held)
  BY DEF FirmInv, KnowsNow
<1>1. CASE AddFirmMember(r)
  <2>1. u \in Staff /\ In(r).role \in FirmRoles
    BY <1>0, <1>1 DEF AddFirmMember, At, In, Knows
  <2>2. SetMember(u, Membership(In(r).role)) /\ Answer(r)
    BY <1>1 DEF AddFirmMember
  <2>3. IsMembership(Membership(In(r).role)) /\ Membership(In(r).role).role = In(r).role
    BY DEF IsMembership, Membership
  <2>4. StoresAreGood' /\ FirmProgress
    BY <2>1, <2>2, <2>3, MemberWritten DEF FirmInv
  <2>5. QED  BY <2>2, <2>4, AnswerKeepsInv DEF Answer
<1>2. CASE RemoveFirmMember(r)
  <2>1. u \in Staff /\ Answer(r)
    BY <1>0, <1>2 DEF RemoveFirmMember, At, In, Knows
  <2>2. CASE OnlyReads
    BY <2>1, <2>2, ReadsKeepStores, AnswerKeepsInv DEF Answer, FirmInv
  <2>3. CASE member[u] # None /\ SetMember(u, [member[u] EXCEPT !.status = "REMOVED"])
    <3> DEFINE m == member[u]
    <3> DEFINE n == [m EXCEPT !.status = "REMOVED"]
    <3>1. IsMembership(m) /\ m.role \in FirmRoles
      BY <2>1, <2>3 DEF FirmInv, StoresAreGood, MembersAreGood
    <3> HIDE DEF m
    <3>2. IsMembership(n) /\ n.role = m.role
      BY <3>1 DEF IsMembership
    <3>3. SetMember(u, n)
      BY <2>3 DEF m
    <3> HIDE DEF n, u
    <3>4. StoresAreGood' /\ FirmProgress
      BY <2>1, <3>1, <3>2, <3>3, MemberWritten DEF FirmInv
    <3>5. QED  BY <2>1, <3>4, AnswerKeepsInv DEF Answer
  <2>4. QED  BY <1>2, <2>2, <2>3 DEF RemoveFirmMember
<1>3. QED  BY <1>1, <1>2

\* A delegation is written that waits for what was asked, or stays within the mandate.
LEMMA DelegationWritten ==
  ASSUME StoresAreGood, NEW d, IsDelegation(d), SetDelegation(d),
         asked \subseteq asked', granted \subseteq granted', RolesAreGood',
         d.requested # None => d.requested \in asked',
         d.status = "ACTIVE" => Mandated(d.maxRole, asked', granted')
  PROVE  StoresAreGood' /\ FirmProgress
<1>1. /\ delegation' = d /\ clientFirm' = d /\ member' = member /\ userFirm' = userFirm
      /\ held' = held /\ OnRecord(delegation', asked')
  BY DEF SetDelegation, staffVars, OnRecord
<1>2. MembersAreGood'
  BY <1>1 DEF StoresAreGood, MembersAreGood
<1>3. FirmProgress
  BY <1>1 DEF FirmProgress
<1>4. IndexesAgree' /\ DelegationIsGood'
  BY <1>1 DEF StoresAreGood, IndexesAgree, DelegationIsGood
<1>5. QED  BY <1>2, <1>3, <1>4 DEF StoresAreGood

\* An invitation asks for a role and waits for consent.
LEMMA InviteStep ==
  ASSUME FirmInv, NEW r \in Requests, InviteClientDelegation(r)
  PROVE  FirmInv'
<1> DEFINE role == In(r).role
<1> DEFINE d == [status |-> "PENDING", maxRole |-> role, requested |-> role]
<1>1. /\ SetDelegation(d) /\ Answer(r) /\ asked' = asked \cup {role} /\ granted' = granted
  BY DEF InviteClientDelegation
<1>2. role \in RoleNames
  BY DEF InviteClientDelegation, FirmInv, KnowsNow, Knows, At, In
<1>3. IsDelegation(d) /\ d.requested = role /\ d.status # "ACTIVE"
  BY DEF IsDelegation
<1> HIDE DEF d, role
<1>4. RolesAreGood'
  BY <1>1, <1>2 DEF FirmInv, StoresAreGood, RolesAreGood
<1>5. StoresAreGood' /\ FirmProgress
  BY <1>1, <1>3, <1>4, DelegationWritten DEF FirmInv
<1>6. QED  BY <1>1, <1>5, AnswerKeepsInv DEF Answer

\* An acceptance writes a role within what it read was asked and what its admin grants, on
\* whatever record is there by then.
LEMMA AcceptStep ==
  ASSUME FirmInv, NEW r \in Requests, AcceptClientDelegation(r)
  PROVE  FirmInv'
<1> DEFINE grant == In(r).role
<1> DEFINE seen == Seen(r)
<1> DEFINE given == IF grant = None THEN seen ELSE grant
<1> DEFINE role == FinalRole(grant, seen)
<1> DEFINE e == [delegation EXCEPT !.status = "ACTIVE"]
<1> DEFINE d == [e EXCEPT !.maxRole = role]
<1>1. SetDelegation(d) /\ Answer(r) /\ granted' = granted \cup {given} /\ asked' = asked
  BY DEF AcceptClientDelegation
<1>2. /\ OnRecord(delegation, asked) /\ seen \in asked /\ seen \in RoleNames
      /\ IsDelegation(delegation) /\ (delegation.requested # None => delegation.requested \in asked)
      /\ grant # None => grant \in RoleNames
  BY DEF AcceptClientDelegation, FirmInv, StoresAreGood, RolesAreGood, KnowsNow, Knows, At, In,
         Seen, OnRecord
<1>3. /\ given \in RoleNames /\ role \in RoleNames
      /\ AtMost(role, given) /\ AtMost(role, seen)
  <2>1. AtMost(seen, seen)
    BY <1>2, Levels DEF AtMost
  <2>2. CASE grant = None
    BY <1>2, <2>1, <2>2 DEF FinalRole
  <2>3. CASE grant # None
    BY <1>2, <2>3, LowerIsWithin DEF FinalRole
  <2>4. QED  BY <2>2, <2>3
<1> HIDE DEF grant, seen, given, role
<1>4. IsDelegation(e) /\ e.status = "ACTIVE" /\ e.requested = delegation.requested
  BY <1>2 DEF IsDelegation
<1> HIDE DEF e
<1>5. IsDelegation(d) /\ d.maxRole = role /\ d.requested = delegation.requested
  BY <1>4 DEF IsDelegation
<1> HIDE DEF d
<1>6. RolesAreGood'
  BY <1>1, <1>3 DEF FirmInv, StoresAreGood, RolesAreGood
<1>7. Mandated(d.maxRole, asked', granted')
  BY <1>1, <1>2, <1>3, <1>5 DEF Mandated
<1>8. d.requested # None => d.requested \in asked'
  BY <1>1, <1>2, <1>5
<1>9. StoresAreGood' /\ FirmProgress
  BY <1>1, <1>5, <1>6, <1>7, <1>8, DelegationWritten DEF FirmInv
<1>10. QED  BY <1>1, <1>9, AnswerKeepsInv DEF Answer

\* A revocation leaves a record that allows nothing.
LEMMA RevokeStep ==
  ASSUME FirmInv, NEW r \in Requests, RevokeClientDelegation(r)
  PROVE  FirmInv'
<1> DEFINE new == [status |-> "REVOKED", maxRole |-> None, requested |-> None]
<1> DEFINE old == [delegation EXCEPT !.status = "REVOKED"]
<1>1. /\ SetDelegation(IF delegation = None THEN new ELSE old) /\ Answer(r)
      /\ asked' = asked /\ granted' = granted
  BY DEF RevokeClientDelegation
<1>2. RolesAreGood'
  BY <1>1 DEF FirmInv, StoresAreGood, RolesAreGood
<1>3. CASE delegation = None
  <2>1. IsDelegation(new) /\ new.status # "ACTIVE" /\ new.requested = None
    BY DEF IsDelegation
  <2>2. SetDelegation(new)
    BY <1>1, <1>3
  <2> HIDE DEF new
  <2>3. StoresAreGood' /\ FirmProgress
    BY <1>1, <1>2, <2>1, <2>2, DelegationWritten DEF FirmInv
  <2>4. QED  BY <1>1, <2>3, AnswerKeepsInv DEF Answer
<1>4. CASE delegation # None
  <2>1. IsDelegation(delegation) /\ (delegation.requested # None => delegation.requested \in asked)
    BY <1>4 DEF FirmInv, StoresAreGood, DelegationIsGood, OnRecord
  <2>2. IsDelegation(old) /\ old.status # "ACTIVE" /\ old.requested = delegation.requested
    BY <2>1 DEF IsDelegation
  <2>3. SetDelegation(old)
    BY <1>1, <1>4
  <2> HIDE DEF old
  <2>4. StoresAreGood' /\ FirmProgress
    BY <1>1, <1>2, <2>1, <2>2, <2>3, DelegationWritten DEF FirmInv
  <2>5. QED  BY <1>1, <2>4, AnswerKeepsInv DEF Answer
<1>5. QED  BY <1>3, <1>4

\* Assignments are no part of the mandate: they only decide who is let in at all.
LEMMA AssignmentSteps ==
  ASSUME FirmInv, NEW r \in Requests, AssignFirmUserToClient(r) \/ UnassignFirmUser(r)
  PROVE  FirmInv'
<1>1. Answer(r) /\ UNCHANGED <<staffVars, delegationVars>>
  BY DEF AssignFirmUserToClient, UnassignFirmUser, SetAssigned
<1>2. /\ member' = member /\ userFirm' = userFirm /\ held' = held /\ delegation' = delegation
      /\ clientFirm' = clientFirm /\ asked' = asked /\ granted' = granted
  BY <1>1 DEF staffVars, delegationVars
<1>3. StoresAreGood' /\ FirmProgress
  BY <1>2 DEF FirmInv, StoresAreGood, RolesAreGood, IndexesAgree, MembersAreGood,
              DelegationIsGood, FirmProgress
<1>4. QED  BY <1>1, <1>3, AnswerKeepsInv DEF Answer

\* What an acceptance reads was asked for.
LEMMA ReadForAcceptStep ==
  ASSUME FirmInv, NEW r \in Requests, ReadForAccept(r)
  PROVE  FirmInv'
<1>1. /\ OnlyReads /\ request[r].op = "accept"
      /\ \/ Answer(r)
         \/ /\ delegation # None /\ delegation.requested # None
            /\ Goto(r, "write", delegation.requested)
  BY DEF ReadForAccept, At
<1>2. StoresAreGood' /\ FirmProgress
  BY <1>1, ReadsKeepStores DEF FirmInv
<1>3. CASE Answer(r)
  BY <1>2, <1>3, AnswerKeepsInv DEF Answer
<1>4. CASE /\ delegation # None /\ delegation.requested # None
           /\ Goto(r, "write", delegation.requested)
  <2>1. OnRecord(delegation, asked) /\ delegation.requested \in asked
    BY <1>4 DEF FirmInv, StoresAreGood, DelegationIsGood, OnRecord
  <2>2. MovesTo(r, "accept", "write", delegation.requested) /\ request'[r].in = request[r].in
    BY <1>1, <1>4, GotoMoves DEF FirmInv
  <2>3. /\ request'[r].op = "accept" /\ request'[r].at = "write"
        /\ request'[r].seen = delegation.requested
    BY <2>2 DEF MovesTo
  <2>4. request[r].in.role # None => request[r].in.role \in RoleNames
    BY <1>1 DEF FirmInv, KnowsNow, Knows
  <2>5. OnRecord(delegation, asked)' /\ delegation.requested \in asked'
    BY <1>2, <2>1 DEF FirmProgress, OnRecord, IsDelegation
  <2>6. KnowsNow(r)'
    BY <2>2, <2>3, <2>4, <2>5 DEF KnowsNow, Knows
  <2>7. QED  BY <1>2, <2>2, <2>6, MoveKeepsInv
<1>5. QED  BY <1>1, <1>3, <1>4

-----------------------------------------------------------------------------
(* The check, read by read *)

\* The firm role that the check reads is one the user holds.
LEMMA ReadMembershipStep ==
  ASSUME FirmInv, NEW r \in Requests, ReadMembership(r)
  PROVE  FirmInv'
<1> DEFINE u == In(r).actor
<1> DEFINE seen == [role |-> member[u].role, maxRole |-> None]
<1>1. /\ OnlyReads /\ request[r].op = "access"
      /\ Answer(r) \/ (IsMember(u) /\ Goto(r, "delegation", seen))
  BY DEF ReadMembership, At
<1>2. StoresAreGood' /\ FirmProgress
  BY <1>1, ReadsKeepStores DEF FirmInv
<1>3. CASE Answer(r)
  BY <1>2, <1>3, AnswerKeepsInv DEF Answer
<1>4. CASE IsMember(u) /\ Goto(r, "delegation", seen)
  <2>1. u \in Staff /\ u = request[r].in.actor
    BY <1>1 DEF FirmInv, KnowsNow, Knows, In
  <2>2. seen.role \in held[u] \cap FirmRoles
    BY <1>4, <2>1 DEF IsMember, FirmInv, StoresAreGood, MembersAreGood
  <2> HIDE DEF seen
  <2>3. MovesTo(r, "access", "delegation", seen) /\ request'[r].in = request[r].in
    BY <1>1, <1>4, GotoMoves DEF FirmInv
  <2>4. request'[r].op = "access" /\ request'[r].at = "delegation" /\ request'[r].seen = seen
    BY <2>3 DEF MovesTo
  <2>5. seen.role \in held'[u] \cap FirmRoles
    BY <1>2, <2>1, <2>2 DEF FirmProgress
  <2>6. KnowsNow(r)'
    BY <2>1, <2>3, <2>4, <2>5 DEF KnowsNow, Knows
  <2>7. QED  BY <1>2, <2>3, <2>6, MoveKeepsInv
<1>5. QED  BY <1>1, <1>3, <1>4

\* What the delegation allows when it is read is within the mandate.
LEMMA ReadDelegationStep ==
  ASSUME FirmInv, NEW r \in Requests, ReadDelegation(r)
  PROVE  FirmInv'
<1> DEFINE u == request[r].in.actor
<1> DEFINE seen == [role |-> Seen(r).role, maxRole |-> delegation.maxRole]
<1>1. /\ OnlyReads /\ request[r].op = "access" /\ request[r].at = "delegation"
      /\ Answer(r) \/ (ActiveDelegation /\ Goto(r, "assignment", seen))
  BY DEF ReadDelegation, At
<1>2. StoresAreGood' /\ FirmProgress
  BY <1>1, ReadsKeepStores DEF FirmInv
<1>3. CASE Answer(r)
  BY <1>2, <1>3, AnswerKeepsInv DEF Answer
<1>4. CASE ActiveDelegation /\ Goto(r, "assignment", seen)
  <2>1. u \in Staff /\ Seen(r).role \in held[u] \cap FirmRoles
    BY <1>1 DEF FirmInv, KnowsNow, Knows, Seen
  <2>2. Mandated(delegation.maxRole, asked, granted)
    BY <1>4 DEF ActiveDelegation, FirmInv, StoresAreGood, DelegationIsGood
  <2>3. seen.role \in held[u] \cap FirmRoles /\ Mandated(seen.maxRole, asked, granted)
    BY <2>1, <2>2
  <2> HIDE DEF seen
  <2>4. MovesTo(r, "access", "assignment", seen) /\ request'[r].in = request[r].in
    BY <1>1, <1>4, GotoMoves DEF FirmInv
  <2>5. request'[r].op = "access" /\ request'[r].at = "assignment" /\ request'[r].seen = seen
    BY <2>4 DEF MovesTo
  <2>6. seen.role \in held'[u] \cap FirmRoles /\ Mandated(seen.maxRole, asked', granted')
    BY <1>2, <2>1, <2>3, MandateGrows DEF FirmProgress
  <2>7. KnowsNow(r)'
    BY <2>1, <2>4, <2>5, <2>6 DEF KnowsNow, Knows
  <2>8. QED  BY <1>2, <2>4, <2>7, MoveKeepsInv
<1>5. QED  BY <1>1, <1>3, <1>4

\* So is the role the check gives, and it is within the firm role too.
LEMMA GrantAccessStep ==
  ASSUME FirmInv, NEW r \in Requests, GrantAccess(r)
  PROVE  FirmInv'
<1> DEFINE u == request[r].in.actor
<1> DEFINE role == request[r].seen.role
<1> DEFINE max == request[r].seen.maxRole
<1> DEFINE seen == EffectiveRole(max, role)
<1>1. /\ OnlyReads /\ request[r].op = "access" /\ request[r].at = "assignment"
      /\ Answer(r) \/ Goto(r, "allowed", seen)
  BY DEF GrantAccess, At, Seen
<1>2. StoresAreGood' /\ FirmProgress
  BY <1>1, ReadsKeepStores DEF FirmInv
<1>3. CASE Answer(r)
  BY <1>2, <1>3, AnswerKeepsInv DEF Answer
<1>4. CASE Goto(r, "allowed", seen)
  <2>1. u \in Staff /\ role \in held[u] \cap FirmRoles /\ Mandated(max, asked, granted)
    BY <1>1 DEF FirmInv, KnowsNow, Knows
  <2>2. max \in RoleNames /\ asked \in SUBSET RoleNames /\ granted \in SUBSET RoleNames
    BY <2>1 DEF Mandated, FirmInv, StoresAreGood, RolesAreGood
  <2> HIDE DEF max, role
  <2>3. /\ seen \in RoleNames /\ AtMost(seen, max)
        /\ AtMost(seen, FirmRoleMaxOrgRole[role])
    BY <2>1, <2>2, EffectiveIsWithin
  <2> HIDE DEF seen
  <2>4. Mandated(seen, asked, granted)
    BY <2>1, <2>2, <2>3, WithinMandate
  <2>5. MovesTo(r, "access", "allowed", seen) /\ request'[r].in = request[r].in
    BY <1>1, <1>4, GotoMoves DEF FirmInv
  <2>6. request'[r].op = "access" /\ request'[r].at = "allowed" /\ request'[r].seen = seen
    BY <2>5 DEF MovesTo
  <2>7. role \in held'[u] /\ Mandated(seen, asked', granted')
    BY <1>2, <2>1, <2>4, MandateGrows DEF FirmProgress
  <2>8. KnowsNow(r)'
    BY <2>1, <2>3, <2>5, <2>6, <2>7 DEF KnowsNow, Knows
  <2>9. QED  BY <1>2, <2>5, <2>8, MoveKeepsInv
<1>5. QED  BY <1>1, <1>3, <1>4

-----------------------------------------------------------------------------
(* The theorem *)

\* A request arrives with an actor and a target of the staff and with roles of the lists.
LEMMA ReceiveStep ==
  ASSUME FirmInv, NEW r \in Requests, ReceiveFirm(r)
  PROVE  FirmInv'
<1>1. StoresAreGood' /\ FirmProgress
  BY ReadsKeepStores DEF ReceiveFirm, FirmInv
<1>2. ASSUME NEW op, NEW label, NEW actor, NEW target, NEW role,
             Call(r, op, label, actor, target, role),
             label \in {"authorize", "read", "membership"},
             op \in {"addMember", "join"} => target \in Staff /\ role \in FirmRoles,
             op = "removeMember" => target \in Staff,
             op = "invite" => role \in RoleNames,
             op = "accept" /\ role # None => role \in RoleNames,
             op = "access" => actor \in Staff
      PROVE  FirmInv'
  <2> DEFINE in == [actor |-> actor, target |-> target, role |-> role]
  <2>1. in.actor = actor /\ in.target = target /\ in.role = role /\ Receive(r, op, label, in)
    BY <1>2 DEF Call
  <2> HIDE DEF in
  <2>2. MovesTo(r, op, label, None) /\ request'[r].in = in
    BY <2>1, ReceiveMoves DEF FirmInv
  <2>3. request'[r].op = op /\ request'[r].at = label
    BY <2>2 DEF MovesTo
  <2>4. KnowsNow(r)'
    BY <1>2, <2>1, <2>2, <2>3 DEF KnowsNow, Knows
  <2>5. QED  BY <1>1, <2>2, <2>4, MoveKeepsInv
<1>3. OfferedRoles \subseteq FirmRoles /\ AskedRoles \subseteq RoleNames
  BY FirmAssumption DEF FirmRoles, RoleNames
<1>4. ASSUME NEW a \in Staff, NEW t \in Staff \ {Founder}, NEW role \in OfferedRoles,
             Call(r, "addMember", "authorize", a, t, role) \/ Call(r, "join", "read", a, t, role)
      PROVE  FirmInv'
  BY <1>2, <1>3, <1>4
<1>5. ASSUME NEW a \in Staff, NEW t \in Staff \ {Founder},
             \/ Call(r, "removeMember", "authorize", a, t, None)
             \/ Call(r, "assign", "authorize", a, t, None)
             \/ Call(r, "unassign", "authorize", a, t, None)
      PROVE  FirmInv'
  BY <1>2, <1>5
<1>6. ASSUME NEW a \in Staff, NEW role \in AskedRoles, Call(r, "invite", "authorize", a, None, role)
      PROVE  FirmInv'
  BY <1>2, <1>3, <1>6
<1>7. ASSUME NEW a \in ClientAdmins, NEW role \in AskedRoles \cup {None},
             Call(r, "accept", "read", a, None, role)
      PROVE  FirmInv'
  BY <1>2, <1>3, <1>7
<1>8. ASSUME NEW a, Call(r, "revoke", "authorize", a, None, None)
      PROVE  FirmInv'
  BY <1>2, <1>8
<1>9. ASSUME NEW a \in Staff, Call(r, "access", "membership", a, None, None)
      PROVE  FirmInv'
  BY <1>2, <1>9
<1>10. QED  BY <1>4, <1>5, <1>6, <1>7, <1>8, <1>9 DEF ReceiveFirm

\* Every step keeps the invariant.
LEMMA FirmInvStep ==
  ASSUME FirmInv,
         [FirmNext \/ \E r \in Requests : Die(r) /\ OnlyReads]_<<request, crashes, firmVars>>
  PROVE  FirmInv'
<1>1. CASE UNCHANGED <<request, crashes, firmVars>>
  <2>1. request' = request /\ StoresAreGood' /\ FirmProgress
    BY <1>1, ReadsKeepStores DEF OnlyReads, FirmInv
  <2>2. ASSUME NEW r \in Requests
        PROVE  KnowsNow(r)'
    <3>1. Knows(request[r], OnRecord(delegation', asked'), asked', granted', held')
      BY <2>1, KnowledgeStays DEF FirmInv, KnowsNow
    <3>2. KnowsNow(r)' <=>
            Knows(request'[r], OnRecord(delegation', asked'), asked', granted', held')
      BY DEF KnowsNow, Knows, OnRecord, IsDelegation
    <3>3. QED  BY <2>1, <3>1, <3>2
  <2>3. RequestShape'
    BY <2>1 DEF FirmInv, RequestShape
  <2>4. QED  BY <2>1, <2>2, <2>3 DEF FirmInv
<1>2. ASSUME NEW r \in Requests, Die(r) /\ OnlyReads
      PROVE  FirmInv'
  <2>1. StoresAreGood' /\ FirmProgress
    BY <1>2, ReadsKeepStores DEF FirmInv
  <2>2. QED  BY <1>2, <2>1, AnswerKeepsInv DEF Die
<1>3. ASSUME NEW r \in Requests, ActOnClient(r)
      PROVE  FirmInv'
  BY <1>3, ReadsKeepStores, AnswerKeepsInv DEF ActOnClient, Answer, FirmInv
<1>4. ASSUME NEW r \in Requests, FirmStep(r)
      PROVE  FirmInv'
  BY <1>3, <1>4, AuthorizingSteps, StaffSteps, InviteStep, ReadForAcceptStep, AcceptStep,
     RevokeStep, AssignmentSteps, ReadMembershipStep, ReadDelegationStep, GrantAccessStep
     DEF FirmStep
<1>5. QED  BY <1>1, <1>2, <1>4, ReceiveStep DEF FirmNext

\* For any staff, admins and requests, whatever overlaps or dies: an active delegation and
\* every role that a check gives stay within a role the firm asked for, a role the client
\* granted and a firm role the user held, and both indexes agree.
THEOREM FirmAlwaysWithinItsMandate == FirmSpec => []FirmStaysWithinItsMandate
<1>1. RequestsInit /\ FirmInit => FirmInv
  BY FirmInvInit
<1>2. FirmInv /\ [\/ FirmNext
                  \/ \E r \in Requests : Die(r) /\ OnlyReads]_<<request, crashes, firmVars>>
        => FirmInv'
  BY FirmInvStep
<1>3. ASSUME FirmInv
      PROVE  FirmStaysWithinItsMandate
  <2>1. member = userFirm /\ delegation = clientFirm
    BY <1>3 DEF FirmInv, StoresAreGood, IndexesAgree
  <2>2. ActiveDelegation => Mandated(delegation.maxRole, asked, granted)
    BY <1>3 DEF FirmInv, StoresAreGood, DelegationIsGood, ActiveDelegation
  <2>3. ASSUME NEW r \in Requests, At(r, "access", "allowed")
        PROVE  /\ Mandated(Seen(r), asked, granted)
               /\ \E role \in held[In(r).actor] : AtMost(Seen(r), FirmRoleMaxOrgRole[role])
    BY <1>3, <2>3 DEF FirmInv, KnowsNow, Knows, At, Seen, In
  <2>4. QED  BY <2>1, <2>2, <2>3 DEF FirmStaysWithinItsMandate, Mandated
<1>4. QED  BY <1>1, <1>2, <1>3, PTL DEF FirmSpec

-----------------------------------------------------------------------------
(* Staff and the plan *)

\* Staffing on its own, as MCServices runs it.
StaffSpec ==
  RequestsInit /\ FirmInit /\ InvitationsInit
    /\ [][StaffNext]_<<request, crashes, firmVars, invitation>>

\* Who has a place: the members, and whoever may still join by a link.
Joined == {u \in Staff : IsMember(u)}
OpenOnes == {i \in Invitations : Open(i)}
UsersOf(I, links) == {links[i].user : i \in I}
Places == Joined \cup UsersOf(OpenOnes, invitation)

\* That many have one are within the plan; there is one more for a user without a link.
Fits(users) == MaxStaff # None => Cardinality(users) <= MaxStaff
HasRoom(u) ==
  MaxStaff # None =>
    Cardinality(Joined) + Cardinality({i \in OpenOnes : invitation[i].user # u}) < MaxStaff

IsInvitation(v) ==
  v = [user |-> v.user, role |-> v.role, status |-> v.status, expired |-> v.expired]

StaffAreTyped ==
  /\ DOMAIN member = Staff /\ DOMAIN invitation = Invitations
  /\ \A u \in Staff : member[u] # None => IsMembership(member[u])
  /\ \A i \in Invitations : invitation[i] # None => IsInvitation(invitation[i])

PlacesFit ==
  /\ Fits(Places)
  /\ \A i, j \in OpenOnes : invitation[i].user = invitation[j].user => i = j

\* What a request q relies on: the members it counted, the room it found and the links it
\* still has to withdraw, and that its invitee has a place even if the link expires.
StaffKnows(q) ==
  /\ q.op = "removeMember" => q.in.target \in Staff
  /\ q.op \in {"acceptStaff", "withdraw"} => q.in.id \in Invitations
  /\ q.op = "inviteStaff" /\ q.at = "pending" => q.seen = Cardinality(Joined)
  /\ q.op = "inviteStaff" /\ q.at = "replace" =>
       /\ HasRoom(q.in.target)
       /\ q.seen \in SUBSET Invitations /\ \A i \in q.seen : IsInvitation(invitation[i])
       /\ \A i \in OpenOnes : invitation[i].user = q.in.target => i \in q.seen
  /\ q.op = "acceptStaff" /\ q.at \in {"member", "join", "put"} => IsInvitation(q.seen)
  /\ q.op = "acceptStaff" /\ q.at \in {"member", "join"} => Fits(Places \cup {q.seen.user})
  /\ q.op = "withdraw" /\ q.at = "put" => IsInvitation(q.seen)

StaffInv ==
  /\ RequestShape /\ StaffAreTyped /\ PlacesFit
  /\ \A r \in Requests : StaffKnows(request[r])

\* Finitely many staff and links, so that no more users are invited than links are open.
LEMMA PlacesAreFinite ==
  ASSUME NEW J \in SUBSET Staff, NEW I \in SUBSET Invitations, NEW links
  PROVE  /\ IsFiniteSet(J) /\ IsFiniteSet(I)
         /\ IsFiniteSet(UsersOf(I, links)) /\ IsFiniteSet(J \cup UsersOf(I, links))
         /\ Cardinality(UsersOf(I, links)) <= Cardinality(I)
<1> DEFINE users == UsersOf(I, links)
<1> DEFINE f == [i \in I |-> links[i].user]
<1>1. IsFiniteSet(J) /\ IsFiniteSet(I)
  BY StaffAssumption, FS_Subset
<1>2. f \in Surjection(I, users)
  BY DEF Surjection, UsersOf
<1>3. IsFiniteSet(users) /\ Cardinality(users) <= Cardinality(I)
  <2> HIDE DEF f, users
  <2>1. QED  BY <1>1, <1>2, FS_Surjection
<1>4. IsFiniteSet(J \cup users)
  BY <1>1, <1>3, FS_Union
<1>5. QED  BY <1>1, <1>3, <1>4

\* A smaller set of users fits where the larger does.
LEMMA FewerFit ==
  ASSUME NEW S, IsFiniteSet(S), NEW T \in SUBSET S, Fits(S)
  PROVE  Fits(T)
<1>1. Cardinality(T) <= Cardinality(S) /\ Cardinality(T) \in Nat /\ Cardinality(S) \in Nat
  BY FS_Subset, FS_CardinalityType
<1>2. QED  BY <1>1, StaffAssumption DEF Fits

\* Members may go, and links may close; those that stay open are as they were.
Shrinks ==
  /\ Joined' \subseteq Joined /\ OpenOnes' \subseteq OpenOnes
  /\ \A i \in OpenOnes' : invitation'[i].user = invitation[i].user

\* Then whatever fitted still does.
LEMMA ShrinkingKeepsPlaces ==
  ASSUME Shrinks
  PROVE  /\ PlacesFit => PlacesFit'
         /\ \A u : Fits(Places \cup {u}) => Fits(Places' \cup {u})
         /\ \A u : HasRoom(u) => HasRoom(u)'
<1>1. Joined \in SUBSET Staff /\ OpenOnes \in SUBSET Invitations
  BY DEF Joined, OpenOnes
<1>2. Places' \subseteq Places
  BY DEF Shrinks, Places, UsersOf
<1>3. IsFiniteSet(Places)
  BY <1>1, PlacesAreFinite DEF Places
<1>4. ASSUME NEW u, Fits(Places \cup {u})
      PROVE  Fits(Places' \cup {u})
  <2>1. IsFiniteSet(Places \cup {u})
    BY <1>3, FS_AddElement
  <2>2. QED  BY <1>2, <1>4, <2>1, FewerFit
<1>5. ASSUME PlacesFit
      PROVE  PlacesFit'
  <2>1. Fits(Places')
    BY <1>2, <1>3, <1>5, FewerFit DEF PlacesFit
  <2>2. Fits(Places)'
    BY <2>1 DEF Fits
  <2>3. QED  BY <1>5, <2>2 DEF PlacesFit, Shrinks
<1>6. ASSUME NEW u, HasRoom(u)
      PROVE  HasRoom(u)'
  <2> DEFINE others == {i \in OpenOnes : invitation[i].user # u}
  <2>1. others \in SUBSET Invitations /\ others' \subseteq others /\ Joined' \subseteq Joined
    BY <1>1 DEF Shrinks
  <2>2. IsFiniteSet(Joined) /\ IsFiniteSet(others)
    BY <1>1, <2>1, PlacesAreFinite
  <2>3. Cardinality(others') <= Cardinality(others) /\ Cardinality(Joined') <= Cardinality(Joined)
    BY <2>1, <2>2, FS_Subset
  <2>4. /\ Cardinality(others) \in Nat /\ Cardinality(others') \in Nat
        /\ Cardinality(Joined) \in Nat /\ Cardinality(Joined') \in Nat
    BY <2>1, <2>2, FS_Subset, FS_CardinalityType
  <2>5. MaxStaff # None => Cardinality(Joined) + Cardinality(others) < MaxStaff
    BY <1>6 DEF HasRoom
  <2>6. MaxStaff # None => Cardinality(Joined') + Cardinality(others') < MaxStaff
    <3> HIDE DEF others
    <3>1. QED  BY <2>3, <2>4, <2>5, StaffAssumption
  <2>7. QED  BY <2>6 DEF HasRoom
<1>7. QED  BY <1>4, <1>5, <1>6

\* So does what a request relies on, unless members go while it has counted them.
LEMMA StaffKnowledgeStays ==
  ASSUME Shrinks, Joined' = Joined,
         \A i \in Invitations : IsInvitation(invitation[i]) => IsInvitation(invitation'[i]),
         NEW q, StaffKnows(q)
  PROVE  StaffKnows(q)'
<1>1. /\ \A u : Fits(Places \cup {u}) => Fits(Places' \cup {u})
      /\ \A u : HasRoom(u) => HasRoom(u)'
  BY ShrinkingKeepsPlaces
<1>2. q.op = "inviteStaff" /\ q.at = "replace" =>
        /\ HasRoom(q.in.target)'
        /\ q.seen \in SUBSET Invitations /\ \A i \in q.seen : IsInvitation(invitation'[i])
        /\ \A i \in OpenOnes' : invitation'[i].user = q.in.target => i \in q.seen
  BY <1>1 DEF StaffKnows, Shrinks
<1>3. q.op = "acceptStaff" /\ q.at \in {"member", "join"} => Fits(Places' \cup {q.seen.user})
  BY <1>1 DEF StaffKnows
<1>4. q.op = "acceptStaff" /\ q.at \in {"member", "join"} => Fits(Places \cup {q.seen.user})'
  BY <1>3 DEF Fits
<1>5. QED  BY <1>2, <1>4 DEF StaffKnows, IsInvitation

\* A step of one request keeps the invariant if places still fit, that request relies on what
\* is so, and the others rely on nothing or on stores that stay.
LEMMA StaffMoves ==
  ASSUME StaffInv, NEW r \in Requests, NEW op, NEW label, NEW seen,
         MovesTo(r, op, label, seen), StaffAreTyped', PlacesFit',
         NEW q, q = request'[r], StaffKnows(q)',
         \/ \A s \in Requests \ {r} : request[s] = IdleRequest
         \/ UNCHANGED <<member, invitation>>
  PROVE  StaffInv'
<1>1. RequestShape'
  BY MovesKeepShape DEF StaffInv
<1>2. ASSUME NEW s \in Requests \ {r}
      PROVE  StaffKnows(request[s])'
  <2>1. PICK p : p = request[s]
    OBVIOUS
  <2>2. p = request'[s] /\ StaffKnows(p)
    BY <2>1 DEF MovesTo, StaffInv
  <2>3. CASE request[s] = IdleRequest
    <3>1. request'[s] = IdleRequest
      BY <2>1, <2>2, <2>3
    <3>2. IdleRequest.op = "none"
      BY DEF IdleRequest
    <3>3. request'[s].op = "none"
      BY <3>1, <3>2
    <3>4. QED  BY <3>3 DEF StaffKnows
  <2>4. CASE UNCHANGED <<member, invitation>>
    <3>1. Joined' = Joined /\ Shrinks
      BY <2>4 DEF Joined, IsMember, Shrinks, OpenOnes, Open, HasStatus
    <3>2. StaffKnows(p)'
      BY <2>2, <2>4, <3>1, StaffKnowledgeStays
    <3>3. QED  BY <2>2, <3>2 DEF StaffKnows
  <2>5. QED  BY <2>3, <2>4
<1>3. StaffKnows(request[r])'
  BY DEF StaffKnows
<1>4. \A s \in Requests : StaffKnows(request[s])'
  BY <1>2, <1>3
<1>5. QED  BY <1>1, <1>4 DEF StaffInv

\* A read leaves everything true.
LEMMA AsksKeepStaff ==
  ASSUME StaffInv, OnlyAsks
  PROVE  /\ UNCHANGED <<member, invitation>> /\ StaffAreTyped' /\ PlacesFit'
         /\ \A q : StaffKnows(q) => StaffKnows(q)'
<1>1. UNCHANGED <<member, invitation>>
  BY DEF OnlyAsks, OnlyReads, firmVars, staffVars
<1>2. Joined' = Joined /\ Shrinks
  BY <1>1 DEF Joined, IsMember, Shrinks, OpenOnes, Open, HasStatus
<1>3. StaffAreTyped'
  BY <1>1 DEF StaffInv, StaffAreTyped, IsInvitation, IsMembership
<1>4. PlacesFit'
  BY <1>2, ShrinkingKeepsPlaces DEF StaffInv
<1>5. ASSUME NEW q, StaffKnows(q)
      PROVE  StaffKnows(q)'
  BY <1>1, <1>2, <1>5, StaffKnowledgeStays
<1>6. QED  BY <1>1, <1>3, <1>4, <1>5

\* A request that reads goes on with what is so.
LEMMA StaffReadGoesOn ==
  ASSUME StaffInv, NEW r \in Requests, NEW label, NEW seen, OnlyAsks, Goto(r, label, seen),
         NEW op, NEW in, op = request[r].op, in = request[r].in,
         StaffKnows([op |-> op, at |-> label, in |-> in, seen |-> seen])
  PROVE  StaffInv'
<1>1. MovesTo(r, op, label, seen) /\ request'[r].in = in
  BY GotoMoves DEF StaffInv
<1>2. request'[r] = [op |-> op, at |-> label, in |-> in, seen |-> seen]
  BY <1>1 DEF MovesTo
<1>3. StaffKnows([op |-> op, at |-> label, in |-> in, seen |-> seen])'
  BY AsksKeepStaff
<1>4. QED  BY <1>1, <1>2, <1>3, AsksKeepStaff, StaffMoves

\* A request that is answered, or dies, relies on nothing.
LEMMA StaffAnswered ==
  ASSUME StaffInv, NEW r \in Requests, request' = [request EXCEPT ![r] = IdleRequest],
         StaffAreTyped', PlacesFit',
         \/ \A s \in Requests \ {r} : request[s] = IdleRequest
         \/ UNCHANGED <<member, invitation>>
  PROVE  StaffInv'
<1>1. MovesTo(r, "none", "idle", None)
  BY AnswerMoves DEF StaffInv
<1>2. IdleRequest = request'[r]
  BY DEF StaffInv, RequestShape
<1>3. StaffKnows(IdleRequest)'
  BY DEF StaffKnows, IdleRequest
<1>4. QED  BY <1>1, <1>2, <1>3, StaffMoves

\* The reads of an invitation: who is counted, what room there is.
LEMMA InvitingReads ==
  ASSUME StaffInv, NEW r \in Requests, AuthorizeInvitation(r) \/ CountStaff(r) \/ CheckPlan(r)
  PROVE  StaffInv'
<1>0. PICK q : q = request[r] /\ StaffKnows(q)
  BY DEF StaffInv
<1>1. OnlyAsks
  BY DEF AuthorizeInvitation, CountStaff, CheckPlan
<1>2. CASE Answer(r)
  BY <1>1, <1>2, AsksKeepStaff, StaffAnswered DEF Answer
<1>3. CASE AuthorizeInvitation(r) /\ Goto(r, "staff", None)
  <2>1. q.op = "inviteStaff"
    BY <1>0, <1>3 DEF AuthorizeInvitation, At
  <2>2. StaffKnows([op |-> q.op, at |-> "staff", in |-> q.in, seen |-> None])
    BY <2>1 DEF StaffKnows
  <2>3. QED  BY <1>0, <1>1, <1>3, <2>2, StaffReadGoesOn
<1>4. CASE CountStaff(r)
  <2>1. q.op = "inviteStaff" /\ Goto(r, "pending", Cardinality(Joined))
    BY <1>0, <1>4 DEF CountStaff, At, Joined
  <2>2. StaffKnows([op |-> q.op, at |-> "pending", in |-> q.in, seen |-> Cardinality(Joined)])
    BY <2>1 DEF StaffKnows
  <2>3. QED  BY <1>0, <1>1, <2>1, <2>2, StaffReadGoesOn
<1>5. CASE CheckPlan(r) /\ ~Answer(r)
  <2> DEFINE user == q.in.target
  <2> DEFINE mine == {i \in Invitations : Open(i) /\ invitation[i].user = user}
  <2> DEFINE others == {i \in OpenOnes : invitation[i].user # user}
  <2>1. q.op = "inviteStaff" /\ q.at = "pending" /\ q.seen = Cardinality(Joined)
    BY <1>0, <1>5 DEF CheckPlan, At, StaffKnows
  <2>2. others = {i \in Invitations : Open(i) /\ invitation[i].user # user}
    BY DEF OpenOnes
  <2>3. PlacesTaken(q.seen, user) = Cardinality(Joined) + Cardinality(others)
    BY <2>1, <2>2 DEF PlacesTaken
  <2>4. ~(MaxStaff # None /\ PlacesTaken(q.seen, user) >= MaxStaff) /\ Goto(r, "replace", mine)
    BY <1>0, <1>5 DEF CheckPlan, In, Seen
  <2>5. IsFiniteSet(Joined) /\ IsFiniteSet(others)
    <3>1. Joined \in SUBSET Staff /\ others \in SUBSET Invitations
      BY DEF Joined, OpenOnes
    <3>2. QED  BY <3>1, PlacesAreFinite
  <2>6. HasRoom(user)
    <3> HIDE DEF others
    <3>1. Cardinality(Joined) \in Nat /\ Cardinality(others) \in Nat
      BY <2>5, FS_CardinalityType
    <3>2. MaxStaff # None => Cardinality(Joined) + Cardinality(others) < MaxStaff
      BY <2>3, <2>4, <3>1, StaffAssumption
    <3>3. QED  BY <3>2 DEF HasRoom, others
  <2>7. /\ mine \in SUBSET Invitations /\ \A i \in mine : IsInvitation(invitation[i])
        /\ \A i \in OpenOnes : invitation[i].user = user => i \in mine
    BY DEF OpenOnes, Open, HasStatus, StaffInv, StaffAreTyped
  <2> HIDE DEF mine, others
  <2>8. StaffKnows([op |-> q.op, at |-> "replace", in |-> q.in, seen |-> mine])
    BY <2>1, <2>6, <2>7 DEF StaffKnows
  <2>9. QED  BY <1>0, <1>1, <2>4, <2>8, StaffReadGoesOn
<1>6. QED  BY <1>2, <1>3, <1>4, <1>5 DEF AuthorizeInvitation

\* The reads of an acceptance, of a withdrawal and of a removal.
LEMMA StaffReads ==
  ASSUME StaffInv, NEW r \in Requests,
         \/ FindInvitation(r) \/ ReadMember(r) \/ AuthorizeWithdrawal(r) \/ FindPending(r)
         \/ RequireManager(r) /\ UNCHANGED invitation
  PROVE  StaffInv'
<1>0. PICK q : q = request[r] /\ StaffKnows(q)
  BY DEF StaffInv
<1>1. OnlyAsks
  BY DEF FindInvitation, ReadMember, AuthorizeWithdrawal, FindPending, RequireManager, OnlyAsks
<1>2. CASE Answer(r)
  BY <1>1, <1>2, AsksKeepStaff, StaffAnswered DEF Answer
<1>3. CASE FindInvitation(r) /\ ~Answer(r)
  <2> DEFINE v == invitation[q.in.id]
  <2>1. q.op = "acceptStaff" /\ q.in.id \in OpenOnes /\ Goto(r, "member", v)
    BY <1>0, <1>3 DEF FindInvitation, At, In, StaffKnows, OpenOnes
  <2>2. IsInvitation(v)
    BY <2>1 DEF OpenOnes, Open, HasStatus, StaffInv, StaffAreTyped
  <2>3. v.user \in Places
    BY <2>1 DEF Places, UsersOf
  <2> HIDE DEF v
  <2>4. Places \cup {v.user} = Places
    BY <2>3
  <2>5. Fits(Places \cup {v.user})
    BY <2>4 DEF StaffInv, PlacesFit
  <2>6. q.in.id \in Invitations
    BY <2>1 DEF OpenOnes
  <2>7. StaffKnows([op |-> q.op, at |-> "member", in |-> q.in, seen |-> v])
    BY <2>1, <2>2, <2>5, <2>6 DEF StaffKnows
  <2>8. QED  BY <1>0, <1>1, <2>1, <2>7, StaffReadGoesOn
<1>4. CASE ReadMember(r) /\ ~Answer(r)
  <2>1. q.op = "acceptStaff" /\ q.at = "member" /\ Goto(r, "join", q.seen)
    BY <1>0, <1>4 DEF ReadMember, At, Seen
  <2>2. StaffKnows([op |-> q.op, at |-> "join", in |-> q.in, seen |-> q.seen])
    BY <1>0, <2>1 DEF StaffKnows
  <2>3. QED  BY <1>0, <1>1, <2>1, <2>2, StaffReadGoesOn
<1>5. CASE AuthorizeWithdrawal(r) /\ ~Answer(r)
  <2>1. q.op = "withdraw" /\ Goto(r, "get", None)
    BY <1>0, <1>5 DEF AuthorizeWithdrawal, At
  <2>2. StaffKnows([op |-> q.op, at |-> "get", in |-> q.in, seen |-> None])
    BY <1>0, <2>1 DEF StaffKnows
  <2>3. QED  BY <1>0, <1>1, <2>1, <2>2, StaffReadGoesOn
<1>6. CASE FindPending(r) /\ ~Answer(r)
  <2> DEFINE v == invitation[q.in.id]
  <2>1. q.op = "withdraw" /\ HasStatus(q.in.id, "PENDING") /\ Goto(r, "put", v)
    BY <1>0, <1>6 DEF FindPending, At, In
  <2>2. q.in.id \in Invitations
    BY <1>0, <2>1 DEF StaffKnows
  <2>3. IsInvitation(v)
    BY <2>1, <2>2 DEF HasStatus, StaffInv, StaffAreTyped
  <2> HIDE DEF v
  <2>4. StaffKnows([op |-> q.op, at |-> "put", in |-> q.in, seen |-> v])
    BY <2>1, <2>2, <2>3 DEF StaffKnows
  <2>5. QED  BY <1>0, <1>1, <2>1, <2>4, StaffReadGoesOn
<1>7. CASE RequireManager(r) /\ ~Answer(r)
  <2>1. PICK label : Goto(r, label, None)
    BY <1>7 DEF RequireManager
  <2>2. q.op \in ManagerOps
    BY <1>0, <1>7 DEF RequireManager, At
  <2>3. StaffKnows([op |-> q.op, at |-> label, in |-> q.in, seen |-> None])
    BY <1>0, <2>2 DEF StaffKnows, ManagerOps
  <2>4. QED  BY <1>0, <1>1, <2>1, <2>3, StaffReadGoesOn
<1>8. QED  BY <1>2, <1>3, <1>4, <1>5, <1>6, <1>7

\* A link is closed: withdrawn, accepted or expired.
LEMMA LinkCloses ==
  ASSUME StaffInv, NEW i \in Invitations, NEW v, IsInvitation(v),
         v.status # "PENDING" \/ v.expired = TRUE, PutInvitation(i, v), member' = member
  PROVE  /\ StaffAreTyped' /\ PlacesFit' /\ Shrinks /\ Joined' = Joined
         /\ \A j \in Invitations : IsInvitation(invitation[j]) => IsInvitation(invitation'[j])
<1>1. /\ DOMAIN invitation' = Invitations /\ invitation'[i] = v
      /\ \A j \in Invitations \ {i} : invitation'[j] = invitation[j]
  BY DEF PutInvitation, StaffInv, StaffAreTyped
<1>2. StaffAreTyped'
  BY <1>1 DEF StaffInv, StaffAreTyped, IsInvitation, IsMembership
<1>3. Joined' = Joined
  BY DEF Joined, IsMember
<1>4. OpenOnes' \subseteq OpenOnes \ {i}
  BY <1>1 DEF OpenOnes, Open, HasStatus
<1>5. Shrinks
  BY <1>1, <1>3, <1>4 DEF Shrinks, OpenOnes
<1>6. PlacesFit'
  BY <1>5, ShrinkingKeepsPlaces DEF StaffInv
<1>7. \A j \in Invitations : IsInvitation(invitation[j]) => IsInvitation(invitation'[j])
  BY <1>1
<1>8. QED  BY <1>2, <1>3, <1>5, <1>6, <1>7

\* Replaced, accepted or withdrawn.
LEMMA ClosingSteps ==
  ASSUME StaffInv, NEW r \in Requests, \A s \in Requests \ {r} : request[s] = IdleRequest,
         ReplaceInvitation(r) \/ MarkAccepted(r) \/ RevokeStaffInvitation(r)
  PROVE  StaffInv'
<1>0. PICK q : q = request[r] /\ StaffKnows(q)
  BY DEF StaffInv
<1>1. member' = member
  BY DEF ReplaceInvitation, MarkAccepted, RevokeStaffInvitation, OnlyReads, firmVars, staffVars
<1>2. CASE ReplaceInvitation(r)
  <2>1. PICK i \in q.seen : /\ PutInvitation(i, [invitation[i] EXCEPT !.status = "REVOKED"])
                            /\ Goto(r, "replace", q.seen \ {i})
    BY <1>0, <1>2 DEF ReplaceInvitation, Seen
  <2> DEFINE old == invitation[i]
  <2> DEFINE v == [old EXCEPT !.status = "REVOKED"]
  <2> DEFINE left == q.seen \ {i}
  <2>2. q.op = "inviteStaff" /\ q.at = "replace"
    BY <1>0, <1>2 DEF ReplaceInvitation, At
  <2>3. i \in Invitations /\ IsInvitation(old)
    BY <1>0, <2>2 DEF StaffKnows
  <2> HIDE DEF old
  <2>4. IsInvitation(v) /\ v.status # "PENDING"
    BY <2>3 DEF IsInvitation
  <2>5. PutInvitation(i, v)
    BY <2>1 DEF old
  <2> HIDE DEF v
  <2>6. /\ StaffAreTyped' /\ PlacesFit' /\ Shrinks /\ Joined' = Joined
        /\ \A j \in Invitations : IsInvitation(invitation[j]) => IsInvitation(invitation'[j])
    BY <1>1, <2>3, <2>4, <2>5, LinkCloses
  <2>7. StaffKnows(q)' /\ i \notin OpenOnes'
    <3>1. StaffKnows(q)'
      BY <1>0, <2>6, StaffKnowledgeStays
    <3>2. invitation'[i] = v
      BY <2>3, <2>5 DEF PutInvitation, StaffInv, StaffAreTyped
    <3>3. QED  BY <2>4, <3>1, <3>2 DEF OpenOnes, Open, HasStatus
  <2> DEFINE p == [op |-> q.op, at |-> "replace", in |-> q.in, seen |-> left]
  <2>8. StaffKnows(p)'
    BY <2>2, <2>7 DEF StaffKnows
  <2>9. MovesTo(r, q.op, "replace", left) /\ p = request'[r]
    <3>1. Goto(r, "replace", left)
      BY <2>1
    <3> HIDE DEF left
    <3>2. MovesTo(r, request[r].op, "replace", left) /\ request'[r].in = request[r].in
      BY <3>1, GotoMoves DEF StaffInv
    <3>3. QED  BY <1>0, <3>2 DEF MovesTo
  <2> HIDE DEF left, p
  <2>10. QED  BY <2>6, <2>8, <2>9, StaffMoves
<1>3. ASSUME NEW status, status # "PENDING", IsInvitation(q.seen), q.in.id \in Invitations,
             PutInvitation(q.in.id, [q.seen EXCEPT !.status = status]), Answer(r)
      PROVE  StaffInv'
  <2> DEFINE old == q.seen
  <2> DEFINE v == [old EXCEPT !.status = status]
  <2> HIDE DEF old
  <2>1. IsInvitation(v) /\ v.status # "PENDING"
    BY <1>3 DEF IsInvitation, old
  <2>2. PutInvitation(q.in.id, v)
    BY <1>3 DEF old
  <2> HIDE DEF v
  <2>3. StaffAreTyped' /\ PlacesFit'
    BY <1>1, <1>3, <2>1, <2>2, LinkCloses
  <2>4. QED  BY <1>3, <2>3, StaffAnswered DEF Answer
<1>4. CASE MarkAccepted(r)
  <2>1. q.op = "acceptStaff" /\ q.at = "put" /\ IsInvitation(q.seen) /\ q.in.id \in Invitations
    BY <1>0, <1>4 DEF MarkAccepted, At, StaffKnows
  <2>2. PutInvitation(q.in.id, [q.seen EXCEPT !.status = "ACCEPTED"]) /\ Answer(r)
    BY <1>0, <1>4 DEF MarkAccepted, In, Seen
  <2>3. QED  BY <1>3, <2>1, <2>2
<1>5. CASE RevokeStaffInvitation(r)
  <2>1. q.op = "withdraw" /\ q.at = "put" /\ IsInvitation(q.seen) /\ q.in.id \in Invitations
    BY <1>0, <1>5 DEF RevokeStaffInvitation, At, StaffKnows
  <2>2. PutInvitation(q.in.id, [q.seen EXCEPT !.status = "REVOKED"]) /\ Answer(r)
    BY <1>0, <1>5 DEF RevokeStaffInvitation, In, Seen
  <2>3. QED  BY <1>3, <2>1, <2>2
<1>6. QED  BY <1>2, <1>4, <1>5

\* The invitee becomes a member, in the place the link held.
LEMMA JoiningStep ==
  ASSUME StaffInv, NEW r \in Requests, \A s \in Requests \ {r} : request[s] = IdleRequest,
         JoinFirmByInvitation(r)
  PROVE  StaffInv'
<1>0. PICK q : q = request[r] /\ StaffKnows(q)
  BY DEF StaffInv
<1> DEFINE u == q.seen.user
<1> DEFINE m == Membership(q.seen.role)
<1>1. /\ q.op = "acceptStaff" /\ q.at = "join" /\ invitation' = invitation
      /\ SetMember(u, m) /\ Goto(r, "put", q.seen)
  BY <1>0 DEF JoinFirmByInvitation, At, Seen
<1>2. IsInvitation(q.seen) /\ Fits(Places \cup {u}) /\ q.in.id \in Invitations
  BY <1>0, <1>1 DEF StaffKnows
<1>3. IsMembership(m)
  BY DEF IsMembership, Membership
<1> HIDE DEF u, m
<1>4. member' = [member EXCEPT ![u] = m]
  BY <1>1 DEF SetMember
<1>5. StaffAreTyped'
  BY <1>1, <1>3, <1>4 DEF StaffInv, StaffAreTyped, IsInvitation, IsMembership
<1>6. OpenOnes' = OpenOnes
  BY <1>1 DEF OpenOnes, Open, HasStatus
<1>7. Joined' \subseteq Joined \cup {u}
  BY <1>4 DEF Joined, IsMember, StaffInv, StaffAreTyped
<1>8. PlacesFit'
  <2>1. Places' \subseteq Places \cup {u}
    BY <1>1, <1>6, <1>7 DEF Places, UsersOf
  <2>2. IsFiniteSet(Places \cup {u})
    <3>1. Joined \in SUBSET Staff /\ OpenOnes \in SUBSET Invitations
      BY DEF Joined, OpenOnes
    <3>2. IsFiniteSet(Places)
      BY <3>1, PlacesAreFinite DEF Places
    <3>3. QED  BY <3>2, FS_AddElement
  <2>3. Fits(Places')
    BY <1>2, <2>1, <2>2, FewerFit
  <2>4. Fits(Places)'
    BY <2>3 DEF Fits
  <2>5. QED  BY <1>1, <1>6, <2>4 DEF PlacesFit, StaffInv
<1> DEFINE p == [op |-> q.op, at |-> "put", in |-> q.in, seen |-> q.seen]
<1>9. StaffKnows(p)'
  BY <1>1, <1>2 DEF StaffKnows, IsInvitation
<1>10. MovesTo(r, q.op, "put", q.seen) /\ p = request'[r]
  <2>1. MovesTo(r, request[r].op, "put", q.seen) /\ request'[r].in = request[r].in
    BY <1>1, GotoMoves DEF StaffInv
  <2>2. QED  BY <1>0, <2>1 DEF MovesTo
<1> HIDE DEF p
<1>11. QED  BY <1>5, <1>8, <1>9, <1>10, StaffMoves

\* The invitation is recorded: its user had no link, and there was room for one more.
LEMMA InvitingStep ==
  ASSUME StaffInv, NEW r \in Requests, \A s \in Requests \ {r} : request[s] = IdleRequest,
         InviteStaff(r)
  PROVE  StaffInv'
<1>0. PICK q : q = request[r] /\ StaffKnows(q)
  BY DEF StaffInv
<1> DEFINE u == q.in.target
<1> DEFINE v == [user |-> u, role |-> q.in.role, status |-> "PENDING", expired |-> FALSE]
<1>1. PICK i \in Invitations : invitation[i] = None /\ PutInvitation(i, v)
  BY <1>0 DEF InviteStaff, In
<1>2. /\ q.op = "inviteStaff" /\ q.at = "replace" /\ q.seen = {} /\ Answer(r) /\ member' = member
  BY <1>0 DEF InviteStaff, At, Seen, OnlyReads, firmVars, staffVars
<1>3. HasRoom(u) /\ \A j \in OpenOnes : invitation[j].user # u
  BY <1>0, <1>2 DEF StaffKnows
<1>4. IsInvitation(v) /\ v.user = u
  BY DEF IsInvitation
<1> HIDE DEF u, v
<1>5. /\ DOMAIN invitation' = Invitations /\ invitation'[i] = v
      /\ \A j \in Invitations \ {i} : invitation'[j] = invitation[j]
  BY <1>1 DEF PutInvitation, StaffInv, StaffAreTyped
<1>6. StaffAreTyped'
  BY <1>2, <1>4, <1>5 DEF StaffInv, StaffAreTyped, IsInvitation, IsMembership
<1>7. OpenOnes' \subseteq OpenOnes \cup {i} /\ i \notin OpenOnes
  BY <1>1, <1>5 DEF OpenOnes, Open, HasStatus
<1>8. Joined' = Joined
  BY <1>2 DEF Joined, IsMember
<1>9. Places' \subseteq Places \cup {u}
  BY <1>4, <1>5, <1>7, <1>8 DEF Places, UsersOf, OpenOnes
<1>10. MaxStaff # None => Cardinality(Places) < MaxStaff /\ IsFiniteSet(Places)
  <2> DEFINE users == UsersOf(OpenOnes, invitation)
  <2>1. Joined \in SUBSET Staff /\ OpenOnes \in SUBSET Invitations
    BY DEF Joined, OpenOnes
  <2>2. /\ IsFiniteSet(Joined) /\ IsFiniteSet(OpenOnes) /\ IsFiniteSet(users)
        /\ Cardinality(users) <= Cardinality(OpenOnes)
    BY <2>1, PlacesAreFinite
  <2>3. {j \in OpenOnes : invitation[j].user # u} = OpenOnes
    BY <1>3
  <2>4. MaxStaff # None => Cardinality(Joined) + Cardinality(OpenOnes) < MaxStaff
    BY <1>3, <2>3 DEF HasRoom
  <2> HIDE DEF users
  <2>5. /\ IsFiniteSet(Joined \cup users)
        /\ Cardinality(Joined \cup users) <= Cardinality(Joined) + Cardinality(users)
    <3>1. IsFiniteSet(Joined \cap users)
      BY <2>2, FS_Intersection
    <3>2. /\ Cardinality(Joined) \in Nat /\ Cardinality(users) \in Nat
          /\ Cardinality(Joined \cap users) \in Nat
      BY <2>2, <3>1, FS_CardinalityType
    <3>3. /\ IsFiniteSet(Joined \cup users)
          /\ Cardinality(Joined \cup users)
               = Cardinality(Joined) + Cardinality(users) - Cardinality(Joined \cap users)
      BY <2>2, FS_Union
    <3>4. QED  BY <3>2, <3>3
  <2>6. /\ Cardinality(Joined) \in Nat /\ Cardinality(users) \in Nat
        /\ Cardinality(OpenOnes) \in Nat /\ Cardinality(Joined \cup users) \in Nat
    BY <2>2, <2>5, FS_CardinalityType
  <2>7. Places = Joined \cup users
    BY DEF Places, users
  <2>8. QED  BY <2>2, <2>4, <2>5, <2>6, <2>7, StaffAssumption
<1>11. PlacesFit'
  <2>1. Fits(Places \cup {u})
    <3>1. CASE MaxStaff # None
      <4>1. /\ IsFiniteSet(Places) /\ Cardinality(Places) < MaxStaff /\ Cardinality(Places) \in Nat
        BY <1>10, <3>1, FS_CardinalityType
      <4>2. Cardinality(Places \cup {u}) <= Cardinality(Places) + 1
        BY <4>1, FS_AddElement
      <4>3. Cardinality(Places \cup {u}) \in Nat
        BY <4>1, FS_AddElement, FS_CardinalityType
      <4>4. QED  BY <3>1, <4>1, <4>2, <4>3, StaffAssumption DEF Fits
    <3>2. QED  BY <3>1 DEF Fits
  <2>2. MaxStaff # None => IsFiniteSet(Places \cup {u})
    BY <1>10, FS_AddElement
  <2>3. Fits(Places)'
    <3>1. MaxStaff # None => Fits(Places')
      BY <1>9, <2>1, <2>2, FewerFit
    <3>2. QED  BY <3>1 DEF Fits
  <2>4. \A j, k \in OpenOnes' : invitation'[j].user = invitation'[k].user => j = k
    BY <1>3, <1>4, <1>5, <1>7 DEF StaffInv, PlacesFit, OpenOnes
  <2>5. QED  BY <2>3, <2>4 DEF PlacesFit
<1>12. QED  BY <1>2, <1>6, <1>11, StaffAnswered DEF Answer

\* A removal frees a place, or leaves a link that still holds it.
LEMMA RemovingStep ==
  ASSUME StaffInv, NEW r \in Requests, \A s \in Requests \ {r} : request[s] = IdleRequest,
         RemoveFirmMember(r), UNCHANGED invitation
  PROVE  StaffInv'
<1>0. PICK q : q = request[r] /\ StaffKnows(q)
  BY DEF StaffInv
<1> DEFINE u == q.in.target
<1> DEFINE m == member[u]
<1> DEFINE n == [m EXCEPT !.status = "REMOVED"]
<1>1. u \in Staff /\ Answer(r)
  BY <1>0 DEF RemoveFirmMember, At, StaffKnows
<1>2. CASE member' = member
  <2>1. Joined' = Joined /\ Shrinks
    BY <1>2 DEF Joined, IsMember, Shrinks, OpenOnes, Open, HasStatus
  <2>2. StaffAreTyped'
    BY <1>2 DEF StaffInv, StaffAreTyped, IsInvitation, IsMembership
  <2>3. PlacesFit'
    BY <2>1, ShrinkingKeepsPlaces DEF StaffInv
  <2>4. QED  BY <1>1, <2>2, <2>3, StaffAnswered DEF Answer
<1>3. CASE m # None /\ SetMember(u, n)
  <2>1. IsMembership(m)
    BY <1>1, <1>3 DEF StaffInv, StaffAreTyped
  <2> HIDE DEF m
  <2>2. IsMembership(n) /\ n.status = "REMOVED"
    BY <2>1 DEF IsMembership
  <2> HIDE DEF n
  <2>3. member' = [member EXCEPT ![u] = n]
    BY <1>3 DEF SetMember
  <2> HIDE DEF u
  <2>4. StaffAreTyped'
    BY <1>1, <2>2, <2>3 DEF StaffInv, StaffAreTyped, IsInvitation, IsMembership
  <2>5. Joined' \subseteq Joined
    BY <1>1, <2>2, <2>3 DEF Joined, IsMember, StaffInv, StaffAreTyped
  <2>6. OpenOnes' = OpenOnes
    BY DEF OpenOnes, Open, HasStatus
  <2>7. PlacesFit'
    BY <2>5, <2>6, ShrinkingKeepsPlaces DEF StaffInv, Shrinks
  <2>8. QED  BY <1>1, <2>4, <2>7, StaffAnswered DEF Answer
<1>4. QED
  BY <1>0, <1>2, <1>3 DEF RemoveFirmMember, In, OnlyReads, firmVars, staffVars

\* At the start the founder alone has a place.
LEMMA StaffInvInit == RequestsInit /\ FirmInit /\ InvitationsInit => StaffInv
<1> SUFFICES ASSUME RequestsInit, FirmInit, InvitationsInit PROVE StaffInv
  OBVIOUS
<1>1. RequestShape /\ \A r \in Requests : request[r].op = "none"
  BY DEF RequestsInit, RequestShape, IdleRequest
<1>2. \A r \in Requests : StaffKnows(request[r])
  BY <1>1 DEF StaffKnows
<1>3. StaffAreTyped
  BY DEF FirmInit, InvitationsInit, StaffAreTyped, Membership, IsMembership
<1>4. OpenOnes = {} /\ Joined \subseteq {Founder}
  BY DEF FirmInit, InvitationsInit, OpenOnes, Open, HasStatus, Joined, IsMember
<1>5. Places \in SUBSET {Founder}
  BY <1>4 DEF Places, UsersOf
<1>6. Fits(Places)
  <2>1. IsFiniteSet({Founder}) /\ Cardinality({Founder}) = 1
    BY FS_Singleton
  <2>2. Fits({Founder})
    BY <2>1, StaffAssumption DEF Fits
  <2>3. QED  BY <1>5, <2>1, <2>2, FewerFit
<1>7. QED  BY <1>1, <1>2, <1>3, <1>4, <1>6 DEF StaffInv, PlacesFit

\* A request arrives, or dies.
LEMMA StaffComesAndGoes ==
  ASSUME StaffInv, NEW r \in Requests, ReceiveStaff(r) \/ (Die(r) /\ OnlyAsks)
  PROVE  StaffInv'
<1>1. CASE Die(r) /\ OnlyAsks
  BY <1>1, AsksKeepStaff, StaffAnswered DEF Die
<1>2. CASE ReceiveStaff(r)
  <2>1. /\ OnlyAsks
        /\ \E op, label, in :
             /\ Receive(r, op, label, in)
             /\ \/ op = "inviteStaff" /\ label = "authorize"
                \/ op = "removeMember" /\ in.target \in Staff
                \/ op = "acceptStaff" /\ label = "find" /\ in.id \in Invitations
                \/ op = "withdraw" /\ label = "authorize" /\ in.id \in Invitations
    <3>1. OnlyAsks
      BY <1>2 DEF ReceiveStaff
    <3>2. CASE \E a \in Staff, t \in Staff \ {Founder}, role \in OfferedRoles :
                 Call(r, "inviteStaff", "authorize", a, t, role)
      BY <3>1, <3>2 DEF Call
    <3>3. CASE \E i \in Invitations : Receive(r, "acceptStaff", "find", [id |-> i])
      <4>1. PICK i \in Invitations : Receive(r, "acceptStaff", "find", [id |-> i])
        BY <3>3
      <4>2. [id |-> i].id = i
        OBVIOUS
      <4>3. QED  BY <3>1, <4>1, <4>2
    <3>4. CASE \E i \in Invitations, a \in Staff :
                 Receive(r, "withdraw", "authorize", [id |-> i, actor |-> a])
      <4>1. PICK i \in Invitations, a \in Staff :
              Receive(r, "withdraw", "authorize", [id |-> i, actor |-> a])
        BY <3>4
      <4>2. [id |-> i, actor |-> a].id = i
        OBVIOUS
      <4>3. QED  BY <3>1, <4>1, <4>2
    <3>5. CASE \E a \in Staff, t \in Staff \ {Founder} :
                 Call(r, "removeMember", "authorize", a, t, None)
      <4>1. PICK a \in Staff, t \in Staff \ {Founder} :
              Call(r, "removeMember", "authorize", a, t, None)
        BY <3>5
      <4>2. [actor |-> a, target |-> t, role |-> None].target = t
        OBVIOUS
      <4>3. QED  BY <3>1, <4>1, <4>2 DEF Call
    <3>6. QED  BY <1>2, <3>2, <3>3, <3>4, <3>5 DEF ReceiveStaff
  <2>2. PICK op, label, in :
          /\ Receive(r, op, label, in)
          /\ \/ op = "inviteStaff" /\ label = "authorize"
             \/ op = "removeMember" /\ in.target \in Staff
             \/ op = "acceptStaff" /\ label = "find" /\ in.id \in Invitations
             \/ op = "withdraw" /\ label = "authorize" /\ in.id \in Invitations
    BY <2>1
  <2> DEFINE p == [op |-> op, at |-> label, in |-> in, seen |-> None]
  <2>3. StaffKnows(p)
    BY <2>2 DEF StaffKnows
  <2>4. MovesTo(r, op, label, None) /\ p = request'[r]
    <3>1. MovesTo(r, op, label, None) /\ request'[r].in = in
      BY <2>2, ReceiveMoves DEF StaffInv
    <3>2. QED  BY <3>1 DEF MovesTo
  <2> HIDE DEF p
  <2>5. QED  BY <2>1, <2>3, <2>4, AsksKeepStaff, StaffMoves
<1>3. QED  BY <1>1, <1>2

\* A link expires, whoever relies on it.
LEMMA ExpiryKeepsStaff ==
  ASSUME StaffInv, NEW i \in Invitations, InvitationExpires(i)
  PROVE  StaffInv'
<1> DEFINE old == invitation[i]
<1> DEFINE v == [old EXCEPT !.expired = TRUE]
<1>1. /\ Open(i) /\ PutInvitation(i, v) /\ request' = request /\ member' = member
  BY DEF InvitationExpires, OnlyReads, firmVars, staffVars
<1>2. IsInvitation(old)
  BY <1>1 DEF Open, HasStatus, StaffInv, StaffAreTyped
<1> HIDE DEF old
<1>3. IsInvitation(v) /\ v.expired = TRUE
  <2>1. PICK yes : yes = TRUE
    OBVIOUS
  <2> DEFINE w == [old EXCEPT !.expired = yes]
  <2>2. IsInvitation(w) /\ w.expired = yes
    BY <1>2 DEF IsInvitation
  <2>3. v = w
    BY <2>1, Zenon
  <2> HIDE DEF w, v
  <2>4. QED  BY <2>1, <2>2, <2>3
<1> HIDE DEF v
<1>4. /\ StaffAreTyped' /\ PlacesFit' /\ Shrinks /\ Joined' = Joined
      /\ \A j \in Invitations : IsInvitation(invitation[j]) => IsInvitation(invitation'[j])
  BY <1>1, <1>3, LinkCloses
<1>5. ASSUME NEW r \in Requests
      PROVE  StaffKnows(request[r])'
  <2>1. PICK q : q = request[r] /\ StaffKnows(q)
    BY DEF StaffInv
  <2>2. StaffKnows(q)' /\ q = request'[r]
    BY <1>1, <1>4, <2>1, StaffKnowledgeStays
  <2>3. QED  BY <2>2 DEF StaffKnows
<1>6. RequestShape'
  BY <1>1 DEF StaffInv, RequestShape
<1>7. QED  BY <1>4, <1>5, <1>6 DEF StaffInv

\* Every step keeps the invariant while no two requests are in flight.
LEMMA StaffInvStep ==
  ASSUME StaffInv, OneAtATime, [StaffNext]_<<request, crashes, firmVars, invitation>>
  PROVE  StaffInv'
<1>1. CASE UNCHANGED <<request, crashes, firmVars, invitation>>
  <2>1. OnlyAsks /\ request' = request
    BY <1>1 DEF OnlyAsks, OnlyReads
  <2>2. ASSUME NEW r \in Requests
        PROVE  StaffKnows(request[r])'
    <3>1. PICK q : q = request[r] /\ StaffKnows(q)
      BY DEF StaffInv
    <3>2. StaffKnows(q)' /\ q = request'[r]
      BY <2>1, <3>1, AsksKeepStaff
    <3>3. QED  BY <3>2 DEF StaffKnows
  <2>3. RequestShape'
    BY <2>1 DEF StaffInv, RequestShape
  <2>4. QED  BY <2>1, <2>2, <2>3, AsksKeepStaff DEF StaffInv
<1>2. ASSUME NEW r \in Requests, StaffStep(r)
      PROVE  StaffInv'
  <2>1. request[r] # IdleRequest
    <3>1. PICK op, label : At(r, op, label) /\ op # "none"
      <4>1. \/ \E label : \/ At(r, "inviteStaff", label) \/ At(r, "acceptStaff", label)
                          \/ At(r, "withdraw", label) \/ At(r, "removeMember", label)
            \/ \E op \in ManagerOps : \E label : At(r, op, label)
        BY <1>2 DEF StaffStep, AuthorizeInvitation, CountStaff, CheckPlan, ReplaceInvitation,
           InviteStaff, FindInvitation, ReadMember, JoinFirmByInvitation, MarkAccepted,
           AuthorizeWithdrawal, FindPending, RevokeStaffInvitation, RequireManager,
           RemoveFirmMember
      <4>2. "none" \notin ManagerOps
        BY DEF ManagerOps
      <4>3. QED  BY <4>1, <4>2
    <3>2. QED  BY <3>1 DEF At, IdleRequest
  <2>2. \A s \in Requests \ {r} : request[s] = IdleRequest
    BY <2>1, OthersAreIdle
  <2>3. QED
    BY <1>2, <2>2, InvitingReads, StaffReads, ClosingSteps, JoiningStep, InvitingStep,
       RemovingStep DEF StaffStep
<1>3. ASSUME NEW r \in Requests, ReceiveStaff(r) \/ (Die(r) /\ OnlyAsks)
      PROVE  StaffInv'
  BY <1>3, StaffComesAndGoes
<1>4. ASSUME NEW i \in Invitations, InvitationExpires(i)
      PROVE  StaffInv'
  BY <1>4, ExpiryKeepsStaff
<1>5. QED  BY <1>1, <1>2, <1>3, <1>4 DEF StaffNext

\* One request at a time: however invitations are replaced, withdrawn, accepted or expire,
\* and requests die, staff and invitees fit the plan.
THEOREM StaffAlwaysFitsThePlan == StaffSpec /\ []OneAtATime => []StaffFitsThePlan
<1>1. StaffInv => StaffFitsThePlan
  <2> SUFFICES ASSUME StaffInv PROVE StaffFitsThePlan
    OBVIOUS
  <2>1. PlacesFit
    BY DEF StaffInv
  <2>2. Places = {u \in Staff : IsMember(u)} \cup {invitation[i].user : i \in OpenOnes}
    BY DEF Places, Joined, UsersOf
  <2>3. OpenOnes = {i \in Invitations : Open(i)}
    BY DEF OpenOnes
  <2>4. QED  BY <2>1, <2>2, <2>3 DEF PlacesFit, Fits, StaffFitsThePlan
<1>2. RequestsInit /\ FirmInit /\ InvitationsInit => StaffInv
  BY StaffInvInit
<1>3. StaffInv /\ OneAtATime /\ [StaffNext]_<<request, crashes, firmVars, invitation>> => StaffInv'
  BY StaffInvStep
<1>4. QED  BY <1>1, <1>2, <1>3, PTL DEF StaffSpec

-----------------------------------------------------------------------------
(* Connections *)

\* A request that has tokens to store, and one that is about to refresh.
Stores(r) == At(r, "connect", "store") \/ At(r, "access", "store")
Refreshes(r) == At(r, "access", "refresh")
Held(r) == Seen(r).refresh

\* Tokens are numbered: the next one is none of those anybody has.
TokensAreOld ==
  /\ issued \in Nat
  /\ \A k \in honoured : k.n \in Nat /\ k.n < issued
  /\ \A r \in Requests : Stores(r) \/ Refreshes(r) => Held(r).n \in Nat /\ Held(r).n < issued
  /\ connection # None => connection.refresh.n \in Nat /\ connection.refresh.n < issued

TokensAreTheirTenants ==
  /\ \A r \in Requests : Stores(r) \/ Refreshes(r) => Held(r).tenant = Seen(r).tenant
  /\ connection # None => connection.refresh.tenant = connection.tenant

\* What a request will store is honoured; where tokens are honoured once, it alone has it,
\* so that nobody's refresh can use it up before it is stored.
HeldTokensAreGood ==
  \A r \in Requests : Stores(r) =>
    /\ Held(r) \in honoured
    /\ rotation # "KEPT" =>
         /\ connection # None => connection.refresh # Held(r)
         /\ \A s \in Requests \ {r} : Stores(s) \/ Refreshes(s) => Held(s) # Held(r)

StoredTokenIsGood ==
  connection # None /\ connection.refresh \notin honoured => Refreshing \/ crashes > 0

ConnectionInv ==
  /\ RequestShape /\ crashes \in Nat
  /\ TokensAreOld /\ TokensAreTheirTenants
  /\ HeldTokensAreGood /\ StoredTokenIsGood

-----------------------------------------------------------------------------
(* The invariant, step by step *)

\* No tokens are issued and no request runs at the start.
LEMMA ConnectionInvInit == RequestsInit /\ ConnectionsInit => ConnectionInv
BY DEF RequestsInit, ConnectionsInit, IdleRequest, ConnectionInv, RequestShape, TokensAreOld,
       TokensAreTheirTenants, HeldTokensAreGood, StoredTokenIsGood, Stores, Refreshes, At

USE DEF Stores, Refreshes, Held, At, Seen

\* A request leaves without tokens, and without being about to store refreshed ones.
LEMMA LeavingKeepsInv ==
  ASSUME ConnectionInv, NEW r \in Requests, NEW op, NEW label, NEW seen,
         MovesTo(r, op, label, seen), label \notin {"store", "refresh"},
         UNCHANGED connectionVars, crashes' \in Nat,
         At(r, "access", "store") => crashes' > 0, crashes > 0 => crashes' > 0
  PROVE  ConnectionInv'
<1> USE DEF MovesTo, connectionVars
<1>1. RequestShape'
  BY MovesKeepShape DEF ConnectionInv
<1>2. request'[r].at = label
  OBVIOUS
<1>3. TokensAreOld'
  BY <1>2 DEF ConnectionInv, TokensAreOld
<1>4. TokensAreTheirTenants'
  BY <1>2 DEF ConnectionInv, TokensAreTheirTenants
<1>5. HeldTokensAreGood'
  BY <1>2 DEF ConnectionInv, HeldTokensAreGood
<1>6. StoredTokenIsGood'
  BY <1>2 DEF ConnectionInv, StoredTokenIsGood, Refreshing
<1>7. QED  BY <1>1, <1>3, <1>4, <1>5, <1>6 DEF ConnectionInv

\* A new token is nobody's but the request's that exchanged the code.
LEMMA ExchangeCodeStep ==
  ASSUME ConnectionInv, NEW r \in Requests, ExchangeCode(r)
  PROVE  ConnectionInv'
<1> DEFINE token == NewToken(In(r))
<1>1. /\ request[r].op = "connect" /\ request[r].at = "exchange"
      /\ issued' = issued + 1 /\ honoured' = honoured \cup {token}
      /\ rotation' = rotation /\ connection' = connection
      /\ MovesTo(r, "connect", "store", [tenant |-> In(r), refresh |-> token]) /\ crashes' = crashes
  BY GotoMoves DEF ConnectionInv, ExchangeCode
<1>2. RequestShape'
  BY <1>1, MovesKeepShape DEF ConnectionInv
<1>3. /\ token.tenant = In(r) /\ token.n = issued
      /\ request'[r].op = "connect" /\ request'[r].at = "store"
      /\ request'[r].seen.refresh = token /\ request'[r].seen.tenant = In(r)
  BY <1>1 DEF MovesTo, NewToken
<1> HIDE DEF token
<1>4. TokensAreOld'
  BY <1>1, <1>3 DEF MovesTo, ConnectionInv, TokensAreOld
<1>5. TokensAreTheirTenants'
  BY <1>1, <1>3 DEF MovesTo, ConnectionInv, TokensAreTheirTenants
<1>6. /\ \A s \in Requests : Stores(s) \/ Refreshes(s) => Held(s) # token
      /\ connection # None => connection.refresh # token
  BY <1>3 DEF ConnectionInv, TokensAreOld
<1>7. HeldTokensAreGood'
  BY <1>1, <1>3, <1>6 DEF MovesTo, ConnectionInv, HeldTokensAreGood
<1>8. StoredTokenIsGood'
  BY <1>1, <1>3 DEF MovesTo, ConnectionInv, StoredTokenIsGood, Refreshing
<1>9. QED  BY <1>1, <1>2, <1>4, <1>5, <1>7, <1>8 DEF ConnectionInv

\* A request that is about to refresh has read the stored token.
LEMMA ReadConnectionStep ==
  ASSUME ConnectionInv, NEW r \in Requests, ReadConnection(r)
  PROVE  ConnectionInv'
<1>1. /\ request[r].op = "access" /\ request[r].at = "read" /\ UNCHANGED connectionVars
      /\ rotation' = rotation /\ honoured' = honoured /\ issued' = issued
      /\ connection' = connection
  BY DEF ReadConnection, StoreReads, connectionVars
<1>2. CASE Answer(r)
  <2>1. MovesTo(r, "none", "idle", None) /\ crashes' = crashes
    BY <1>2, AnswerMoves DEF ConnectionInv, Answer
  <2>2. QED  BY <1>1, <2>1, LeavingKeepsInv DEF ConnectionInv
<1>3. CASE ~Answer(r)
  <2> DEFINE token == [tenant |-> connection.tenant, refresh |-> connection.refresh]
  <2>1. connection # None /\ MovesTo(r, "access", "refresh", token) /\ crashes' = crashes
    BY <1>1, <1>3, GotoMoves DEF ConnectionInv, ReadConnection
  <2>2. RequestShape'
    BY <2>1, MovesKeepShape DEF ConnectionInv
  <2>3. /\ request'[r].op = "access" /\ request'[r].at = "refresh"
        /\ request'[r].seen.refresh = connection.refresh
        /\ request'[r].seen.tenant = connection.tenant
    BY <2>1 DEF MovesTo
  <2> HIDE DEF token
  <2>4. TokensAreOld'
    BY <1>1, <2>1, <2>3 DEF MovesTo, ConnectionInv, TokensAreOld
  <2>5. TokensAreTheirTenants'
    BY <1>1, <2>1, <2>3 DEF MovesTo, ConnectionInv, TokensAreTheirTenants
  <2>6. HeldTokensAreGood'
    BY <1>1, <2>1, <2>3 DEF MovesTo, ConnectionInv, HeldTokensAreGood
  <2>7. StoredTokenIsGood'
    BY <1>1, <2>1, <2>3 DEF MovesTo, ConnectionInv, StoredTokenIsGood, Refreshing
  <2>8. QED  BY <2>1, <2>2, <2>4, <2>5, <2>6, <2>7 DEF ConnectionInv
<1>4. QED  BY <1>2, <1>3

\* A refused refresh leaves; an accepted one holds a token that is honoured.
LEMMA RefreshTokensStep ==
  ASSUME ConnectionInv, NEW r \in Requests, RefreshTokens(r)
  PROVE  ConnectionInv'
<1> DEFINE old == request[r].seen.refresh
           token == NewToken(old.tenant)
<1>1. /\ request[r].op = "access" /\ request[r].at = "refresh"
      /\ rotation' = rotation /\ connection' = connection
      /\ old.tenant = request[r].seen.tenant
  BY DEF RefreshTokens, ConnectionInv, TokensAreTheirTenants
<1>2. CASE old \notin honoured
  <2>1. UNCHANGED connectionVars /\ MovesTo(r, "none", "idle", None) /\ crashes' = crashes
    BY <1>2, AnswerMoves DEF RefreshTokens, ConnectionInv, Answer, connectionVars
  <2>2. QED  BY <1>1, <2>1, LeavingKeepsInv DEF ConnectionInv
<1>3. CASE old \in honoured /\ rotation = "KEPT"
  <2>1. /\ honoured' = honoured /\ issued' = issued
        /\ MovesTo(r, "access", "store", request[r].seen) /\ crashes' = crashes
    BY <1>1, <1>3, GotoMoves DEF RefreshTokens, ConnectionInv
  <2>2. RequestShape'
    BY <2>1, MovesKeepShape DEF ConnectionInv
  <2>3. /\ request'[r].op = "access" /\ request'[r].at = "store"
        /\ request'[r].seen.refresh = old /\ request'[r].seen.tenant = request[r].seen.tenant
    BY <2>1 DEF MovesTo
  <2>4. /\ \A s \in Requests \ {r} : request'[s] = request[s]
        /\ old.n \in Nat /\ old.n < issued
        /\ rotation' = "KEPT" /\ honoured' = honoured /\ issued' = issued
        /\ connection' = connection /\ DOMAIN request' = Requests
    BY <1>1, <1>3, <2>1 DEF MovesTo, ConnectionInv, TokensAreOld
  <2> HIDE DEF old
  <2>5. TokensAreOld'
    BY <2>3, <2>4 DEF ConnectionInv, TokensAreOld
  <2>6. TokensAreTheirTenants'
    BY <1>1, <2>3, <2>4 DEF ConnectionInv, TokensAreTheirTenants
  <2>7. HeldTokensAreGood'
    BY <1>3, <2>3, <2>4 DEF ConnectionInv, HeldTokensAreGood
  <2>8. StoredTokenIsGood'
    BY <2>3 DEF StoredTokenIsGood, Refreshing
  <2>9. QED  BY <2>1, <2>2, <2>5, <2>6, <2>7, <2>8 DEF ConnectionInv
\* The provider takes the old token for the next one; nobody else holds the old one.
<1>4. CASE old \in honoured /\ rotation # "KEPT"
  <2>1. /\ issued' = issued + 1 /\ honoured' = (honoured \ {old}) \cup {token}
        /\ MovesTo(r, "access", "store", [request[r].seen EXCEPT !.refresh = token])
        /\ crashes' = crashes
    BY <1>1, <1>4, GotoMoves DEF RefreshTokens, ConnectionInv
  <2>2. RequestShape'
    BY <2>1, MovesKeepShape DEF ConnectionInv
  <2>3. /\ token.tenant = old.tenant /\ token.n = issued
        /\ request'[r].op = "access" /\ request'[r].at = "store"
    BY <2>1 DEF MovesTo, NewToken
  <2>4. request'[r].seen.refresh = token /\ request'[r].seen.tenant = old.tenant
    <3>1. request'[r].seen = [request[r].seen EXCEPT !.refresh = token]
      BY <2>1 DEF MovesTo
    <3>2. request[r].seen.tenant = old.tenant
      BY <1>1
    <3>3. QED  BY <3>1, <3>2
  <2>5. /\ \A s \in Requests \ {r} : request'[s] = request[s]
        /\ request[r].op = "access" /\ request[r].at = "refresh"
        /\ request[r].seen.refresh = old /\ request[r].seen.tenant = old.tenant
        /\ rotation' = rotation /\ connection' = connection
        /\ issued' = issued + 1 /\ honoured' = (honoured \ {old}) \cup {token}
    BY <1>1, <2>1 DEF MovesTo
  <2> HIDE DEF token, old
  <2>6. TokensAreOld'
    BY <2>3, <2>4, <2>5 DEF ConnectionInv, TokensAreOld
  <2>7. TokensAreTheirTenants'
    BY <2>3, <2>4, <2>5 DEF ConnectionInv, TokensAreTheirTenants
  <2>8. /\ \A s \in Requests : Stores(s) \/ Refreshes(s) => Held(s) # token
        /\ connection # None => connection.refresh # token
    BY <2>3 DEF ConnectionInv, TokensAreOld
  <2>9. HeldTokensAreGood'
    BY <1>4, <2>3, <2>4, <2>5, <2>8 DEF ConnectionInv, HeldTokensAreGood
  <2>10. StoredTokenIsGood'
    BY <2>3 DEF StoredTokenIsGood, Refreshing
  <2>11. QED  BY <2>1, <2>2, <2>6, <2>7, <2>10, <2>9 DEF ConnectionInv
<1>5. QED  BY <1>2, <1>3, <1>4

\* The stored token is the one the request held.
LEMMA StoreConnectionStep ==
  ASSUME ConnectionInv, NEW r \in Requests, StoreConnection(r)
  PROVE  ConnectionInv'
<1>1. /\ Stores(r) /\ rotation' = rotation /\ honoured' = honoured /\ issued' = issued
      /\ connection'.tenant = request[r].seen.tenant
      /\ connection'.refresh = request[r].seen.refresh
      /\ MovesTo(r, "none", "idle", None) /\ crashes' = crashes
  BY AnswerMoves DEF ConnectionInv, StoreConnection, PutConnection, Answer
<1>2. RequestShape'
  BY <1>1, MovesKeepShape DEF ConnectionInv
<1>3. request'[r].at = "idle"
  BY <1>1 DEF MovesTo
<1>4. TokensAreOld'
  BY <1>1, <1>3 DEF MovesTo, ConnectionInv, TokensAreOld
<1>5. TokensAreTheirTenants'
  BY <1>1, <1>3 DEF MovesTo, ConnectionInv, TokensAreTheirTenants
<1>6. HeldTokensAreGood'
  BY <1>1, <1>3 DEF MovesTo, ConnectionInv, HeldTokensAreGood
<1>7. StoredTokenIsGood'
  BY <1>1 DEF ConnectionInv, HeldTokensAreGood, StoredTokenIsGood
<1>8. QED  BY <1>1, <1>2, <1>4, <1>5, <1>6, <1>7 DEF ConnectionInv

\* Without a connection nothing is promised of it.
LEMMA DisconnectStep ==
  ASSUME ConnectionInv, NEW r \in Requests, Disconnect(r)
  PROVE  ConnectionInv'
<1>1. /\ request[r].op = "disconnect" /\ connection' = None
      /\ rotation' = rotation /\ honoured' = honoured /\ issued' = issued
      /\ MovesTo(r, "none", "idle", None) /\ crashes' = crashes
  BY AnswerMoves DEF ConnectionInv, Disconnect, PutConnection, Answer
<1>2. RequestShape'
  BY <1>1, MovesKeepShape DEF ConnectionInv
<1>3. request'[r].at = "idle"
  BY <1>1 DEF MovesTo
<1>4. TokensAreOld' /\ TokensAreTheirTenants'
  BY <1>1, <1>3 DEF MovesTo, ConnectionInv, TokensAreOld, TokensAreTheirTenants
<1>5. HeldTokensAreGood'
  BY <1>1, <1>3 DEF MovesTo, ConnectionInv, HeldTokensAreGood
<1>6. StoredTokenIsGood'
  BY <1>1 DEF StoredTokenIsGood
<1>7. QED  BY <1>1, <1>2, <1>4, <1>5, <1>6 DEF ConnectionInv

\* Only the access token ages: the refresh token of the record stays.
LEMMA AccessExpiresStep ==
  ASSUME ConnectionInv, AccessExpires
  PROVE  ConnectionInv'
<1>1. /\ request' = request /\ crashes' = crashes /\ connection # None
      /\ rotation' = rotation /\ honoured' = honoured /\ issued' = issued
      /\ connection' = [connection EXCEPT !.fresh = FALSE]
  BY DEF AccessExpires, PutConnection
<1>2. connection'.tenant = connection.tenant /\ connection'.refresh = connection.refresh
  BY <1>1
<1>3. RequestShape'
  BY <1>1 DEF ConnectionInv, RequestShape
<1>4. TokensAreOld' /\ TokensAreTheirTenants'
  BY <1>1, <1>2 DEF ConnectionInv, TokensAreOld, TokensAreTheirTenants
<1>5. HeldTokensAreGood'
  BY <1>1, <1>2 DEF ConnectionInv, HeldTokensAreGood
<1>6. StoredTokenIsGood'
  BY <1>1, <1>2 DEF ConnectionInv, StoredTokenIsGood, Refreshing
<1>7. QED  BY <1>1, <1>3, <1>4, <1>5, <1>6 DEF ConnectionInv

\* The invariant holds after each step.
LEMMA ConnectionInvStep == ConnectionInv /\ [ConnectionsNext]_allVars => ConnectionInv'
<1> SUFFICES ASSUME ConnectionInv, [ConnectionsNext]_allVars
             PROVE  ConnectionInv'
  OBVIOUS
<1>1. ASSUME NEW r \in Requests, ReceiveConnection(r)
      PROVE  ConnectionInv'
  <2>1. ASSUME NEW op, NEW label, NEW in, Receive(r, op, label, in),
               label \in {"exchange", "read", "delete"}
        PROVE  ConnectionInv'
    <3>1. MovesTo(r, op, label, None) /\ crashes' = crashes /\ request[r] = IdleRequest
      BY <1>1, <2>1, ReceiveMoves DEF ConnectionInv
    <3>2. ~At(r, "access", "store") /\ label \notin {"store", "refresh"}
      BY <2>1, <3>1 DEF IdleRequest
    <3>3. UNCHANGED connectionVars
      BY <1>1 DEF ReceiveConnection, StoreReads
    <3>4. QED  BY <1>1, <3>1, <3>2, <3>3, LeavingKeepsInv DEF ConnectionInv
  <2>2. QED  BY <1>1, <2>1 DEF ReceiveConnection
<1>2. ASSUME NEW r \in Requests, Die(r), StoreReads
      PROVE  ConnectionInv'
  <2>1. MovesTo(r, "none", "idle", None) /\ UNCHANGED connectionVars
    BY <1>2, AnswerMoves DEF ConnectionInv, Die, StoreReads
  <2>2. crashes' \in Nat /\ crashes' > 0
    BY <1>2 DEF ConnectionInv, Die
  <2>3. QED  BY <1>2, <2>1, <2>2, LeavingKeepsInv DEF ConnectionInv
<1>3. CASE UNCHANGED allVars
  BY <1>3 DEF allVars, connectionVars, ConnectionInv, RequestShape, TokensAreOld,
              TokensAreTheirTenants, HeldTokensAreGood, StoredTokenIsGood, Refreshing
<1>4. QED
  BY <1>1, <1>2, <1>3, ExchangeCodeStep, ReadConnectionStep, RefreshTokensStep,
     StoreConnectionStep, DisconnectStep, AccessExpiresStep DEF ConnectionsNext

\* A company's connection keeps working: whatever refreshes, connections and disconnections
\* overlap, the stored refresh token is honoured, or its successor is about to be stored,
\* or went down with a request; and it is the named organization's.
THEOREM ConnectionAlwaysWorks == ConnectionsSpec => []ConnectionKeepsWorking
<1>1. ConnectionInv => ConnectionKeepsWorking
  <2>1. SUFFICES ASSUME ConnectionInv  PROVE  ConnectionKeepsWorking
    OBVIOUS
  <2>2. QED
    BY <2>1 DEF ConnectionInv, ConnectionKeepsWorking, TokensAreTheirTenants, StoredTokenIsGood
<1>2. QED  BY ConnectionInvInit, ConnectionInvStep, <1>1, PTL DEF ConnectionsSpec

-----------------------------------------------------------------------------
(* The push of a journal *)

\* The push on its own, as MCServices runs it.
PushSpec == RequestsInit /\ PushInit /\ [][PushNext]_<<request, crashes, pushVars>>

Somewhere == Organisations \cup {None}
Sending == {"token", "refreshed", "post"}

\* A push is of a content, and goes where the company is connected to.
PushesAreTyped ==
  /\ organisation \in Somewhere /\ pushed \subseteq Contents
  /\ posted \in [Contents -> Seq(Somewhere)]
  /\ crashes \in Nat /\ forgets \in Nat
  /\ \A r \in Requests :
       /\ request[r].op = "push" => request[r].in \in Contents /\ request[r].seen \in Somewhere
       /\ request[r].op = "join" => request[r].in \in Organisations

\* What is about to be sent is not on record, and what is about to be recorded was sent.
PushesKnow ==
  \A r \in Requests : request[r].op = "push" =>
    /\ request[r].at \in Sending => request[r].in \notin pushed
    /\ request[r].at = "record" => posted[request[r].in] # <<>>

\* A content that Xero has without a record was sent by a push that died, or forgotten.
CopiesAreCounted ==
  \A h \in Contents :
    /\ h \in pushed => posted[h] # <<>>
    /\ Len(posted[h]) <= 1 + crashes + forgets
    /\ h \notin pushed /\ ~Recording(h) => Len(posted[h]) <= crashes + forgets

PushInv == RequestShape /\ PushesAreTyped /\ PushesKnow /\ CopiesAreCounted

\* Nothing was sent.
LEMMA PushInvInit == RequestsInit /\ PushInit => PushInv
BY DEF RequestsInit, PushInit, PushInv, RequestShape, PushesAreTyped, PushesKnow,
       CopiesAreCounted, IdleRequest, Somewhere, Recording

\* A step that sends nothing and records nothing, of a request that records nothing.
LEMMA PushGoesOn ==
  ASSUME PushInv, NEW r \in Requests, NEW op, NEW label, NEW seen,
         MovesTo(r, op, label, seen), UNCHANGED <<pushed, posted>>,
         crashes' \in Nat, forgets' \in Nat, organisation' \in Somewhere,
         crashes <= crashes', forgets <= forgets',
         At(r, "push", "record") => crashes' = crashes + 1, label # "record",
         op = "push" => /\ request'[r].in \in Contents /\ seen \in Somewhere
                        /\ label \in Sending => request'[r].in \notin pushed,
         op = "join" => request'[r].in \in Organisations
  PROVE  PushInv'
<1>1. RequestShape'
  BY MovesKeepShape DEF PushInv
<1>2. /\ request'[r].op = op /\ request'[r].at = label /\ request'[r].seen = seen
      /\ \A s \in Requests \ {r} : request'[s] = request[s]
  BY DEF MovesTo
<1>3. PushesAreTyped'
  BY <1>2 DEF PushInv, PushesAreTyped
<1>4. PushesKnow'
  BY <1>2 DEF PushInv, PushesKnow
<1>5. ASSUME NEW h \in Contents
      PROVE  /\ h \in pushed' => posted'[h] # <<>>
             /\ Len(posted'[h]) <= 1 + crashes' + forgets'
             /\ h \notin pushed' /\ ~Recording(h)' => Len(posted'[h]) <= crashes' + forgets'
  <2>1. Len(posted[h]) \in Nat /\ crashes \in Nat /\ forgets \in Nat
    BY DEF PushInv, PushesAreTyped
  <2>2. /\ h \in pushed => posted[h] # <<>>
        /\ Len(posted[h]) <= 1 + crashes + forgets
        /\ h \notin pushed /\ ~Recording(h) => Len(posted[h]) <= crashes + forgets
    BY DEF PushInv, CopiesAreCounted
  <2>3. Recording(h) /\ ~Recording(h)' => At(r, "push", "record")
    BY <1>2 DEF Recording, In
  <2>4. QED  BY <2>1, <2>2, <2>3
<1>6. QED  BY <1>1, <1>3, <1>4, <1>5 DEF PushInv, CopiesAreCounted

\* The reads and the connection's own writes.
LEMMA QuietPushStep ==
  ASSUME PushInv, NEW r \in Requests,
         \/ FindOrganisation(r) \/ FindPush(r) \/ GetToken(r) \/ PutRefreshed(r)
         \/ ConnectOrganisation(r) \/ DeleteConnection(r)
  PROVE  PushInv'
<1>1. /\ request[r].op = "push" => /\ request[r].in \in Contents /\ request[r].seen \in Somewhere
                                   /\ request[r].at \in Sending => request[r].in \notin pushed
      /\ request[r].op = "join" => request[r].in \in Organisations
      /\ organisation \in Somewhere /\ crashes \in Nat /\ forgets \in Nat /\ RequestShape
  BY DEF PushInv, PushesAreTyped, PushesKnow
<1>2. CASE Answer(r) /\ ~At(r, "push", "record") /\ UNCHANGED <<pushed, posted, forgets>>
           /\ organisation' \in Somewhere
  <2>1. MovesTo(r, "none", "idle", None) /\ crashes' = crashes
    BY <1>1, <1>2, AnswerMoves DEF Answer
  <2>2. QED  BY <1>1, <1>2, <2>1, PushGoesOn
<1>3. ASSUME NEW label, NEW seen, Goto(r, label, seen), label # "record", seen \in Somewhere,
             request[r].op = "push", request[r].at # "record",
             label \in Sending => request[r].in \notin pushed,
             UNCHANGED <<pushed, posted, forgets>>, organisation' \in Somewhere
      PROVE  PushInv'
  <2>1. /\ MovesTo(r, "push", label, seen) /\ crashes' = crashes
        /\ request'[r].in = request[r].in
    BY <1>1, <1>3, GotoMoves
  <2>2. QED  BY <1>1, <1>3, <2>1, PushGoesOn
<1>4. CASE FindOrganisation(r)
  <2>1. "earlier" \notin Sending
    BY DEF Sending
  <2>2. QED  BY <1>1, <1>2, <1>3, <1>4, <2>1 DEF FindOrganisation, pushVars
<1>5. CASE FindPush(r)
  BY <1>1, <1>2, <1>3, <1>5 DEF FindPush, pushVars, In
<1>6. CASE GetToken(r)
  <2>1. request[r].at \in Sending
    BY <1>6 DEF GetToken, Sending
  <2>2. QED  BY <1>1, <1>2, <1>3, <1>6, <2>1 DEF GetToken, pushVars
<1>7. CASE PutRefreshed(r)
  <2>1. request[r].at \in Sending
    BY <1>7 DEF PutRefreshed, Sending
  <2>2. QED  BY <1>1, <1>3, <1>7, <2>1 DEF PutRefreshed
<1>8. CASE ConnectOrganisation(r)
  BY <1>1, <1>2, <1>8 DEF ConnectOrganisation, In, Somewhere
<1>9. CASE DeleteConnection(r)
  BY <1>1, <1>2, <1>9 DEF DeleteConnection, Somewhere
<1>10. QED  BY <1>4, <1>5, <1>6, <1>7, <1>8, <1>9

\* Xero creates a content's journals once more; while no other push runs, that it was not on
\* record before says it has them from pushes that died or were forgotten.
LEMMA PostJournalStep ==
  ASSUME PushInv, NEW r \in Requests, PostJournal(r), OneAtATime
  PROVE  PushInv'
<1>1. /\ request[r].op = "push" /\ request[r].at = "post"
      /\ request[r].in \in Contents /\ request[r].seen \in Somewhere
      /\ request[r].in \notin pushed /\ RequestShape
      /\ UNCHANGED <<organisation, pushed, forgets>>
  BY DEF PostJournal, PushInv, PushesAreTyped, PushesKnow, Sending
<1>2. organisation \in Somewhere /\ crashes \in Nat /\ forgets \in Nat
      /\ posted \in [Contents -> Seq(Somewhere)] /\ pushed \subseteq Contents
  BY DEF PushInv, PushesAreTyped
<1>3. CASE Answer(r) /\ UNCHANGED posted
  <2>1. MovesTo(r, "none", "idle", None) /\ crashes' = crashes
    BY <1>1, <1>3, AnswerMoves DEF Answer
  <2>2. QED  BY <1>1, <1>2, <1>3, <2>1, PushGoesOn
<1>4. CASE /\ posted' = [posted EXCEPT ![In(r)] = Append(@, Seen(r))]
           /\ Goto(r, "record", Seen(r))
  <2>1. PICK c \in Contents, o \in Somewhere : c = request[r].in /\ o = request[r].seen
    BY <1>1
  <2>2. /\ MovesTo(r, "push", "record", o) /\ crashes' = crashes
        /\ request'[r].in = c
    BY <1>1, <1>4, <2>1, GotoMoves
  <2>3. /\ request'[r].op = "push" /\ request'[r].at = "record" /\ request'[r].seen = o
        /\ \A s \in Requests \ {r} : request'[s] = request[s]
    BY <2>2 DEF MovesTo
  <2>4. \A s \in Requests \ {r} : request[s] = IdleRequest
    <3>1. request[r] # IdleRequest
      BY <1>1 DEF IdleRequest
    <3>2. QED  BY <3>1, OthersAreIdle
  <2>5. PICK p : p = posted[c] /\ p \in Seq(Somewhere)
    BY <1>2
  <2>6. /\ DOMAIN posted' = Contents /\ posted'[c] = Append(p, o)
        /\ \A h \in Contents : h # c => posted'[h] = posted[h]
    BY <1>2, <1>4, <2>1, <2>5 DEF In
  <2>7. /\ Append(p, o) \in Seq(Somewhere) /\ Append(p, o) # <<>>
        /\ Len(Append(p, o)) = Len(p) + 1 /\ Len(p) \in Nat
    BY <2>5, AppendProperties
  <2>8. RequestShape'
    BY <1>1, <2>2, MovesKeepShape
  <2>9. PushesAreTyped'
    <3>1. posted' \in [Contents -> Seq(Somewhere)]
      <4>1. \A h \in Contents : posted'[h] \in Seq(Somewhere)
        BY <1>2, <2>6, <2>7
      <4>2. posted' = [h \in Contents |-> posted'[h]]
        BY <1>2, <1>4
      <4>3. QED  BY <4>1, <4>2
    <3>2. ASSUME NEW s \in Requests
          PROVE  /\ request'[s].op = "push" =>
                      request'[s].in \in Contents /\ request'[s].seen \in Somewhere
                 /\ request'[s].op = "join" => request'[s].in \in Organisations
      BY <2>2, <2>3 DEF PushInv, PushesAreTyped
    <3>3. QED  BY <1>1, <1>2, <2>2, <3>1, <3>2 DEF PushesAreTyped
  <2>10. PushesKnow'
    <3>1. IdleRequest.op # "push" /\ "record" \notin Sending
      BY DEF IdleRequest, Sending
    <3>2. QED  BY <1>1, <2>2, <2>3, <2>4, <2>6, <2>7, <3>1 DEF PushesKnow
  <2>11. CopiesAreCounted'
    <3>1. ASSUME NEW h \in Contents
          PROVE  /\ h \in pushed' => posted'[h] # <<>>
                 /\ Len(posted'[h]) <= 1 + crashes' + forgets'
                 /\ h \notin pushed' /\ ~Recording(h)' => Len(posted'[h]) <= crashes' + forgets'
      <4>1. /\ h \in pushed => posted[h] # <<>>
            /\ Len(posted[h]) <= 1 + crashes + forgets
            /\ h \notin pushed /\ ~Recording(h) => Len(posted[h]) <= crashes + forgets
        BY DEF PushInv, CopiesAreCounted
      <4>2. ~Recording(h)
        BY <1>1, <2>4 DEF Recording, IdleRequest
      <4>3. CASE h = c
        <5>1. Recording(h)'
          BY <2>2, <2>3, <4>3 DEF Recording, In
        <5>2. Len(p) <= crashes + forgets
          BY <1>1, <2>1, <2>5, <4>1, <4>2, <4>3
        <5>3. QED  BY <1>1, <1>2, <2>1, <2>2, <2>6, <2>7, <4>3, <5>1, <5>2
      <4>4. CASE h # c
        BY <1>1, <2>2, <2>6, <4>1, <4>2, <4>4
      <4>5. QED  BY <4>3, <4>4
    <3>2. QED  BY <3>1 DEF CopiesAreCounted
  <2>12. QED  BY <2>8, <2>9, <2>10, <2>11 DEF PushInv
<1>5. QED  BY <1>3, <1>4 DEF PostJournal

\* What was sent goes on record.
LEMMA RecordPushStep ==
  ASSUME PushInv, NEW r \in Requests, RecordPush(r), OneAtATime
  PROVE  PushInv'
<1>1. /\ request[r].op = "push" /\ request[r].at = "record" /\ RequestShape
      /\ request[r].in \in Contents /\ posted[request[r].in] # <<>>
      /\ pushed' = pushed \cup {request[r].in}
      /\ UNCHANGED <<organisation, posted, forgets>> /\ Answer(r)
  BY DEF RecordPush, PushInv, PushesAreTyped, PushesKnow, In
<1>2. MovesTo(r, "none", "idle", None) /\ crashes' = crashes
  BY <1>1, AnswerMoves DEF Answer
<1>3. /\ request'[r].op = "none" /\ request'[r].at = "idle"
      /\ \A s \in Requests \ {r} : request'[s] = request[s]
  BY <1>2 DEF MovesTo
<1>4. \A s \in Requests \ {r} : request[s] = IdleRequest
  <2>1. request[r] # IdleRequest
    BY <1>1 DEF IdleRequest
  <2>2. QED  BY <2>1, OthersAreIdle
<1>5. RequestShape'
  BY <1>1, <1>2, MovesKeepShape
<1>6. PushesAreTyped'
  BY <1>1, <1>2, <1>3 DEF PushInv, PushesAreTyped
<1>7. PushesKnow'
  BY <1>3, <1>4 DEF PushesKnow, IdleRequest
<1>8. ASSUME NEW h \in Contents
      PROVE  /\ h \in pushed' => posted'[h] # <<>>
             /\ Len(posted'[h]) <= 1 + crashes' + forgets'
             /\ h \notin pushed' /\ ~Recording(h)' => Len(posted'[h]) <= crashes' + forgets'
  <2>1. /\ h \in pushed => posted[h] # <<>>
        /\ Len(posted[h]) <= 1 + crashes + forgets
        /\ h \notin pushed /\ ~Recording(h) => Len(posted[h]) <= crashes + forgets
    BY DEF PushInv, CopiesAreCounted
  <2>2. h \notin pushed' => ~Recording(h)
    BY <1>1, <1>4 DEF Recording, In, IdleRequest
  <2>3. QED  BY <1>1, <1>2, <2>1, <2>2
<1>9. QED  BY <1>5, <1>6, <1>7, <1>8 DEF PushInv, CopiesAreCounted

\* What was on record is forgotten, and counted as such.
LEMMA ForgetPushesStep ==
  ASSUME PushInv, NEW r \in Requests, ForgetPushes(r)
  PROVE  PushInv'
<1>1. /\ request[r].op = "leave" /\ request[r].at = "forget" /\ RequestShape
      /\ pushed' = {} /\ forgets' = forgets + 1
      /\ UNCHANGED <<organisation, posted>> /\ Goto(r, "delete", None)
  BY DEF ForgetPushes, PushInv
<1>2. MovesTo(r, "leave", "delete", None) /\ crashes' = crashes
  BY <1>1, GotoMoves
<1>3. /\ request'[r].op = "leave"
      /\ \A s \in Requests \ {r} : request'[s] = request[s]
  BY <1>2 DEF MovesTo
<1>4. RequestShape'
  BY <1>1, <1>2, MovesKeepShape
<1>5. PushesAreTyped'
  BY <1>1, <1>2, <1>3 DEF PushInv, PushesAreTyped
<1>6. PushesKnow'
  BY <1>1, <1>3 DEF PushInv, PushesKnow
<1>7. ASSUME NEW h \in Contents
      PROVE  /\ h \in pushed' => posted'[h] # <<>>
             /\ Len(posted'[h]) <= 1 + crashes' + forgets'
             /\ h \notin pushed' /\ ~Recording(h)' => Len(posted'[h]) <= crashes' + forgets'
  <2>1. Len(posted[h]) \in Nat /\ crashes \in Nat /\ forgets \in Nat
    BY DEF PushInv, PushesAreTyped
  <2>2. Len(posted[h]) <= 1 + crashes + forgets
    BY DEF PushInv, CopiesAreCounted
  <2>3. QED  BY <1>1, <1>2, <2>1, <2>2
<1>8. QED  BY <1>4, <1>5, <1>6, <1>7 DEF PushInv, CopiesAreCounted

\* The invariant holds after each step of one request at a time.
LEMMA PushInvStep ==
  PushInv /\ OneAtATime /\ [PushNext]_<<request, crashes, pushVars>> => PushInv'
<1> SUFFICES ASSUME PushInv, OneAtATime, [PushNext]_<<request, crashes, pushVars>>
             PROVE  PushInv'
  OBVIOUS
<1>1. RequestShape /\ organisation \in Somewhere /\ crashes \in Nat /\ forgets \in Nat
  BY DEF PushInv, PushesAreTyped
<1>2. ASSUME NEW r \in Requests, ReceivePush(r)
      PROVE  PushInv'
  <2>1. ASSUME NEW op, NEW label, NEW in, Receive(r, op, label, in),
               label \notin {"record"} \cup Sending, op = "push" => in \in Contents,
               op = "join" => in \in Organisations
        PROVE  PushInv'
    <3>1. /\ MovesTo(r, op, label, None) /\ crashes' = crashes /\ request[r] = IdleRequest
          /\ request'[r].in = in
      BY <1>1, <2>1, ReceiveMoves
    <3>2. ~At(r, "push", "record") /\ None \in Somewhere
      BY <3>1 DEF IdleRequest, Somewhere
    <3>3. UNCHANGED pushVars
      BY <1>2 DEF ReceivePush
    <3>4. UNCHANGED <<pushed, posted, forgets, organisation>>
      BY <3>3 DEF pushVars
    <3>5. QED  BY <1>1, <2>1, <3>1, <3>2, <3>4, PushGoesOn
  <2>2. {"target", "put", "forget"} \cap ({"record"} \cup Sending) = {}
    BY DEF Sending
  <2>3. QED  BY <1>2, <2>1, <2>2 DEF ReceivePush
<1>3. ASSUME NEW r \in Requests, Die(r), UNCHANGED pushVars
      PROVE  PushInv'
  <2>1. /\ MovesTo(r, "none", "idle", None) /\ crashes' = crashes + 1
        /\ UNCHANGED <<pushed, posted, forgets, organisation>>
    BY <1>1, <1>3, AnswerMoves DEF Die, pushVars
  <2>2. crashes' \in Nat /\ crashes <= crashes'
    BY <1>1, <2>1
  <2>3. QED  BY <1>1, <2>1, <2>2, PushGoesOn
<1>4. CASE UNCHANGED <<request, crashes, pushVars>>
  BY <1>4 DEF pushVars, PushInv, RequestShape, PushesAreTyped, PushesKnow, CopiesAreCounted,
              Recording, In
<1>5. QED
  BY <1>2, <1>3, <1>4, QuietPushStep, PostJournalStep, RecordPushStep, ForgetPushesStep
     DEF PushNext

\* One request at a time: Xero has one copy of a content's journals, and one more for each
\* push that died and each disconnection; what is on record was sent, and the other way.
THEOREM PostsAreAlwaysOnRecord == PushSpec /\ []OneAtATime => []PostsAreOnRecord
<1>1. PushInv => PostsAreOnRecord
  <2> SUFFICES ASSUME PushInv, NEW h \in Contents
                 PROVE  /\ Len(posted[h]) <= 1 + crashes + forgets
                        /\ h \in pushed => posted[h] # <<>>
                        /\ posted[h] # <<>> => h \in pushed \/ Recording(h) \/ crashes + forgets > 0
    BY DEF PostsAreOnRecord
  <2>2. crashes \in Nat /\ forgets \in Nat /\ posted[h] \in Seq(Somewhere)
    BY DEF PushInv, PushesAreTyped
  <2>3. posted[h] # <<>> => Len(posted[h]) > 0
    BY <2>2
  <2>4. QED  BY <2>2, <2>3 DEF PushInv, CopiesAreCounted
<1>2. QED  BY PushInvInit, PushInvStep, <1>1, PTL DEF PushSpec

-----------------------------------------------------------------------------
(* Rate limits *)

\* The limiters on their own, as MCServices runs them.
LimitsSpec == LimitsInit /\ [][LimitsNext]_limitVars

LastCall == MaxTime + 1
Aligned == 0..(MaxTime \div Window)

\* A history: it grows with the ticks, and knows of none to come.
IsHistory(h, now) ==
  /\ h \in [Moments -> Nat]
  /\ \A t, u \in Moments : t <= u => h[t] <= h[u]
  /\ \A u \in Moments : u > now => h[u] = h[LastCall]

\* How many since tick t, and what a call at `now` adds.
Since(h, t) == h[LastCall] - h[t]
More(h, now) == [u \in Moments |-> IF u > now THEN h[u] + 1 ELSE h[u]]
Over(e, now) == e = NoEntry \/ now - e.start >= Window

Least(a, b) == IF a <= b THEN a ELSE b

\* What of a key's window was admitted, and what of an older one may have been since t.
Lasting(e, t) ==
  IF e = NoEntry THEN Limit
  ELSE Least(e.count, Limit) + (IF e.start >= t THEN Limit ELSE 0)

\* A window that still runs at the end of a range of ticks has let pass no more than it
\* counted, after at most one other and those that were forgotten, and no fewer than the limit
\* if it counted as many.
Bounded(e, a, f, now) ==
  \A t \in Ticks : now < t + Window => Since(a, t) <= Limit * Since(f, t) + Lasting(e, t)

CounterIsGood(e, a, f, now) ==
  /\ e = NoEntry \/ e \in [start : 0..now, count : Nat \ {0}]
  /\ Bounded(e, a, f, now)
  /\ e # NoEntry => Since(a, e.start) >= Least(e.count, Limit)

\* An aligned window has let pass what it counted, up to the limit.
DocumentIsGood(d, a) ==
  /\ d \in [Aligned -> Nat]
  /\ \A j \in Aligned : During(a, Window * j) = Least(d[j], Limit)

\* No range of ticks saw more pass than it may.
RangesAreGood(a, f) == \A t \in Ticks : During(a, t) <= Limit * (2 + During(f, t))

RefusalsAreDue(a, ticks) == \A t \in ticks : During(a, t - Window + 1) >= Limit

LimitsInv ==
  /\ clock \in Ticks
  /\ IsHistory(forgotten, clock)
  /\ DOMAIN admitted = Keys /\ DOMAIN refused = Keys
  /\ \A k \in Keys : IsHistory(admitted[k], clock)
  /\ \A k \in Keys : refused[k] \subseteq Ticks /\ RefusalsAreDue(admitted[k], refused[k])
  /\ limiter # "SHARED" =>
       /\ DOMAIN counter = Keys
       /\ \A k \in Keys : CounterIsGood(counter[k], admitted[k], forgotten, clock)
       /\ \A k \in Keys : RangesAreGood(admitted[k], forgotten)
  /\ limiter = "SHARED" =>
       /\ DOMAIN document = Keys
       /\ \A k \in Keys : DocumentIsGood(document[k], admitted[k])

-----------------------------------------------------------------------------
(* Aligned windows *)

\* A tick is in the aligned window that its number over the window's length names.
LEMMA AlignedWindow ==
  ASSUME NEW t \in Ticks
  PROVE  /\ t \div Window \in Aligned
         /\ Window * (t \div Window) \in Ticks
         /\ Window * (t \div Window) <= t
         /\ t < Window * (t \div Window) + Window
         /\ t % Window = 0 => t = Window * (t \div Window)
<1>1. t \in Nat /\ MaxTime \in Nat /\ t <= MaxTime
  BY LimitAssumption DEF Ticks
<1>2. t \div Window \in Nat
  BY <1>1, LimitAssumption
<1>3. t \div Window <= MaxTime \div Window
  BY <1>1, LimitAssumption
<1>4. Window * (t \div Window) <= t /\ t < Window * (t \div Window) + Window
  BY <1>1, LimitAssumption
<1>5. t % Window = 0 => t = Window * (t \div Window)
  BY <1>1, LimitAssumption
<1>6. Window * (t \div Window) \in Nat
  BY <1>2, LimitAssumption
<1>7. QED  BY <1>1, <1>2, <1>3, <1>4, <1>5, <1>6 DEF Aligned, Ticks

\* Aligned windows are within the ticks and do not overlap.
LEMMA AlignedApart ==
  ASSUME NEW i \in Aligned
  PROVE  /\ Window * i \in Ticks
         /\ \A j \in Aligned : i < j => Window * i + Window <= Window * j
<1>1. i \in Nat /\ MaxTime \div Window \in Nat /\ i <= MaxTime \div Window
  BY LimitAssumption DEF Aligned
<1>2. MaxTime \in Ticks
  BY LimitAssumption DEF Ticks
<1>3. Window * i \in Nat /\ Window * i <= Window * (MaxTime \div Window)
  BY <1>1, LimitAssumption
<1>4. Window * (MaxTime \div Window) <= MaxTime /\ Window * (MaxTime \div Window) \in Nat
  BY <1>1, <1>2, AlignedWindow, LimitAssumption
<1>5. Window * i \in Ticks
  BY <1>3, <1>4, LimitAssumption DEF Ticks
<1>6. ASSUME NEW j \in Aligned, i < j
      PROVE  Window * i + Window <= Window * j
  BY <1>1, <1>6, LimitAssumption DEF Aligned
<1>7. QED  BY <1>5, <1>6

-----------------------------------------------------------------------------
(* Histories *)

\* The moments that a range begins and ends at.
LEMMA MomentType ==
  ASSUME NEW t \in Int
  PROVE  /\ Moment(t) \in Moments
         /\ t \in Moments => Moment(t) = t
         /\ t \in Ticks => t \in Moments
         /\ t > MaxTime => Moment(t) = LastCall
         /\ \A s \in Int : s <= t => Moment(s) <= Moment(t)
BY LimitAssumption DEF Moment, Moments, Ticks, LastCall

\* As long as a range of ticks has not ended, what it saw is what was seen since.
LEMMA RangeSoFar ==
  ASSUME NEW now \in Ticks, NEW h, IsHistory(h, now), NEW t \in Ticks, now < t + Window
  PROVE  During(h, t) = Since(h, t)
<1>1. t + Window \in Int /\ now \in Int /\ t \in Int
  BY LimitAssumption DEF Ticks
<1>2. Moment(t + Window) \in Moments /\ Moment(t + Window) > now
  BY <1>1, LimitAssumption DEF Moment, Moments, Ticks
<1>3. Moment(t) = t
  BY <1>1, MomentType
<1>4. h[Moment(t + Window)] = h[LastCall]
  BY <1>2 DEF IsHistory
<1>5. QED  BY <1>3, <1>4 DEF During, Since

\* One more call is one more since each tick until now, and none fewer in any range.
LEMMA HistoryGrows ==
  ASSUME NEW now \in Ticks, NEW h, IsHistory(h, now)
  PROVE  /\ IsHistory(More(h, now), now)
         /\ \A t \in Moments : Since(More(h, now), t) =
                                 IF t <= now THEN Since(h, t) + 1 ELSE Since(h, t)
         /\ \A t \in Int : During(More(h, now), t) >= During(h, t)
         /\ \A t \in Ticks : now >= t + Window => During(More(h, now), t) = During(h, t)
         /\ \A t \in Ticks : t > now => During(More(h, now), t) = During(h, t)
<1> DEFINE g == More(h, now)
<1>1. now \in Nat /\ now <= MaxTime /\ MaxTime \in Nat /\ LastCall \in Moments /\ LastCall > now
  BY LimitAssumption DEF Ticks, Moments, LastCall
<1>2. \A u \in Moments : g[u] = IF u > now THEN h[u] + 1 ELSE h[u]
  BY DEF More
<1>3. \A u \in Moments : u \in Nat /\ h[u] \in Nat
  BY <1>1 DEF IsHistory, Moments
<1>4. g \in [Moments -> Nat]
  BY <1>3 DEF More
<1> HIDE DEF g
<1>5. IsHistory(g, now)
  BY <1>1, <1>2, <1>3, <1>4 DEF IsHistory
<1>6. \A t \in Moments : Since(g, t) = IF t <= now THEN Since(h, t) + 1 ELSE Since(h, t)
  BY <1>1, <1>2, <1>3 DEF Since
<1>7. ASSUME NEW t \in Int
      PROVE  During(g, t) >= During(h, t)
  <2>1. /\ Moment(t) \in Moments /\ Moment(t + Window) \in Moments
        /\ Moment(t) <= Moment(t + Window)
    BY MomentType, LimitAssumption
  <2>2. QED  BY <1>1, <1>2, <1>3, <2>1 DEF During
<1>8. ASSUME NEW t \in Ticks
      PROVE  now >= t + Window \/ t > now => During(g, t) = During(h, t)
  <2>1. /\ Moment(t) \in Moments /\ Moment(t + Window) \in Moments /\ Moment(t) = t
        /\ t \in Int
    BY MomentType, LimitAssumption DEF Ticks
  <2>2. CASE now >= t + Window
    <3>1. Moment(t + Window) = t + Window /\ t <= now
      BY <1>1, <2>1, <2>2, LimitAssumption DEF Moment, Ticks
    <3>2. QED  BY <1>1, <1>2, <1>3, <2>1, <2>2, <3>1 DEF During
  <2>3. CASE t > now
    <3>1. Moment(t + Window) > now
      BY <1>1, <2>1, <2>3, LimitAssumption DEF Moment
    <3>2. QED  BY <1>1, <1>2, <1>3, <2>1, <2>3, <3>1 DEF During
  <2>4. QED  BY <2>2, <2>3
<1>9. QED  BY <1>5, <1>6, <1>7, <1>8 DEF g

-----------------------------------------------------------------------------
(* One window of the process's table, or of the sign-in counter *)

\* Limits are products only of the limit and a number of forgettings.
LEMMA LimitTimes ==
  ASSUME NEW n \in Nat
  PROVE  /\ Limit * n \in Nat
         /\ Limit * (n + 1) = Limit * n + Limit
         /\ Limit * (n + 2) = Limit * n + 2 * Limit
         /\ Limit * (2 + n) = Limit * n + 2 * Limit
BY LimitAssumption

\* What was seen since a tick is a number.
LEMMA SinceType ==
  ASSUME NEW now \in Ticks, NEW h, IsHistory(h, now), NEW t \in Moments
  PROVE  Since(h, t) \in Nat /\ (t > now => Since(h, t) = 0)
<1>1. LastCall \in Moments /\ t <= LastCall
  BY LimitAssumption DEF Moments, LastCall
<1>2. h[t] \in Nat /\ h[LastCall] \in Nat /\ h[t] <= h[LastCall]
  BY <1>1 DEF IsHistory
<1>3. t > now => h[t] = h[LastCall]
  BY DEF IsHistory
<1>4. QED  BY <1>2, <1>3 DEF Since

\* Forgetting more never bounds less.
LEMMA MoreForgotten ==
  ASSUME NEW now \in Ticks, NEW a, NEW f, IsHistory(a, now), IsHistory(f, now),
         NEW e, CounterIsGood(e, a, f, now)
  PROVE  /\ CounterIsGood(e, a, More(f, now), now)
         /\ CounterIsGood(NoEntry, a, More(f, now), now)
<1> DEFINE g == More(f, now)
<1>1. ASSUME NEW t \in Ticks, now < t + Window
      PROVE  /\ Since(a, t) <= Limit * Since(g, t) + Lasting(e, t)
             /\ Since(a, t) <= Limit * Since(g, t) + Limit
  <2>1. t \in Moments /\ t \in Nat /\ now \in Nat
    BY LimitAssumption DEF Ticks, Moments
  <2>2. /\ Since(a, t) \in Nat /\ Since(f, t) \in Nat
        /\ t > now => Since(a, t) = 0 /\ Since(f, t) = 0
    BY <2>1, SinceType
  <2>3. Since(g, t) = IF t <= now THEN Since(f, t) + 1 ELSE Since(f, t)
    BY <2>1, HistoryGrows
  <2>4. Since(a, t) <= Limit * Since(f, t) + Lasting(e, t)
    BY <1>1 DEF CounterIsGood, Bounded
  <2>5. Lasting(e, t) \in Nat /\ Lasting(e, t) <= 2 * Limit
    BY LimitAssumption DEF CounterIsGood, Lasting, Least
  <2>6. /\ Limit * Since(f, t) \in Nat
        /\ Limit * (Since(f, t) + 1) = Limit * Since(f, t) + Limit
    BY <2>2, LimitTimes
  <2> HIDE DEF g
  <2>7. CASE t > now
    BY <2>1, <2>2, <2>3, <2>5, <2>6, <2>7, LimitAssumption
  <2>8. CASE t <= now
    BY <2>1, <2>2, <2>3, <2>4, <2>5, <2>6, <2>8, LimitAssumption
  <2>9. QED  BY <2>1, <2>7, <2>8
<1>2. \A t \in Ticks : Lasting(NoEntry, t) = Limit
  BY DEF Lasting
<1>3. QED  BY <1>1, <1>2 DEF CounterIsGood, Bounded

\* What bounds the calls since a tick are numbers.
LEMMA BoundType ==
  ASSUME NEW now \in Ticks, NEW a, NEW f, IsHistory(a, now), IsHistory(f, now),
         NEW e, CounterIsGood(e, a, f, now), NEW t \in Ticks
  PROVE  /\ t \in Moments /\ t \in Nat /\ now \in Nat
         /\ Since(a, t) \in Nat /\ Limit * Since(f, t) \in Nat /\ Lasting(e, t) \in Nat
         /\ e # NoEntry => e.start \in Nat /\ e.count \in Nat
<1>1. t \in Moments /\ t \in Nat /\ now \in Nat
  BY LimitAssumption DEF Ticks, Moments
<1>2. Since(a, t) \in Nat /\ Since(f, t) \in Nat
  BY <1>1, SinceType
<1>3. Limit * Since(f, t) \in Nat
  BY <1>2, LimitTimes
<1>4. e # NoEntry => e.start \in Nat /\ e.count \in Nat
  BY <1>1 DEF CounterIsGood
<1>5. Lasting(e, t) \in Nat
  BY <1>4, LimitAssumption DEF Lasting, Least
<1>6. QED  BY <1>1, <1>2, <1>3, <1>4, <1>5

\* An entry whose window is over may be taken away.
LEMMA OverIsGone ==
  ASSUME NEW now \in Ticks, NEW a, NEW f, IsHistory(a, now), IsHistory(f, now),
         NEW e, CounterIsGood(e, a, f, now), Over(e, now)
  PROVE  CounterIsGood(NoEntry, a, f, now)
<1>1. ASSUME NEW t \in Ticks, now < t + Window
      PROVE  Since(a, t) <= Limit * Since(f, t) + Lasting(NoEntry, t)
  <2>1. /\ t \in Nat /\ now \in Nat /\ Since(a, t) \in Nat /\ Limit * Since(f, t) \in Nat
        /\ Lasting(e, t) \in Nat /\ (e # NoEntry => e.start \in Nat /\ e.count \in Nat)
    BY BoundType
  <2>2. Lasting(e, t) <= Limit
    BY <1>1, <2>1, LimitAssumption DEF Lasting, Least, Over
  <2>3. Since(a, t) <= Limit * Since(f, t) + Lasting(e, t)
    BY <1>1 DEF CounterIsGood, Bounded
  <2>4. QED  BY <2>1, <2>2, <2>3, LimitAssumption DEF Lasting
<1>2. QED  BY <1>1 DEF CounterIsGood, Bounded

\* A call that opens a window passes.
LEMMA NewWindow ==
  ASSUME NEW now \in Ticks, NEW a, NEW f, IsHistory(a, now), IsHistory(f, now),
         NEW e, CounterIsGood(e, a, f, now), Over(e, now)
  PROVE  CounterIsGood([start |-> now, count |-> 1], More(a, now), f, now)
<1> DEFINE n == [start |-> now, count |-> 1]
           b == More(a, now)
<1>1. CounterIsGood(NoEntry, a, f, now)
  BY OverIsGone
<1>2. n # NoEntry /\ n.start = now /\ n.count = 1 /\ n \in [start : 0..now, count : Nat \ {0}]
  BY LimitAssumption DEF NoEntry, Ticks
<1>3. \A t \in Moments : Since(b, t) = IF t <= now THEN Since(a, t) + 1 ELSE Since(a, t)
  BY HistoryGrows
<1> HIDE DEF n, b
<1>4. ASSUME NEW t \in Ticks, now < t + Window
      PROVE  Since(b, t) <= Limit * Since(f, t) + Lasting(n, t)
  <2>1. /\ t \in Moments /\ t \in Nat /\ now \in Nat /\ Since(a, t) \in Nat
        /\ Limit * Since(f, t) \in Nat
    BY BoundType
  <2>2. Since(a, t) <= Limit * Since(f, t) + Limit
    BY <1>1, <1>4 DEF CounterIsGood, Bounded, Lasting
  <2>3. t > now => Since(a, t) = 0
    BY <2>1, SinceType
  <2>4. Lasting(n, t) = 1 + (IF now >= t THEN Limit ELSE 0)
    BY <1>2, LimitAssumption DEF Lasting, Least
  <2>5. QED  BY <1>3, <2>1, <2>2, <2>3, <2>4, LimitAssumption
<1>5. Since(b, n.start) >= Least(n.count, Limit)
  <2>1. now \in Moments /\ now \in Nat /\ Since(a, now) \in Nat
    BY BoundType
  <2>2. QED  BY <1>2, <1>3, <2>1, LimitAssumption DEF Least
<1>6. QED  BY <1>2, <1>4, <1>5 DEF CounterIsGood, Bounded, n, b

\* A call in an open window counts, and passes up to the limit.
LEMMA SameWindow ==
  ASSUME NEW now \in Ticks, NEW a, NEW f, IsHistory(a, now), IsHistory(f, now),
         NEW e, CounterIsGood(e, a, f, now), ~Over(e, now),
         NEW b, b = IF e.count + 1 <= Limit THEN More(a, now) ELSE a
  PROVE  CounterIsGood([e EXCEPT !.count = @ + 1], b, f, now)
<1> DEFINE n == [e EXCEPT !.count = @ + 1]
<1>1. /\ e # NoEntry /\ now \in Nat /\ e.start \in Nat /\ e.start <= now
      /\ e.count \in Nat \ {0} /\ e.start \in Moments
      /\ e \in [start : 0..now, count : Nat \ {0}]
  BY LimitAssumption DEF Over, CounterIsGood, Ticks, Moments
<1>2. /\ n.start = e.start /\ n.count = e.count + 1
      /\ n \in [start : 0..now, count : Nat \ {0}]
  BY <1>1
<1> HIDE DEF n
<1>3. n # NoEntry
  BY <1>1, <1>2 DEF NoEntry
<1>4. \A t \in Moments : Since(b, t) = IF e.count + 1 <= Limit /\ t <= now
                                       THEN Since(a, t) + 1 ELSE Since(a, t)
  BY HistoryGrows
<1>5. ASSUME NEW t \in Ticks, now < t + Window
      PROVE  Since(b, t) <= Limit * Since(f, t) + Lasting(n, t)
  <2>1. /\ t \in Moments /\ t \in Nat /\ Since(a, t) \in Nat /\ Limit * Since(f, t) \in Nat
    BY BoundType
  <2>2. Since(a, t) <= Limit * Since(f, t) + Lasting(e, t)
    BY <1>5 DEF CounterIsGood, Bounded
  <2>3. /\ Lasting(e, t) = Least(e.count, Limit) + (IF e.start >= t THEN Limit ELSE 0)
        /\ Lasting(n, t) = Least(e.count + 1, Limit) + (IF e.start >= t THEN Limit ELSE 0)
    BY <1>1, <1>2, <1>3 DEF Lasting
  <2>4. QED  BY <1>1, <1>4, <2>1, <2>2, <2>3, LimitAssumption DEF Least
<1>6. Since(b, n.start) >= Least(n.count, Limit)
  <2>1. Since(a, e.start) \in Nat /\ Since(a, e.start) >= Least(e.count, Limit)
    BY <1>1, SinceType DEF CounterIsGood
  <2>2. QED  BY <1>1, <1>2, <1>4, <2>1, LimitAssumption DEF Least
<1>7. QED  BY <1>2, <1>3, <1>5, <1>6 DEF CounterIsGood, Bounded, n

\* Whoever is refused in an open window used up the limit in the last ticks of its length.
LEMMA RefusedInWindow ==
  ASSUME NEW now \in Ticks, NEW a, NEW f, IsHistory(a, now), IsHistory(f, now),
         NEW e, CounterIsGood(e, a, f, now), ~Over(e, now), e.count >= Limit
  PROVE  During(a, now - Window + 1) >= Limit
<1>1. /\ e # NoEntry /\ now \in Nat /\ now <= MaxTime /\ e.start \in Nat /\ e.start <= now
      /\ e.count \in Nat /\ e.start \in Moments /\ now - e.start < Window
  BY LimitAssumption DEF Over, CounterIsGood, Ticks, Moments
<1>2. Since(a, e.start) >= Limit
  BY <1>1, LimitAssumption DEF CounterIsGood, Least
<1> DEFINE s == Moment(now - Window + 1)
           u == Moment(now - Window + 1 + Window)
<1>3. s \in Moments /\ u \in Moments /\ s <= e.start /\ u > now
  BY <1>1, LimitAssumption DEF Moment, Moments
<1> HIDE DEF s, u
<1>4. a[u] = a[LastCall] /\ a[s] <= a[e.start] /\ a[s] \in Nat /\ a[e.start] \in Nat
  BY <1>1, <1>3 DEF IsHistory
<1>5. LastCall \in Moments /\ a[LastCall] \in Nat
  BY LimitAssumption DEF LastCall, Moments, IsHistory
<1>6. QED  BY <1>2, <1>4, <1>5, LimitAssumption DEF During, Since, s, u

\* What every range of ticks saw stays within its bound: the bound of the window that runs
\* for ranges that have not ended, and nothing changes for those that have.
LEMMA RangesStayGood ==
  ASSUME NEW now \in Ticks, NEW a, NEW f, IsHistory(a, now), IsHistory(f, now),
         RangesAreGood(a, f),
         NEW b \in {a, More(a, now)}, NEW g \in {f, More(f, now)},
         NEW e, CounterIsGood(e, b, g, now)
  PROVE  RangesAreGood(b, g)
<1>1. IsHistory(b, now) /\ IsHistory(g, now)
  BY HistoryGrows
<1>2. ASSUME NEW t \in Ticks, now < t + Window
      PROVE  During(b, t) <= Limit * (2 + During(g, t))
  <2>1. /\ During(b, t) = Since(b, t) /\ During(g, t) = Since(g, t)
        /\ t \in Moments
    BY <1>1, <1>2, RangeSoFar, MomentType DEF Ticks
  <2>2. Since(b, t) <= Limit * Since(g, t) + Lasting(e, t)
    BY <1>2 DEF CounterIsGood, Bounded
  <2>3. /\ Since(b, t) \in Nat /\ Limit * Since(g, t) \in Nat /\ Lasting(e, t) \in Nat
        /\ (e # NoEntry => e.start \in Nat /\ e.count \in Nat)
    BY <1>1, BoundType
  <2>4. Lasting(e, t) <= 2 * Limit
    BY <2>3, LimitAssumption DEF Lasting, Least
  <2>5. Since(g, t) \in Nat
    BY <1>1, <2>1, SinceType
  <2>6. Limit * (2 + Since(g, t)) = Limit * Since(g, t) + 2 * Limit
    BY <2>5, LimitTimes
  <2>7. QED  BY <2>1, <2>2, <2>3, <2>4, <2>6, LimitAssumption
<1>3. ASSUME NEW t \in Ticks, now >= t + Window
      PROVE  During(b, t) <= Limit * (2 + During(g, t))
  <2>1. During(b, t) = During(a, t) /\ During(g, t) = During(f, t)
    BY <1>3, HistoryGrows
  <2>2. QED  BY <2>1 DEF RangesAreGood
<1>4. \A t \in Ticks : now < t + Window \/ now >= t + Window
  BY LimitAssumption DEF Ticks
<1>5. QED  BY <1>2, <1>3, <1>4 DEF RangesAreGood

\* Refusals that were due stay due, whatever passes later.
LEMMA RefusalsStayDue ==
  ASSUME NEW now \in Ticks, NEW a, IsHistory(a, now), NEW R \in SUBSET Ticks,
         RefusalsAreDue(a, R), NEW b \in {a, More(a, now)}
  PROVE  RefusalsAreDue(b, R)
<1>1. ASSUME NEW t \in R
      PROVE  During(b, t - Window + 1) >= Limit
  <2>1. t - Window + 1 \in Int
    BY LimitAssumption DEF Ticks
  <2>2. /\ Moment(t - Window + 1) \in Moments
        /\ Moment(t - Window + 1 + Window) \in Moments
    BY <2>1, MomentType, LimitAssumption
  <2>3. /\ During(b, t - Window + 1) >= During(a, t - Window + 1)
        /\ During(a, t - Window + 1) >= Limit
    <3>1. During(a, t - Window + 1) >= Limit
      BY DEF RefusalsAreDue
    <3>2. CASE b = a
      BY <2>2, <3>1, <3>2 DEF During, IsHistory
    <3>3. CASE b = More(a, now)
      BY <2>1, <3>1, <3>3, HistoryGrows
    <3>4. QED  BY <3>2, <3>3
  <2>4. /\ During(b, t - Window + 1) \in Int /\ During(a, t - Window + 1) \in Int
    <3>1. IsHistory(b, now)
      BY HistoryGrows
    <3>2. QED  BY <2>2, <3>1 DEF During, IsHistory
  <2>5. QED  BY <2>3, <2>4, LimitAssumption
<1>2. QED  BY <1>1 DEF RefusalsAreDue

-----------------------------------------------------------------------------
(* One aligned window of the shared limiter *)

\* The document of the window counts the call, which passes up to the limit.
LEMMA WindowCounts ==
  ASSUME NEW now \in Ticks, NEW a, IsHistory(a, now), NEW d, DocumentIsGood(d, a),
         NEW w, w = now \div Window,
         NEW b, b = IF d[w] + 1 <= Limit THEN More(a, now) ELSE a
  PROVE  DocumentIsGood([d EXCEPT ![w] = @ + 1], b)
<1>1. /\ w \in Aligned /\ Window * w \in Ticks /\ now < Window * w + Window
      /\ Window * w <= now /\ now \in Nat
  BY AlignedWindow DEF Ticks
<1> DEFINE n == [d EXCEPT ![w] = @ + 1]
<1>2. /\ n \in [Aligned -> Nat] /\ n[w] = d[w] + 1 /\ d[w] \in Nat
      /\ \A j \in Aligned \ {w} : n[j] = d[j]
  BY <1>1 DEF DocumentIsGood
<1> HIDE DEF n
<1>3. IsHistory(b, now)
  BY HistoryGrows
<1>4. During(b, Window * w) = Least(n[w], Limit)
  <2>1. /\ During(a, Window * w) = Since(a, Window * w)
        /\ During(b, Window * w) = Since(b, Window * w)
    BY <1>1, <1>3, RangeSoFar
  <2>2. Window * w \in Moments
    BY <1>1, MomentType DEF Ticks
  <2>3. Since(b, Window * w) = IF d[w] + 1 <= Limit THEN Since(a, Window * w) + 1
                               ELSE Since(a, Window * w)
    BY <1>1, <2>2, HistoryGrows
  <2>4. Since(a, Window * w) = Least(d[w], Limit)
    BY <1>1, <2>1 DEF DocumentIsGood
  <2>5. QED  BY <1>2, <2>1, <2>3, <2>4, LimitAssumption DEF Least
<1>5. ASSUME NEW j \in Aligned \ {w}
      PROVE  During(b, Window * j) = Least(n[j], Limit)
  <2>1. Window * j \in Ticks /\ Window * j \in Nat
    BY AlignedApart DEF Ticks
  <2>2. now >= Window * j + Window \/ Window * j > now
    <3>1. CASE j < w
      BY <1>1, <2>1, <3>1, AlignedApart, LimitAssumption DEF Ticks
    <3>2. CASE w < j
      BY <1>1, <2>1, <3>2, AlignedApart, LimitAssumption DEF Ticks
    <3>3. QED  BY <1>1, <3>1, <3>2 DEF Aligned
  <2>3. During(b, Window * j) = During(a, Window * j)
    BY <2>1, <2>2, HistoryGrows
  <2>4. QED  BY <1>2, <2>3 DEF DocumentIsGood
<1>6. QED  BY <1>2, <1>4, <1>5 DEF DocumentIsGood, n

\* Whoever is refused by the shared limiter used up the limit in this aligned window.
LEMMA RefusedInAligned ==
  ASSUME NEW now \in Ticks, NEW a, IsHistory(a, now), NEW d, DocumentIsGood(d, a),
         d[now \div Window] >= Limit
  PROVE  During(a, now - Window + 1) >= Limit
<1> DEFINE w == now \div Window
           s == Moment(now - Window + 1)
           u == Moment(now - Window + 1 + Window)
<1>1. /\ w \in Aligned /\ Window * w \in Ticks /\ now < Window * w + Window
      /\ Window * w <= now /\ now \in Nat /\ now <= MaxTime
  BY AlignedWindow DEF Ticks
<1>2. d[w] >= Limit
  OBVIOUS
<1> HIDE DEF w
<1>3. Since(a, Window * w) = Least(d[w], Limit) /\ d[w] \in Nat
  BY <1>1, RangeSoFar DEF DocumentIsGood
<1>4. Since(a, Window * w) >= Limit
  BY <1>2, <1>3, LimitAssumption DEF Least
<1>5. Window * w \in Moments /\ Window * w \in Nat
  BY <1>1, MomentType DEF Ticks
<1>6. s \in Moments /\ u \in Moments /\ s <= Window * w /\ u > now
  BY <1>1, <1>5, LimitAssumption DEF Moment, Moments
<1> HIDE DEF s, u
<1>7. a[u] = a[LastCall] /\ a[s] <= a[Window * w] /\ a[s] \in Nat /\ a[Window * w] \in Nat
  BY <1>1, <1>5, <1>6 DEF IsHistory
<1>8. LastCall \in Moments /\ a[LastCall] \in Nat
  BY LimitAssumption DEF LastCall, Moments, IsHistory
<1>9. QED  BY <1>4, <1>7, <1>8, LimitAssumption DEF During, Since, s, u

\* Any range of a window's length meets at most two aligned windows.
LEMMA TwoAligned ==
  ASSUME NEW now \in Ticks, NEW a, IsHistory(a, now), NEW d, DocumentIsGood(d, a),
         NEW t \in Ticks
  PROVE  /\ During(a, t) <= 2 * Limit
         /\ t % Window = 0 => During(a, t) <= Limit
<1> DEFINE w == t \div Window
<1>1. /\ w \in Aligned /\ Window * w \in Ticks /\ t < Window * w + Window
      /\ Window * w <= t /\ t \in Nat /\ t <= MaxTime
      /\ t % Window = 0 => t = Window * w
  BY AlignedWindow DEF Ticks
<1> HIDE DEF w
<1>2. \A j \in Aligned : During(a, Window * j) <= Limit
  BY LimitAssumption DEF DocumentIsGood, Least
<1>3. t % Window = 0 => During(a, t) <= Limit
  BY <1>1, <1>2
<1> DEFINE s == Window * w
           m == Moment(s + Window)
           u == Moment(t + Window)
<1>4. /\ s \in Moments /\ Moment(s) = s /\ Moment(t) = t /\ t \in Moments /\ s \in Int
      /\ m \in Moments /\ u \in Moments
  BY <1>1, MomentType, LimitAssumption DEF Ticks
<1>5. /\ a[s] \in Nat /\ a[t] \in Nat /\ a[m] \in Nat /\ a[u] \in Nat /\ a[s] <= a[t]
  BY <1>1, <1>4 DEF IsHistory
<1>6. a[m] - a[s] <= Limit
  BY <1>1, <1>2, <1>4 DEF During
<1>7. CASE s + Window <= MaxTime
  <2> DEFINE v == Moment(s + Window + Window)
  <2>1. w + 1 \in Aligned /\ Window * (w + 1) = s + Window
    <3>1. s + Window \in Ticks /\ w \in Nat
      BY <1>1, <1>4, <1>7, LimitAssumption DEF Ticks, Aligned
    <3>2. Window * (w + 1) = s + Window
      BY <3>1, LimitAssumption
    <3>3. (s + Window) \div Window = w + 1
      BY <3>1, <3>2, LimitAssumption
    <3>4. QED  BY <3>1, <3>2, <3>3, AlignedWindow
  <2>2. During(a, s + Window) <= Limit
    BY <1>2, <2>1
  <2>3. m = s + Window /\ v \in Moments /\ u <= v
    <3>1. s + Window \in Moments /\ s + Window + Window \in Int /\ t + Window \in Int
      <4> HIDE DEF s
      <4>1. s \in Nat /\ MaxTime \in Nat /\ Window \in Nat /\ t \in Nat
        BY <1>1, <1>4, LimitAssumption DEF Moments
      <4>2. QED  BY <1>7, <4>1 DEF Moments
    <3>2. m = s + Window
      <4> HIDE DEF s
      <4>1. s + Window \in Int
        BY <3>1, LimitAssumption DEF Moments
      <4>2. QED  BY <3>1, <4>1, MomentType
    <3>3. t + Window <= s + Window + Window
      <4> HIDE DEF s
      <4>1. s \in Nat /\ t \in Nat /\ Window \in Nat
        BY <1>1, <1>4, LimitAssumption DEF Moments
      <4>2. t < s + Window
        BY <1>1 DEF s
      <4>3. QED  BY <4>1, <4>2
    <3>4. v \in Moments /\ u <= v
      <4> HIDE DEF s
      <4>1. QED  BY <3>1, <3>3, MomentType
    <3>5. QED  BY <3>2, <3>4
  <2>4. a[v] - a[m] <= Limit /\ a[v] \in Nat /\ a[u] <= a[v]
    BY <1>4, <2>2, <2>3 DEF During, IsHistory
  <2>5. a[u] - a[t] <= 2 * Limit
    <3> HIDE DEF s, m, u, v
    <3>1. QED  BY <1>5, <1>6, <2>4, LimitAssumption
  <2>6. QED  BY <1>3, <1>4, <2>5 DEF During
<1>8. CASE s + Window > MaxTime
  <2>1. m = LastCall /\ LastCall \in Moments
    BY <1>4, <1>8, MomentType, LimitAssumption DEF Moments, LastCall
  <2>2. a[u] <= a[m]
    BY <1>4, <2>1, LimitAssumption DEF IsHistory, Moments, LastCall
  <2>3. a[u] - a[t] <= 2 * Limit
    <3> HIDE DEF s, m, u
    <3>1. QED  BY <1>5, <1>6, <2>2, LimitAssumption
  <2>4. QED  BY <1>3, <1>4, <2>3 DEF During
<1>9. s + Window <= MaxTime \/ s + Window > MaxTime
  BY <1>4, LimitAssumption
<1>10. QED  BY <1>7, <1>8, <1>9

-----------------------------------------------------------------------------
(* The steps *)

\* Nothing was called.
LEMMA LimitsInvInit == LimitsInit => LimitsInv
<1> SUFFICES ASSUME LimitsInit PROVE LimitsInv
  OBVIOUS
<1> DEFINE none == [u \in Moments |-> 0]
<1>1. clock = 0 /\ clock \in Ticks /\ LastCall \in Moments
  BY LimitAssumption DEF LimitsInit, Ticks, Moments, LastCall
<1>2. \A u \in Moments : none[u] = 0
  OBVIOUS
<1>3. IsHistory(none, clock)
  BY <1>1 DEF IsHistory
<1> HIDE DEF none
<1>4. /\ forgotten = none /\ DOMAIN admitted = Keys /\ DOMAIN refused = Keys
      /\ \A k \in Keys : admitted[k] = none /\ refused[k] = {}
  BY DEF LimitsInit, none
<1>5. \A t \in Moments : Since(none, t) = 0
  BY <1>1, <1>2 DEF Since
<1>6. \A t \in Int : During(none, t) = 0
  BY <1>2, MomentType, LimitAssumption DEF During
<1>7. \A t \in Ticks : t \in Moments /\ t \in Int
  BY LimitAssumption DEF Ticks, Moments
<1>8. Limit * 0 = 0 /\ Limit * 2 \in Nat
  BY LimitAssumption
<1>9. CounterIsGood(NoEntry, none, none, clock)
  <2>1. Bounded(NoEntry, none, none, clock)
    BY <1>5, <1>7, <1>8, LimitAssumption DEF Bounded, Lasting
  <2>2. QED  BY <2>1 DEF CounterIsGood
<1>10. RangesAreGood(none, none)
  BY <1>6, <1>7, <1>8, LimitAssumption DEF RangesAreGood
<1>11. DocumentIsGood([w \in Aligned |-> 0], none)
  <2>1. \A j \in Aligned : Window * j \in Int
    BY AlignedApart DEF Ticks
  <2>2. QED  BY <1>6, <2>1, LimitAssumption DEF DocumentIsGood, Least
<1>12. /\ DOMAIN counter = Keys /\ \A k \in Keys : counter[k] = NoEntry
  BY DEF LimitsInit
<1>13. DOMAIN document = Keys /\ \A k \in Keys : document[k] = [w \in Aligned |-> 0]
  BY DEF LimitsInit, Aligned
<1>14. \A k \in Keys : refused[k] \subseteq Ticks /\ RefusalsAreDue(admitted[k], refused[k])
  BY <1>4 DEF RefusalsAreDue
<1>15. QED
  BY <1>1, <1>3, <1>4, <1>9, <1>10, <1>11, <1>12, <1>13, <1>14 DEF LimitsInv

\* The answer to a call: what passed is history, and a refusal was due.
LEMMA Replied ==
  ASSUME LimitsInv, NEW k \in Keys, NEW yes \in BOOLEAN, Reply(k, yes),
         yes \/ During(admitted[k], clock - Window + 1) >= Limit
  PROVE  /\ limiter' = limiter /\ clock' = clock
         /\ DOMAIN admitted' = Keys /\ DOMAIN refused' = Keys
         /\ \A j \in Keys :
              /\ admitted'[j] = IF j = k /\ yes THEN More(admitted[j], clock) ELSE admitted[j]
              /\ IsHistory(admitted'[j], clock)
              /\ refused'[j] \subseteq Ticks /\ RefusalsAreDue(admitted'[j], refused'[j])
<1>1. limiter' = limiter /\ clock' = clock
  BY DEF Reply
<1>2. /\ clock \in Ticks /\ DOMAIN admitted = Keys /\ DOMAIN refused = Keys
      /\ \A j \in Keys : IsHistory(admitted[j], clock)
      /\ \A j \in Keys : refused[j] \subseteq Ticks /\ RefusalsAreDue(admitted[j], refused[j])
  BY DEF LimitsInv
<1>3. /\ DOMAIN admitted' = Keys /\ DOMAIN refused' = Keys
      /\ \A j \in Keys :
           /\ admitted'[j] = IF j = k /\ yes THEN More(admitted[j], clock) ELSE admitted[j]
           /\ refused'[j] = IF j = k /\ ~yes THEN refused[j] \cup {clock} ELSE refused[j]
  BY <1>2 DEF Reply, OneMore, More
<1>4. ASSUME NEW j \in Keys
      PROVE  IsHistory(admitted'[j], clock)
  BY <1>2, <1>3, HistoryGrows
<1>5. ASSUME NEW j \in Keys
      PROVE  refused'[j] \subseteq Ticks /\ RefusalsAreDue(admitted'[j], refused'[j])
  <2>1. CASE j = k /\ ~yes
    BY <1>2, <1>3, <2>1 DEF RefusalsAreDue
  <2>2. CASE ~(j = k /\ ~yes)
    <3>1. refused'[j] = refused[j] /\ admitted'[j] \in {admitted[j], More(admitted[j], clock)}
      BY <1>3, <2>2
    <3>2. QED  BY <1>2, <3>1, RefusalsStayDue
  <2>3. QED  BY <2>1, <2>2
<1>6. QED  BY <1>1, <1>3, <1>4, <1>5

\* The sweep takes away only what is over, or counts as a forgetting.
LEMMA SweepIsGood ==
  ASSUME LimitsInv, limiter # "SHARED",
         NEW f, f = IF Emptied THEN OneMore(forgotten) ELSE forgotten
  PROVE  /\ IsHistory(f, clock) /\ f \in {forgotten, More(forgotten, clock)}
         /\ DOMAIN Swept = Keys
         /\ \A k \in Keys : CounterIsGood(Swept[k], admitted[k], f, clock)
<1>1. /\ clock \in Ticks /\ IsHistory(forgotten, clock) /\ DOMAIN counter = Keys
      /\ \A k \in Keys : /\ IsHistory(admitted[k], clock)
                         /\ CounterIsGood(counter[k], admitted[k], forgotten, clock)
  BY DEF LimitsInv
<1>2. OneMore(forgotten) = More(forgotten, clock)
  BY DEF OneMore, More
<1>3. f \in {forgotten, More(forgotten, clock)} /\ IsHistory(f, clock)
  BY <1>1, <1>2, HistoryGrows
<1>4. \A k \in Keys : /\ CounterIsGood(counter[k], admitted[k], f, clock)
                      /\ Emptied => CounterIsGood(NoEntry, admitted[k], f, clock)
  BY <1>1, <1>2, MoreForgotten
<1>5. DOMAIN Swept = Keys
  BY <1>1 DEF Swept, Live
<1>6. ASSUME NEW k \in Keys
      PROVE  CounterIsGood(Swept[k], admitted[k], f, clock)
  <2>1. CASE Swept = counter
    BY <1>4, <2>1
  <2>2. CASE Emptied /\ Swept[k] = NoEntry
    BY <1>4, <2>2
  <2>3. CASE Swept = Live
    <3>1. CASE WindowIsOver(counter[k])
      <4>1. Swept[k] = NoEntry /\ Over(counter[k], clock)
        BY <2>3, <3>1 DEF Live, WindowIsOver, Over
      <4>2. QED  BY <1>1, <1>3, <1>4, <4>1, OverIsGone
    <3>2. CASE ~WindowIsOver(counter[k])
      BY <1>4, <2>3, <3>2 DEF Live
    <3>3. QED  BY <3>1, <3>2
  <2>4. QED  BY <2>1, <2>2, <2>3 DEF Swept
<1>7. QED  BY <1>3, <1>5, <1>6

\* A call of the process's table.
LEMMA CheckRateLimitStep ==
  ASSUME LimitsInv, NEW k \in Keys, CheckRateLimit(k)
  PROVE  LimitsInv'
<1> DEFINE old == Swept[k]
           new == IF WindowIsOver(old) THEN [start |-> clock, count |-> 1]
                  ELSE [old EXCEPT !.count = @ + 1]
<1>1. /\ limiter = "PROCESS" /\ counter' = [Swept EXCEPT ![k] = new]
      /\ forgotten' = (IF Emptied THEN OneMore(forgotten) ELSE forgotten)
      /\ Reply(k, new.count <= Limit)
  BY DEF CheckRateLimit
<1>2. /\ clock \in Ticks /\ IsHistory(forgotten, clock)
      /\ \A j \in Keys : /\ IsHistory(admitted[j], clock)
                         /\ RangesAreGood(admitted[j], forgotten)
  BY <1>1 DEF LimitsInv
<1>3. /\ IsHistory(forgotten', clock) /\ forgotten' \in {forgotten, More(forgotten, clock)}
      /\ DOMAIN Swept = Keys
      /\ \A j \in Keys : CounterIsGood(Swept[j], admitted[j], forgotten', clock)
  BY <1>1, SweepIsGood
<1>4. CounterIsGood(old, admitted[k], forgotten', clock)
  BY <1>3
<1>5. WindowIsOver(old) <=> Over(old, clock)
  BY DEF WindowIsOver, Over
<1>6. DOMAIN counter' = Keys /\ \A j \in Keys : counter'[j] = IF j = k THEN new ELSE Swept[j]
  BY <1>1, <1>3
<1> DEFINE yes == new.count <= Limit
<1>7. Over(old, clock) => new = [start |-> clock, count |-> 1] /\ yes
  BY <1>5, LimitAssumption
<1>8. ~Over(old, clock) => /\ new = [old EXCEPT !.count = @ + 1]
                           /\ old.count \in Nat
                           /\ new.count = old.count + 1
  BY <1>4, <1>5, LimitAssumption DEF Over, CounterIsGood
<1>9. yes \in BOOLEAN /\ Reply(k, yes)
  BY <1>1
<1> HIDE DEF old, new
<1>10. yes \/ During(admitted[k], clock - Window + 1) >= Limit
  <2>1. CASE Over(old, clock)
    BY <1>7, <2>1
  <2>2. CASE ~Over(old, clock) /\ ~yes
    <3>1. old.count >= Limit
      BY <1>8, <2>2, LimitAssumption
    <3>2. QED  BY <1>2, <1>3, <1>4, <2>2, <3>1, RefusedInWindow
  <2>3. QED  BY <2>1, <2>2
<1>11. /\ limiter' = limiter /\ clock' = clock
       /\ DOMAIN admitted' = Keys /\ DOMAIN refused' = Keys
       /\ \A j \in Keys :
            /\ admitted'[j] = IF j = k /\ yes THEN More(admitted[j], clock) ELSE admitted[j]
            /\ IsHistory(admitted'[j], clock)
            /\ refused'[j] \subseteq Ticks /\ RefusalsAreDue(admitted'[j], refused'[j])
  <2> HIDE DEF yes
  <2>1. QED  BY <1>9, <1>10, Replied
<1>12. CounterIsGood(new, admitted'[k], forgotten', clock)
  <2>1. CASE Over(old, clock)
    BY <1>2, <1>3, <1>4, <1>7, <1>11, <2>1, NewWindow
  <2>2. CASE ~Over(old, clock)
    <3>1. admitted'[k] = IF old.count + 1 <= Limit THEN More(admitted[k], clock)
                         ELSE admitted[k]
      BY <1>8, <1>11, <2>2
    <3>2. QED  BY <1>2, <1>3, <1>4, <1>8, <2>2, <3>1, SameWindow
  <2>3. QED  BY <2>1, <2>2
<1>13. \A j \in Keys : CounterIsGood(counter'[j], admitted'[j], forgotten', clock)
  BY <1>3, <1>6, <1>11, <1>12
<1>14. ASSUME NEW j \in Keys
       PROVE  RangesAreGood(admitted'[j], forgotten')
  <2>1. admitted'[j] \in {admitted[j], More(admitted[j], clock)}
    BY <1>11
  <2>2. QED  BY <1>2, <1>3, <1>13, <2>1, RangesStayGood
<1>15. limiter' # "SHARED"
  BY <1>1, <1>11
<1>16. QED
  BY <1>2, <1>3, <1>6, <1>11, <1>13, <1>14, <1>15 DEF LimitsInv

\* A sign-in attempt.
LEMMA ConsumeAuthRateLimitStep ==
  ASSUME LimitsInv, NEW k \in Keys, ConsumeAuthRateLimit(k)
  PROVE  LimitsInv'
<1> DEFINE old == counter[k]
           yes == WindowIsOver(old) \/ old.count < Limit
<1>1. /\ limiter = "AUTH" /\ forgotten' = forgotten /\ Reply(k, yes) /\ yes \in BOOLEAN
  BY DEF ConsumeAuthRateLimit
<1>2. /\ clock \in Ticks /\ IsHistory(forgotten, clock) /\ DOMAIN counter = Keys
      /\ \A j \in Keys : /\ IsHistory(admitted[j], clock)
                         /\ CounterIsGood(counter[j], admitted[j], forgotten, clock)
                         /\ RangesAreGood(admitted[j], forgotten)
  BY <1>1 DEF LimitsInv
<1>3. WindowIsOver(old) <=> Over(old, clock)
  BY DEF WindowIsOver, Over
<1>4. CounterIsGood(old, admitted[k], forgotten, clock)
  BY <1>2
<1>5. ~Over(old, clock) => old.count \in Nat
  BY <1>4 DEF Over, CounterIsGood
<1>6. counter' = IF Over(old, clock) THEN [counter EXCEPT ![k] = [start |-> clock, count |-> 1]]
                 ELSE IF old.count >= Limit THEN counter
                 ELSE [counter EXCEPT ![k].count = @ + 1]
  BY <1>3 DEF ConsumeAuthRateLimit
<1>7. /\ DOMAIN counter' = Keys /\ \A j \in Keys \ {k} : counter'[j] = counter[j]
      /\ Over(old, clock) => counter'[k] = [start |-> clock, count |-> 1]
      /\ ~Over(old, clock) /\ old.count >= Limit => counter'[k] = old
      /\ ~Over(old, clock) /\ ~(old.count >= Limit) =>
           counter'[k] = [old EXCEPT !.count = @ + 1]
  BY <1>2, <1>6
<1> HIDE DEF old
<1>8. yes <=> Over(old, clock) \/ ~(old.count >= Limit)
  BY <1>3, <1>5, LimitAssumption
<1> HIDE DEF yes
<1>9. yes \/ During(admitted[k], clock - Window + 1) >= Limit
  BY <1>2, <1>4, <1>8, RefusedInWindow
<1>10. /\ limiter' = limiter /\ clock' = clock
       /\ DOMAIN admitted' = Keys /\ DOMAIN refused' = Keys
       /\ \A j \in Keys :
            /\ admitted'[j] = IF j = k /\ yes THEN More(admitted[j], clock) ELSE admitted[j]
            /\ IsHistory(admitted'[j], clock)
            /\ refused'[j] \subseteq Ticks /\ RefusalsAreDue(admitted'[j], refused'[j])
  BY <1>1, <1>9, Replied
<1>11. CounterIsGood(counter'[k], admitted'[k], forgotten, clock)
  <2>1. CASE Over(old, clock)
    BY <1>2, <1>4, <1>7, <1>8, <1>10, <2>1, NewWindow
  <2>2. CASE ~Over(old, clock) /\ old.count >= Limit
    BY <1>4, <1>7, <1>8, <1>10, <2>2
  <2>3. CASE ~Over(old, clock) /\ ~(old.count >= Limit)
    <3>1. old.count + 1 <= Limit
      BY <1>5, <2>3, LimitAssumption
    <3>2. admitted'[k] = IF old.count + 1 <= Limit THEN More(admitted[k], clock)
                         ELSE admitted[k]
      BY <1>8, <1>10, <2>3, <3>1
    <3>3. QED  BY <1>2, <1>4, <1>7, <2>3, <3>2, SameWindow
  <2>4. QED  BY <2>1, <2>2, <2>3
<1>12. \A j \in Keys : CounterIsGood(counter'[j], admitted'[j], forgotten', clock)
  BY <1>1, <1>2, <1>7, <1>10, <1>11
<1>13. ASSUME NEW j \in Keys
       PROVE  RangesAreGood(admitted'[j], forgotten')
  <2>1. admitted'[j] \in {admitted[j], More(admitted[j], clock)}
    BY <1>10
  <2>2. QED  BY <1>1, <1>2, <1>12, <2>1, RangesStayGood
<1>14. QED  BY <1>1, <1>2, <1>7, <1>10, <1>12, <1>13 DEF LimitsInv

\* A call of the shared limiter.
LEMMA CheckSharedRateLimitStep ==
  ASSUME LimitsInv, NEW k \in Keys, CheckSharedRateLimit(k)
  PROVE  LimitsInv'
<1> DEFINE w == clock \div Window
           old == document[k]
           yes == old[w] + 1 <= Limit
<1>1. /\ limiter = "SHARED" /\ forgotten' = forgotten /\ Reply(k, yes) /\ yes \in BOOLEAN
      /\ document' = [document EXCEPT ![k][w] = @ + 1]
  BY DEF CheckSharedRateLimit
<1>2. /\ clock \in Ticks /\ IsHistory(forgotten, clock) /\ DOMAIN document = Keys
      /\ \A j \in Keys : /\ IsHistory(admitted[j], clock)
                         /\ DocumentIsGood(document[j], admitted[j])
  BY <1>1 DEF LimitsInv
<1>3. w \in Aligned /\ old[w] \in Nat
  BY <1>2, AlignedWindow DEF DocumentIsGood
<1>4. /\ DOMAIN document' = Keys /\ \A j \in Keys \ {k} : document'[j] = document[j]
      /\ document'[k] = [old EXCEPT ![w] = @ + 1]
  BY <1>1, <1>2
<1>5. yes \/ During(admitted[k], clock - Window + 1) >= Limit
  <2>1. yes \/ old[w] >= Limit
    BY <1>3, LimitAssumption
  <2>2. QED  BY <1>2, <2>1, RefusedInAligned
<1> HIDE DEF old, yes
<1>6. /\ limiter' = limiter /\ clock' = clock
      /\ DOMAIN admitted' = Keys /\ DOMAIN refused' = Keys
      /\ \A j \in Keys :
           /\ admitted'[j] = IF j = k /\ yes THEN More(admitted[j], clock) ELSE admitted[j]
           /\ IsHistory(admitted'[j], clock)
           /\ refused'[j] \subseteq Ticks /\ RefusalsAreDue(admitted'[j], refused'[j])
  BY <1>1, <1>5, Replied
<1>7. admitted'[k] = IF old[w] + 1 <= Limit THEN More(admitted[k], clock) ELSE admitted[k]
  BY <1>6 DEF yes
<1>8. DocumentIsGood(document'[k], admitted'[k])
  <2>1. IsHistory(admitted[k], clock) /\ DocumentIsGood(old, admitted[k])
    BY <1>2 DEF old
  <2>2. w = clock \div Window
    OBVIOUS
  <2> HIDE DEF w
  <2>3. DocumentIsGood([old EXCEPT ![w] = @ + 1], admitted'[k])
    BY <1>2, <1>7, <2>1, <2>2, WindowCounts
  <2>4. QED  BY <1>4, <2>3
<1>9. \A j \in Keys : DocumentIsGood(document'[j], admitted'[j])
  BY <1>2, <1>4, <1>6, <1>8
<1>10. QED  BY <1>1, <1>2, <1>4, <1>6, <1>9 DEF LimitsInv

\* Time passes: what was bounded at a tick is at the next.
LEMMA TickStep ==
  ASSUME LimitsInv, Tick
  PROVE  LimitsInv'
<1>1. /\ clock \in Ticks /\ clock' \in Ticks /\ clock' = clock + 1 /\ clock \in Nat
      /\ limiter' = limiter /\ counter' = counter /\ document' = document
      /\ admitted' = admitted /\ refused' = refused /\ forgotten' = forgotten
  BY LimitAssumption DEF Tick, LimitsInv, Ticks
<1>2. ASSUME NEW h, IsHistory(h, clock)
      PROVE  IsHistory(h, clock')
  BY <1>1, <1>2 DEF IsHistory, Moments
<1>3. ASSUME NEW e, NEW a, NEW f, CounterIsGood(e, a, f, clock)
      PROVE  CounterIsGood(e, a, f, clock')
  <2>1. e = NoEntry \/ e \in [start : 0..clock', count : Nat \ {0}]
    BY <1>1, <1>3 DEF CounterIsGood
  <2>2. \A t \in Ticks : clock' < t + Window => clock < t + Window
    BY <1>1, LimitAssumption DEF Ticks
  <2>3. QED  BY <1>3, <2>1, <2>2 DEF CounterIsGood, Bounded
<1>4. QED  BY <1>1, <1>2, <1>3 DEF LimitsInv

\* The invariant bounds what passes in any time of a window's length.
LEMMA LimitsFollow == LimitsInv => LimitsAreKept
<1> SUFFICES ASSUME LimitsInv, NEW k \in Keys, NEW t \in Ticks
             PROVE  /\ During(admitted[k], t) <= Limit * (2 + During(forgotten, t))
                    /\ limiter = "SHARED" /\ t % Window = 0 => During(admitted[k], t) <= Limit
                    /\ t \in refused[k] => During(admitted[k], t - Window + 1) >= Limit
  BY DEF LimitsAreKept
<1>1. t \in refused[k] => During(admitted[k], t - Window + 1) >= Limit
  BY DEF LimitsInv, RefusalsAreDue
<1>2. CASE limiter # "SHARED"
  BY <1>1, <1>2 DEF LimitsInv, RangesAreGood
<1>3. CASE limiter = "SHARED"
  <2>1. /\ During(admitted[k], t) <= 2 * Limit
        /\ t % Window = 0 => During(admitted[k], t) <= Limit
    BY <1>3, TwoAligned DEF LimitsInv
  <2>2. /\ Moment(t) \in Moments /\ Moment(t + Window) \in Moments
        /\ Moment(t) <= Moment(t + Window)
    BY MomentType, LimitAssumption DEF Ticks
  <2>3. IsHistory(forgotten, clock) /\ IsHistory(admitted[k], clock)
    BY DEF LimitsInv
  <2>4. During(forgotten, t) \in Nat /\ During(admitted[k], t) \in Int
    BY <2>2, <2>3 DEF During, IsHistory
  <2>5. /\ Limit * During(forgotten, t) \in Nat
        /\ Limit * (2 + During(forgotten, t)) = Limit * During(forgotten, t) + 2 * Limit
    BY <2>4, LimitTimes
  <2>6. QED  BY <1>1, <2>1, <2>4, <2>5, LimitAssumption
<1>4. QED  BY <1>2, <1>3

\* For any limit, window and number of keys, of each of the three limiters: at most twice the
\* limit passes in any time of a window's length, once more for each time the process emptied
\* its table, and in an aligned window of the shared one no more than the limit; whoever is
\* refused used up the limit within the last window's length.
THEOREM LimitsAreAlwaysKept == LimitsSpec => []LimitsAreKept
<1>1. LimitsInit => LimitsInv
  BY LimitsInvInit
<1>2. LimitsInv /\ [LimitsNext]_limitVars => LimitsInv'
  <2> SUFFICES ASSUME LimitsInv, [LimitsNext]_limitVars PROVE LimitsInv'
    OBVIOUS
  <2>1. CASE UNCHANGED limitVars
    <3>1. /\ limiter' = limiter /\ clock' = clock /\ counter' = counter
          /\ document' = document /\ admitted' = admitted /\ refused' = refused
          /\ forgotten' = forgotten
      BY <2>1 DEF limitVars
    <3>2. QED  BY <3>1 DEF LimitsInv
  <2>2. ASSUME NEW k \in Keys, CheckRateLimit(k)
        PROVE  LimitsInv'
    BY <2>2, CheckRateLimitStep
  <2>3. ASSUME NEW k \in Keys, CheckSharedRateLimit(k)
        PROVE  LimitsInv'
    BY <2>3, CheckSharedRateLimitStep
  <2>4. ASSUME NEW k \in Keys, ConsumeAuthRateLimit(k)
        PROVE  LimitsInv'
    BY <2>4, ConsumeAuthRateLimitStep
  <2>5. CASE Tick
    BY <2>5, TickStep
  <2>6. QED  BY <2>1, <2>2, <2>3, <2>4, <2>5 DEF LimitsNext
<1>3. QED  BY <1>1, <1>2, LimitsFollow, PTL DEF LimitsSpec

-----------------------------------------------------------------------------
(* Bank matching: a set and an order that ties no two make one list *)

OrdersTotally(order, S) ==
  /\ \A x \in S : <<x, x>> \notin order
  /\ \A x, y, z \in S : <<x, y>> \in order /\ <<y, z>> \in order => <<x, z>> \in order
  /\ \A x, y \in S : x # y => <<x, y>> \in order \/ <<y, x>> \in order

Lists(list, S) ==
  /\ list \in [1..Cardinality(S) -> S]
  /\ \A x \in S : \E i \in 1..Cardinality(S) : list[i] = x

InOrder(list, S, order) ==
  \A i, j \in 1..Cardinality(S) : i < j => <<list[i], list[j]>> \in order

\* The size of an interval.
LEMMA IntervalSize ==
  ASSUME NEW n \in Nat
  PROVE  IsFiniteSet(1..n) /\ Cardinality(1..n) = n
<1>1. 1 \in Int /\ n \in Int
  OBVIOUS
<1>2. IsFiniteSet(1..n) /\ Cardinality(1..n) = IF 1 > n THEN 0 ELSE n - 1 + 1
  BY <1>1, FS_Interval
<1>3. QED  BY <1>2

\* What comes before x.
Below(x, S, order) == {y \in S : <<y, x>> \in order}

\* An item has fewer items below it than any that comes after it.
LEMMA BelowGrows ==
  ASSUME NEW S, IsFiniteSet(S), NEW order, OrdersTotally(order, S), NEW x \in S
  PROVE  /\ IsFiniteSet(Below(x, S, order)) /\ Cardinality(Below(x, S, order)) \in Nat
         /\ Cardinality(Below(x, S, order)) < Cardinality(S)
         /\ \A y \in S : <<x, y>> \in order =>
              Cardinality(Below(x, S, order)) < Cardinality(Below(y, S, order))
<1>1. /\ IsFiniteSet(Below(x, S, order)) /\ Cardinality(Below(x, S, order)) \in Nat
  BY FS_Subset, FS_CardinalityType DEF Below
<1>2. \A T \in SUBSET S : x \in T /\ Below(x, S, order) \subseteq T
        => Cardinality(Below(x, S, order)) < Cardinality(T)
  <2> SUFFICES ASSUME NEW T \in SUBSET S, x \in T, Below(x, S, order) \subseteq T
               PROVE  Cardinality(Below(x, S, order)) < Cardinality(T)
    OBVIOUS
  <2>1. IsFiniteSet(T) /\ Cardinality(T) \in Nat
    BY FS_Subset, FS_CardinalityType
  <2>2. x \notin Below(x, S, order)
    BY DEF Below, OrdersTotally
  <2>3. Below(x, S, order) # T
    BY <2>2
  <2>4. Cardinality(Below(x, S, order)) <= Cardinality(T)
        /\ (Cardinality(T) = Cardinality(Below(x, S, order)) => T = Below(x, S, order))
    BY <2>1, FS_Subset
  <2>5. QED  BY <1>1, <2>1, <2>3, <2>4
<1>3. Cardinality(Below(x, S, order)) < Cardinality(S)
  BY <1>2 DEF Below
<1>4. ASSUME NEW y \in S, <<x, y>> \in order
      PROVE  Cardinality(Below(x, S, order)) < Cardinality(Below(y, S, order))
  <2>1. x \in Below(y, S, order) /\ Below(x, S, order) \subseteq Below(y, S, order)
    BY <1>4 DEF Below, OrdersTotally
  <2>2. Below(y, S, order) \in SUBSET S
    BY DEF Below
  <2>3. QED  BY <1>2, <2>1, <2>2
<1>5. QED  BY <1>1, <1>3, <1>4

\* A list that is in order has no item twice, and so it has them all.
LEMMA InOrderListsAll ==
  ASSUME NEW S, IsFiniteSet(S), NEW order, OrdersTotally(order, S),
         NEW list \in [1..Cardinality(S) -> S], InOrder(list, S, order)
  PROVE  Lists(list, S)
<1> DEFINE n == Cardinality(S)
<1>1. n \in Nat /\ IsFiniteSet(1..n) /\ Cardinality(1..n) = n
  BY FS_CardinalityType, IntervalSize
<1>2. \A i, j \in 1..n : list[i] = list[j] => i = j
  <2> SUFFICES ASSUME NEW i \in 1..n, NEW j \in 1..n, list[i] = list[j], i < j
               PROVE  FALSE
    BY <1>1
  <2>1. <<list[i], list[j]>> \in order
    BY DEF InOrder
  <2>2. QED  BY <2>1 DEF OrdersTotally
<1>3. list \in Injection(1..n, S)
  BY <1>2 DEF Injection, IsInjective
<1>4. list \in Surjection(1..n, S)
  BY <1>1, <1>3, FS_Injection
<1>5. QED  BY <1>4 DEF Surjection, Lists

\* Array.prototype.sort lists every item, in order.
LEMMA SortedByLists ==
  ASSUME NEW S, IsFiniteSet(S), NEW order, OrdersTotally(order, S)
  PROVE  Lists(SortedBy(S, order), S) /\ InOrder(SortedBy(S, order), S, order)
<1> DEFINE n == Cardinality(S)
<1> DEFINE place == [x \in S |-> Cardinality(Below(x, S, order)) + 1]
<1>1. n \in Nat /\ IsFiniteSet(1..n) /\ Cardinality(1..n) = n
  BY FS_CardinalityType, IntervalSize
<1>2. \A x \in S : place[x] \in 1..n
  <2> TAKE x \in S
  <2>1. Cardinality(Below(x, S, order)) \in Nat /\ Cardinality(Below(x, S, order)) < n
    BY BelowGrows
  <2>2. QED  BY <1>1, <2>1
<1>3. \A x, y \in S : <<x, y>> \in order => place[x] < place[y]
  <2> SUFFICES ASSUME NEW x \in S, NEW y \in S, <<x, y>> \in order PROVE place[x] < place[y]
    OBVIOUS
  <2>1. Cardinality(Below(x, S, order)) \in Nat /\ Cardinality(Below(y, S, order)) \in Nat
    BY BelowGrows
  <2>2. Cardinality(Below(x, S, order)) < Cardinality(Below(y, S, order))
    BY BelowGrows
  <2>3. QED  BY <2>1, <2>2
<1> HIDE DEF place
<1>4. place \in [S -> 1..n]
  BY <1>2 DEF place
<1>5. \A x, y \in S : place[x] = place[y] => x = y
  <2> SUFFICES ASSUME NEW x \in S, NEW y \in S, place[x] = place[y], x # y PROVE FALSE
    OBVIOUS
  <2>1. place[x] < place[y] \/ place[y] < place[x]
    BY <1>3 DEF OrdersTotally
  <2>2. place[x] \in Int /\ place[y] \in Int
    BY <1>1, <1>4
  <2>3. QED  BY <2>1, <2>2
<1>6. place \in Injection(S, 1..n)
  BY <1>4, <1>5 DEF Injection, IsInjective
<1>7. place \in Surjection(S, 1..n)
  BY <1>1, <1>6, FS_Injection
<1> DEFINE list == [i \in 1..n |-> CHOOSE x \in S : place[x] = i]
<1>8. \A i \in 1..n : list[i] \in S /\ place[list[i]] = i
  BY <1>7 DEF Surjection
<1> HIDE DEF list
<1>9. list \in [1..n -> S]
  BY <1>8 DEF list
<1>10. ASSUME NEW i \in 1..n, NEW j \in 1..n, i < j
       PROVE  <<list[i], list[j]>> \in order
  <2>1. list[i] \in S /\ list[j] \in S /\ place[list[i]] = i /\ place[list[j]] = j
    BY <1>8
  <2>2. ~(place[list[j]] < place[list[i]]) /\ list[i] # list[j]
    BY <1>1, <1>10, <2>1
  <2>3. <<list[j], list[i]>> \notin order
    BY <1>3, <2>1, <2>2
  <2>4. QED  BY <2>1, <2>2, <2>3 DEF OrdersTotally
<1>11. \E l \in [1..n -> S] : \A i, j \in 1..n : i < j => <<l[i], l[j]>> \in order
  BY <1>9, <1>10
<1>12. /\ SortedBy(S, order) \in [1..n -> S]
       /\ InOrder(SortedBy(S, order), S, order)
  BY <1>11 DEF SortedBy, InOrder
<1>13. QED  BY <1>12, InOrderListsAll
-----------------------------------------------------------------------------
(* Lines *)

LineRecords == [id : Int, amount : Int, date : Int, reference : STRING]

\* A statement or the ledger: lines of which no two have the same id.
IsListing(lines) ==
  /\ lines \in Seq(LineRecords)
  /\ \A x, y \in ToSet(lines) : x.id = y.id => x = y

\* Lines as a set.
AreLines(S) ==
  /\ S \subseteq LineRecords /\ IsFiniteSet(S)
  /\ \A x, y \in S : x.id = y.id => x = y

\* The lines of a listing are finitely many.
LEMMA ListingsAreLines ==
  ASSUME NEW lines, IsListing(lines)
  PROVE  AreLines(ToSet(lines))
<1>1. lines \in [1..Len(lines) -> ToSet(lines)] /\ Len(lines) \in Nat
  BY DEF IsListing, ToSet
<1>2. lines \in Surjection(1..Len(lines), ToSet(lines))
  BY <1>1 DEF Surjection, ToSet
<1>3. IsFiniteSet(1..Len(lines))
  BY <1>1, IntervalSize
<1>4. IsFiniteSet(ToSet(lines))
  BY <1>2, <1>3, FS_Surjection
<1>5. ToSet(lines) \subseteq LineRecords
  BY DEF IsListing, ToSet
<1>6. QED  BY <1>4, <1>5 DEF AreLines, IsListing

\* A list of a set has that set's items.
LEMMA ListedItems ==
  ASSUME NEW S, IsFiniteSet(S), NEW list, Lists(list, S)
  PROVE  /\ ToSet(list) = S /\ Len(list) = Cardinality(S)
         /\ Len(list) \in Nat /\ list \in [1..Len(list) -> S]
<1>1. Cardinality(S) \in Nat
  BY FS_CardinalityType
<1>2. list \in Seq(S) /\ Len(list) = Cardinality(S) /\ DOMAIN list = 1..Cardinality(S)
  BY <1>1 DEF Lists
<1>3. ToSet(list) = S
  BY <1>2 DEF Lists, ToSet
<1>4. QED  BY <1>1, <1>2, <1>3 DEF Lists

\* Sorting by id keeps the lines.
LEMMA ByIdKeeps ==
  ASSUME NEW lines, IsListing(lines)
  PROVE  ToSet(ById(lines)) = ToSet(lines)
<1> DEFINE S == ToSet(lines)
<1> DEFINE order == {p \in S \X S : p[1].id < p[2].id}
<1>1. AreLines(S)
  BY ListingsAreLines
<1> HIDE DEF S
<1>2. \A x \in S : x.id \in Int
  BY <1>1 DEF AreLines, LineRecords
<1>3. \A x, y \in S : <<x, y>> \in order <=> x.id < y.id
  OBVIOUS
<1> HIDE DEF order
<1>4. OrdersTotally(order, S)
  BY <1>1, <1>2, <1>3 DEF OrdersTotally, AreLines
<1>5. Lists(SortedBy(S, order), S)
  BY <1>1, <1>4, SortedByLists DEF AreLines
<1>6. SortedBy(S, order) = ById(lines)
  BY DEF ById, S, order
<1>7. QED  BY <1>1, <1>5, <1>6, ListedItems DEF AreLines, S

\* Sorting by score lists every line, and none after one with a lower score.
LEMMA ByScoreLists ==
  ASSUME NEW S, AreLines(S), NEW score \in [S -> Int]
  PROVE  /\ Lists(ByScore(S, score), S)
         /\ \A i, j \in 1..Cardinality(S) :
              i < j => score[ByScore(S, score)[j]] <= score[ByScore(S, score)[i]]
<1> DEFINE order ==
      {p \in S \X S : \/ score[p[1]] > score[p[2]]
                      \/ score[p[1]] = score[p[2]] /\ p[1].id < p[2].id}
<1> DEFINE list == ByScore(S, score)
<1>1. \A x \in S : x.id \in Int /\ score[x] \in Int
  BY DEF AreLines, LineRecords
<1>2. \A x, y \in S : <<x, y>> \in order <=>
        score[x] > score[y] \/ (score[x] = score[y] /\ x.id < y.id)
  OBVIOUS
<1>3. list = SortedBy(S, order)
  BY DEF ByScore
<1> HIDE DEF order, list
<1>4. OrdersTotally(order, S)
  <2>1. \A x \in S : <<x, x>> \notin order
    BY <1>1, <1>2
  <2>2. \A x, y, z \in S : <<x, y>> \in order /\ <<y, z>> \in order => <<x, z>> \in order
    <3> SUFFICES ASSUME NEW x \in S, NEW y \in S, NEW z \in S,
                        <<x, y>> \in order, <<y, z>> \in order
                 PROVE  <<x, z>> \in order
      OBVIOUS
    <3>1. /\ score[x] > score[y] \/ (score[x] = score[y] /\ x.id < y.id)
          /\ score[y] > score[z] \/ (score[y] = score[z] /\ y.id < z.id)
      BY <1>2
    <3>2. score[x] > score[z] \/ (score[x] = score[z] /\ x.id < z.id)
      BY <1>1, <3>1
    <3>3. QED  BY <1>2, <3>2
  <2>3. \A x, y \in S : x # y => <<x, y>> \in order \/ <<y, x>> \in order
    <3> SUFFICES ASSUME NEW x \in S, NEW y \in S, x # y
                 PROVE  <<x, y>> \in order \/ <<y, x>> \in order
      OBVIOUS
    <3>1. x.id # y.id
      BY DEF AreLines
    <3>2. \/ score[x] > score[y] \/ (score[x] = score[y] /\ x.id < y.id)
          \/ score[y] > score[x] \/ (score[y] = score[x] /\ y.id < x.id)
      BY <1>1, <3>1
    <3>3. QED  BY <1>2, <3>2
  <2>4. QED  BY <2>1, <2>2, <2>3 DEF OrdersTotally
<1>5. Lists(list, S) /\ InOrder(list, S, order)
  BY <1>3, <1>4, SortedByLists DEF AreLines
<1>6. ASSUME NEW i \in 1..Cardinality(S), NEW j \in 1..Cardinality(S), i < j
      PROVE  score[list[j]] <= score[list[i]]
  <2>1. list[i] \in S /\ list[j] \in S /\ <<list[i], list[j]>> \in order
    BY <1>5, <1>6 DEF Lists, InOrder
  <2>2. QED  BY <1>1, <1>2, <2>1
<1>7. QED  BY <1>5, <1>6 DEF list

-----------------------------------------------------------------------------
(* Candidates and contenders *)

\* A score is a number.
LEMMA ScoreIsANumber ==
  \A b, l \in LineRecords : Score(b, l) \in Nat
BY DEF Score, DaysApart, LineRecords

\* The best candidates have one score, and it is positive.
LEMMA BestScoreAlike ==
  ASSUME NEW L, AreLines(L), NEW b \in LineRecords, NEW l \in Best(b, L), NEW o \in Best(b, L)
  PROVE  l \in L /\ Score(b, l) = Score(b, o) /\ Score(b, l) > 0
<1>1. l \in L /\ o \in L /\ Score(b, l) \in Nat /\ Score(b, o) \in Nat
  BY ScoreIsANumber DEF Best, AreLines
<1>2. QED  BY <1>1 DEF Best

\* The top candidates of the sorted list are the best ones of the ledger.
LEMMA TopIsBest ==
  ASSUME NEW ledger, AreLines(ToSet(ledger)), NEW b \in LineRecords
  PROVE  /\ TopCandidates(b, ledger) = Best(b, ToSet(ledger))
         /\ \A l \in Best(b, ToSet(ledger)) : TopScore(b, ledger) = Score(b, l)
<1> DEFINE L == ToSet(ledger)
<1> DEFINE scored == {l \in L : Score(b, l) > 0}
<1> DEFINE score == [l \in scored |-> Score(b, l)]
<1> DEFINE list == Candidates(b, ledger)
<1>1. \A l \in L : l \in LineRecords /\ Score(b, l) \in Nat
  BY ScoreIsANumber DEF AreLines
<1>2. AreLines(scored) /\ IsFiniteSet(scored)
  BY FS_Subset DEF AreLines
<1>3. list = ByScore(scored, score)
  BY DEF Candidates
<1>4. score \in [scored -> Int] /\ \A l \in scored : score[l] = Score(b, l)
  BY <1>1
<1>5. TopScore(b, ledger) = Score(b, list[1])
  BY DEF TopScore
<1>6. TopCandidates(b, ledger) = {l \in ToSet(list) : Score(b, l) = TopScore(b, ledger)}
  BY DEF TopCandidates
<1>7. \A l : l \in scored <=> l \in L /\ Score(b, l) > 0
  OBVIOUS
<1>8. L = ToSet(ledger)
  OBVIOUS
<1> HIDE DEF scored, score, list, L
<1>9. /\ Lists(list, scored)
      /\ \A i, j \in 1..Cardinality(scored) : i < j => score[list[j]] <= score[list[i]]
  BY <1>2, <1>3, <1>4, ByScoreLists
<1>10. ToSet(list) = scored /\ Cardinality(scored) \in Nat
  BY <1>2, <1>9, ListedItems
<1>11. ASSUME NEW l \in scored
       PROVE  list[1] \in scored /\ Score(b, l) <= Score(b, list[1])
  <2>1. PICK i \in 1..Cardinality(scored) : list[i] = l
    BY <1>9 DEF Lists
  <2>2. 1 \in 1..Cardinality(scored) /\ (i = 1 \/ 1 < i)
    BY <1>10
  <2>3. list[1] \in scored
    BY <1>9, <2>2 DEF Lists
  <2>4. Score(b, list[1]) \in Int /\ Score(b, l) \in Int
    BY <1>1, <1>7, <2>3
  <2>5. Score(b, l) <= Score(b, list[1])
    <3>1. CASE i = 1
      BY <2>1, <2>4, <3>1
    <3>2. CASE 1 < i
      BY <1>4, <1>9, <2>1, <2>2, <2>3, <3>2
    <3>3. QED  BY <2>2, <3>1, <3>2
  <2>6. QED  BY <2>3, <2>5
<1>12. ASSUME NEW l \in Best(b, L)
       PROVE  l \in scored /\ Score(b, l) = Score(b, list[1])
  <2>1. l \in scored /\ \A o \in L : Score(b, o) <= Score(b, l)
    BY <1>7 DEF Best
  <2>2. list[1] \in scored /\ Score(b, l) <= Score(b, list[1])
    BY <1>11, <2>1
  <2>3. Score(b, list[1]) <= Score(b, l)
    BY <1>7, <2>1, <2>2
  <2>4. Score(b, list[1]) \in Int /\ Score(b, l) \in Int
    BY <1>1, <1>7, <2>1, <2>2
  <2>5. QED  BY <2>1, <2>2, <2>3, <2>4
<1>13. ASSUME NEW l \in scored, Score(b, l) = Score(b, list[1])
       PROVE  l \in Best(b, L)
  <2>1. l \in L /\ Score(b, l) > 0 /\ Score(b, l) \in Nat
    BY <1>1, <1>7
  <2>2. ASSUME NEW o \in L PROVE Score(b, o) <= Score(b, l)
    <3>1. Score(b, o) \in Nat
      BY <1>1
    <3>2. CASE Score(b, o) > 0
      BY <1>7, <1>11, <1>13, <3>2
    <3>3. CASE ~(Score(b, o) > 0)
      BY <2>1, <3>1, <3>3
    <3>4. QED  BY <3>2, <3>3
  <2>3. QED  BY <2>1, <2>2 DEF Best
<1>14. TopCandidates(b, ledger) = Best(b, L)
  BY <1>5, <1>6, <1>10, <1>12, <1>13
<1>15. QED  BY <1>5, <1>8, <1>12, <1>14

Proposing(item, B, L) == {b \in B : Best(b, L) = {item}}

\* The winner of a ledger item is the transaction that agrees with it, and every other
\* contender is a loser.
LEMMA WinnerAgrees ==
  ASSUME NEW bank, AreLines(ToSet(bank)), NEW ledger, AreLines(ToSet(ledger)),
         NEW item \in ToSet(ledger)
  PROVE  LET c == Contenders(item, bank, ledger)
             B == ToSet(bank)
             L == ToSet(ledger)
         IN  /\ HasWinner(item, c) => c[1] \in B /\ Agreed(c[1], item, B, L)
             /\ \A b \in B : Agreed(b, item, B, L) => HasWinner(item, c) /\ c[1] = b
             /\ Losers(item, c) = {b \in Proposing(item, B, L) : ~Agreed(b, item, B, L)}
<1> DEFINE B == ToSet(bank)
<1> DEFINE L == ToSet(ledger)
<1> DEFINE P == Proposing(item, B, L)
<1> DEFINE score == [b \in P |-> Score(b, item)]
<1> DEFINE c == Contenders(item, bank, ledger)
<1>1. P \subseteq B /\ B \subseteq LineRecords /\ item \in LineRecords
  BY DEF AreLines, Proposing
<1>2. \A b \in B : Score(b, item) \in Nat
  BY <1>1, ScoreIsANumber
<1>3. AreLines(P) /\ IsFiniteSet(P)
  BY <1>1, FS_Subset DEF AreLines
<1>4. c = ByScore(P, score)
  <2>1. \A b \in B : TopCandidates(b, ledger) = Best(b, L)
    BY <1>1, TopIsBest
  <2>2. {b \in B : TopCandidates(b, ledger) = {item}} = P
    BY <2>1 DEF Proposing
  <2>3. QED  BY <2>2 DEF Contenders
<1>5. score \in [P -> Int] /\ \A b \in P : score[b] = Score(b, item)
  BY <1>1, <1>2
<1>6. \A b : b \in P <=> b \in B /\ Best(b, L) = {item}
  BY DEF Proposing
<1>7. \A b : Agreed(b, item, B, L) <=>
        /\ Best(b, L) = {item}
        /\ \A o \in B \ {b} : Best(o, L) = {item} => Score(o, item) < Score(b, item)
  BY DEF Agreed
<1> HIDE DEF P, score, c, B, L
<1>8. Lists(c, P) /\ \A i, j \in 1..Cardinality(P) : i < j => score[c[j]] <= score[c[i]]
  BY <1>3, <1>4, <1>5, ByScoreLists
<1>9. /\ Len(c) = Cardinality(P) /\ Len(c) \in Nat
      /\ \A i \in 1..Len(c) : c[i] \in P
      /\ \A b \in P : \E i \in 1..Len(c) : c[i] = b
  BY <1>3, <1>8, ListedItems DEF Lists
<1>10. \A i, j \in 1..Len(c) : i < j => Score(c[j], item) <= Score(c[i], item)
  BY <1>5, <1>8, <1>9
<1>11. HasWinner(item, c) <=>
         Len(c) > 0 /\ \A i \in 2..Len(c) : Score(c[i], item) # Score(c[1], item)
  BY DEF HasWinner
<1>12. ASSUME HasWinner(item, c)
       PROVE  /\ c[1] \in B /\ Agreed(c[1], item, B, L)
              /\ \A i \in 2..Len(c) : Score(c[i], item) < Score(c[1], item)
  <2>1. 1 \in 1..Len(c) /\ c[1] \in P /\ c[1] \in B
    BY <1>6, <1>9, <1>11, <1>12
  <2>2. ASSUME NEW i \in 2..Len(c) PROVE Score(c[i], item) < Score(c[1], item)
    <3>1. i \in 1..Len(c) /\ 1 < i /\ c[i] \in B
      BY <1>6, <1>9
    <3>2. Score(c[i], item) <= Score(c[1], item) /\ Score(c[i], item) # Score(c[1], item)
      BY <1>10, <1>11, <1>12, <2>1, <3>1
    <3>3. QED  BY <1>2, <2>1, <3>1, <3>2
  <2>3. ASSUME NEW o \in B \ {c[1]}, Best(o, L) = {item}
        PROVE  Score(o, item) < Score(c[1], item)
    <3>1. PICK i \in 1..Len(c) : c[i] = o
      BY <1>6, <1>9, <2>3
    <3>2. i \in 2..Len(c)
      BY <1>9, <2>3, <3>1
    <3>3. QED  BY <2>2, <3>1, <3>2
  <2>4. QED  BY <1>6, <1>7, <2>1, <2>2, <2>3
<1>13. ASSUME NEW b \in B, Agreed(b, item, B, L)
       PROVE  HasWinner(item, c) /\ c[1] = b
  <2>1. PICK i \in 1..Len(c) : c[i] = b
    BY <1>6, <1>7, <1>9, <1>13
  <2>2. \A o \in P \ {b} : Score(o, item) < Score(b, item)
    BY <1>6, <1>7, <1>13
  <2>3. 1 \in 1..Len(c) /\ c[1] \in P
    BY <1>9
  <2>4. c[1] = b
    <3> SUFFICES ASSUME c[1] # b PROVE FALSE
      OBVIOUS
    <3>1. 1 < i /\ Score(c[1], item) < Score(b, item)
      BY <1>9, <2>1, <2>2, <2>3
    <3>2. Score(b, item) <= Score(c[1], item)
      BY <1>10, <2>1, <2>3, <3>1
    <3>3. QED  BY <1>2, <1>6, <2>3, <3>1, <3>2
  <2>5. ASSUME NEW j \in 2..Len(c) PROVE Score(c[j], item) # Score(c[1], item)
    <3>1. j \in 1..Len(c) /\ c[j] \in P /\ j # 1
      BY <1>9
    <3>2. c[j] # b
      <4>1. Cardinality(P) = Len(c) /\ c \in [1..Len(c) -> P]
        BY <1>8, <1>9 DEF Lists
      <4>2. IsFiniteSet(1..Len(c)) /\ Cardinality(1..Len(c)) = Len(c)
        BY <1>9, IntervalSize
      <4>3. c \in Surjection(1..Len(c), P)
        BY <1>9, <4>1 DEF Surjection
      <4>4. c \in Injection(1..Len(c), P)
        BY <4>1, <4>2, <4>3, FS_Surjection
      <4>5. QED  BY <2>3, <2>4, <3>1, <4>4 DEF Injection, IsInjective
    <3>3. Score(c[j], item) < Score(b, item)
      BY <2>2, <3>1, <3>2
    <3>4. QED  BY <1>2, <1>6, <2>4, <3>1, <3>3
  <2>6. QED  BY <1>9, <1>11, <2>3, <2>4, <2>5
<1>14. Losers(item, c) = {b \in P : ~Agreed(b, item, B, L)}
  <2>1. CASE HasWinner(item, c)
    <3>1. Losers(item, c) = {c[i] : i \in 2..Len(c)}
      BY <2>1 DEF Losers
    <3>2. ASSUME NEW i \in 2..Len(c)
          PROVE  c[i] \in P /\ ~Agreed(c[i], item, B, L)
      <4>1. i \in 1..Len(c) /\ c[i] \in P /\ c[i] \in B
        BY <1>6, <1>9
      <4>2. c[1] # c[i]
        BY <1>2, <1>12, <2>1, <3>2, <4>1
      <4>3. QED  BY <1>13, <4>1, <4>2
    <3>3. ASSUME NEW b \in P, ~Agreed(b, item, B, L)
          PROVE  \E i \in 2..Len(c) : c[i] = b
      <4>1. PICK i \in 1..Len(c) : c[i] = b
        BY <1>9
      <4>2. i # 1
        BY <1>12, <2>1, <3>3, <4>1
      <4>3. i \in 2..Len(c)
        BY <1>9, <4>2
      <4>4. QED  BY <4>1, <4>3
    <3>4. QED  BY <3>1, <3>2, <3>3
  <2>2. CASE ~HasWinner(item, c)
    <3>1. Losers(item, c) = {c[i] : i \in 1..Len(c)}
      BY <2>2 DEF Losers
    <3>2. \A b \in P : ~Agreed(b, item, B, L)
      BY <1>6, <1>13, <2>2
    <3>3. QED  BY <1>9, <3>1, <3>2
  <2>3. QED  BY <2>1, <2>2
<1>15. QED  BY <1>12, <1>13, <1>14 DEF P, c, B, L
-----------------------------------------------------------------------------
(* The result *)

OpenLines(B, L) == {b \in B : Best(b, L) # {} /\ \A l \in L : ~Agreed(b, l, B, L)}

\* What is reported of an open transaction.
Report(b, L) ==
  Ambiguity(b, IdsOf(Best(b, L)), Score(b, CHOOSE l \in Best(b, L) : TRUE),
            IF \E l \in L : Best(b, L) = {l} THEN "LEDGER_CONTENTION"
            ELSE "MULTIPLE_TOP_CANDIDATES")

\* More than one best candidate is what is neither none nor one.
LEMMA ManyBest ==
  ASSUME NEW L, AreLines(L), NEW b \in LineRecords
  PROVE  Cardinality(Best(b, L)) > 1 <=> Best(b, L) # {} /\ \A l \in L : Best(b, L) # {l}
<1>1. IsFiniteSet(Best(b, L)) /\ Best(b, L) \subseteq L
  BY FS_Subset DEF AreLines, Best
<1>2. Cardinality(Best(b, L)) \in Nat
  BY <1>1, FS_CardinalityType
<1>3. Cardinality(Best(b, L)) = 0 <=> Best(b, L) = {}
  BY <1>1, FS_EmptySet
<1>4. Cardinality(Best(b, L)) = 1 <=> \E l : Best(b, L) = {l}
  BY <1>1, FS_Singleton
<1>5. \A l : Best(b, L) = {l} => l \in L
  BY <1>1
<1>6. QED  BY <1>2, <1>3, <1>4, <1>5

\* The ambiguities that contention for an item reports.
Contended(item, bank, ledger) ==
  {Ambiguity(b, {item.id}, Score(b, item), "LEDGER_CONTENTION")
   : b \in Losers(item, Contenders(item, bank, ledger))}

Undecided(bank, ledger) ==
  {Ambiguity(b, IdsOf(TopCandidates(b, ledger)), TopScore(b, ledger), "MULTIPLE_TOP_CANDIDATES")
   : b \in {t \in ToSet(bank) : Cardinality(TopCandidates(t, ledger)) > 1}}

\* Every open transaction is reported, and nothing else is.
LEMMA OpenAreReported ==
  ASSUME NEW bank, AreLines(ToSet(bank)), NEW ledger, AreLines(ToSet(ledger))
  PROVE  Undecided(bank, ledger) \cup UNION {Contended(l, bank, ledger) : l \in ToSet(ledger)}
         = {Report(b, ToSet(ledger)) : b \in OpenLines(ToSet(bank), ToSet(ledger))}
<1> DEFINE B == ToSet(bank)
<1> DEFINE L == ToSet(ledger)
<1>1. AreLines(B) /\ AreLines(L) /\ L = ToSet(ledger) /\ B = ToSet(bank)
  OBVIOUS
<1> HIDE DEF B, L
<1>2. B \subseteq LineRecords /\ L \subseteq LineRecords
  BY <1>1 DEF AreLines
<1>3. ASSUME NEW b \in B, Best(b, L) # {}
      PROVE  /\ TopCandidates(b, ledger) = Best(b, L)
             /\ TopScore(b, ledger) = Score(b, CHOOSE l \in Best(b, L) : TRUE)
  <2>1. (CHOOSE l \in Best(b, L) : TRUE) \in Best(b, L)
    BY <1>3
  <2>2. QED  BY <1>1, <1>2, <2>1, TopIsBest
<1>4. ASSUME NEW b \in B, NEW l \in L, Best(b, L) = {l}
      PROVE  Report(b, L) = Ambiguity(b, {l.id}, Score(b, l), "LEDGER_CONTENTION")
  <2>1. (CHOOSE o \in Best(b, L) : TRUE) = l /\ IdsOf(Best(b, L)) = {l.id}
    BY <1>4 DEF IdsOf
  <2>2. QED  BY <1>4, <2>1 DEF Report
<1>5. ASSUME NEW b \in B, Best(b, L) # {}, \A l \in L : Best(b, L) # {l}
      PROVE  Report(b, L) = Ambiguity(b, IdsOf(TopCandidates(b, ledger)), TopScore(b, ledger),
                                      "MULTIPLE_TOP_CANDIDATES")
  BY <1>3, <1>5 DEF Report
<1>6. \A b \in B : Cardinality(TopCandidates(b, ledger)) > 1
                     <=> Best(b, L) # {} /\ \A l \in L : Best(b, L) # {l}
  BY <1>1, <1>2, TopIsBest, ManyBest
<1>7. \A l \in L : Losers(l, Contenders(l, bank, ledger))
                     = {b \in B : Best(b, L) = {l} /\ ~Agreed(b, l, B, L)}
  BY <1>1, WinnerAgrees DEF Proposing
<1>8. \A b, l : Agreed(b, l, B, L) => Best(b, L) = {l}
  BY DEF Agreed
<1>9. ASSUME NEW a \in Undecided(bank, ledger)
      PROVE  \E b \in OpenLines(B, L) : a = Report(b, L)
  <2>1. PICK b \in B : /\ Cardinality(TopCandidates(b, ledger)) > 1
                       /\ a = Ambiguity(b, IdsOf(TopCandidates(b, ledger)),
                                        TopScore(b, ledger), "MULTIPLE_TOP_CANDIDATES")
    BY <1>1, <1>9 DEF Undecided
  <2>2. Best(b, L) # {} /\ \A l \in L : Best(b, L) # {l}
    BY <1>6, <2>1
  <2>3. b \in OpenLines(B, L)
    BY <1>8, <2>2 DEF OpenLines
  <2>4. QED  BY <1>5, <2>1, <2>2, <2>3
<1>10. ASSUME NEW l \in L, NEW a \in Contended(l, bank, ledger)
       PROVE  \E b \in OpenLines(B, L) : a = Report(b, L)
  <2>1. PICK b \in Losers(l, Contenders(l, bank, ledger)) :
          a = Ambiguity(b, {l.id}, Score(b, l), "LEDGER_CONTENTION")
    BY <1>10 DEF Contended
  <2>2. b \in B /\ Best(b, L) = {l} /\ ~Agreed(b, l, B, L)
    BY <1>7, <2>1
  <2>3. b \in OpenLines(B, L)
    BY <1>8, <2>2 DEF OpenLines
  <2>4. QED  BY <1>4, <2>1, <2>2, <2>3
<1>11. ASSUME NEW b \in OpenLines(B, L)
       PROVE  \/ Report(b, L) \in Undecided(bank, ledger)
              \/ \E l \in L : Report(b, L) \in Contended(l, bank, ledger)
  <2>1. b \in B /\ Best(b, L) # {} /\ \A l \in L : ~Agreed(b, l, B, L)
    BY DEF OpenLines
  <2>2. CASE \A l \in L : Best(b, L) # {l}
    BY <1>1, <1>5, <1>6, <2>1, <2>2 DEF Undecided
  <2>3. ASSUME NEW l \in L, Best(b, L) = {l}
        PROVE  Report(b, L) \in Contended(l, bank, ledger)
    <3>1. b \in Losers(l, Contenders(l, bank, ledger))
      BY <1>7, <2>1, <2>3
    <3>2. QED  BY <1>4, <2>1, <2>3, <3>1 DEF Contended
  <2>4. QED  BY <2>2, <2>3
<1>12. QED  BY <1>1, <1>9, <1>10, <1>11

AgreedPairs(B, L) == {p \in B \X L : Agreed(p[1], p[2], B, L)}

\* The matches, over every ledger item that has a winner.
MatchesOf(bank, ledger) ==
  {<<Contenders(l, bank, ledger)[1].id, l.id>>
   : l \in {i \in ToSet(ledger) : HasWinner(i, Contenders(i, bank, ledger))}}

\* The matches are the pairs that agree.
LEMMA MatchesAgree ==
  ASSUME NEW bank, AreLines(ToSet(bank)), NEW ledger, AreLines(ToSet(ledger))
  PROVE  MatchesOf(bank, ledger)
         = {<<p[1].id, p[2].id>> : p \in AgreedPairs(ToSet(bank), ToSet(ledger))}
<1> DEFINE B == ToSet(bank)
<1> DEFINE L == ToSet(ledger)
<1>1. \A l \in L : LET c == Contenders(l, bank, ledger) IN
        /\ HasWinner(l, c) => c[1] \in B /\ Agreed(c[1], l, B, L)
        /\ \A b \in B : Agreed(b, l, B, L) => HasWinner(l, c) /\ c[1] = b
  BY WinnerAgrees
<1>2. ASSUME NEW m \in MatchesOf(bank, ledger)
      PROVE  \E p \in AgreedPairs(B, L) : m = <<p[1].id, p[2].id>>
  <2>1. PICK l \in L : /\ HasWinner(l, Contenders(l, bank, ledger))
                       /\ m = <<Contenders(l, bank, ledger)[1].id, l.id>>
    BY <1>2 DEF MatchesOf
  <2> DEFINE p == <<Contenders(l, bank, ledger)[1], l>>
  <2>2. p \in AgreedPairs(B, L)
    BY <1>1, <2>1 DEF AgreedPairs
  <2>3. m = <<p[1].id, p[2].id>>
    BY <2>1
  <2>4. QED  BY <2>2, <2>3
<1>3. ASSUME NEW p \in AgreedPairs(B, L)
      PROVE  <<p[1].id, p[2].id>> \in MatchesOf(bank, ledger)
  <2>1. p[1] \in B /\ p[2] \in L /\ Agreed(p[1], p[2], B, L)
    BY DEF AgreedPairs
  <2>2. HasWinner(p[2], Contenders(p[2], bank, ledger))
        /\ Contenders(p[2], bank, ledger)[1] = p[1]
    BY <1>1, <2>1
  <2>3. QED  BY <2>1, <2>2 DEF MatchesOf
<1>4. QED  BY <1>2, <1>3

\* The result of a matching, said without lists.
LEMMA ResultOf ==
  ASSUME NEW bankInput, IsListing(bankInput), NEW ledgerInput, IsListing(ledgerInput)
  PROVE  LET result == ReconcileBankToLedger(bankInput, ledgerInput)
             B == ToSet(bankInput)
             L == ToSet(ledgerInput)
         IN  /\ result.matches = {<<p[1].id, p[2].id>> : p \in AgreedPairs(B, L)}
             /\ result.ambiguous = {Report(b, L) : b \in OpenLines(B, L)}
             /\ result.unmatchedBank = IdsOf(B) \ {m[1] : m \in result.matches}
             /\ result.unmatchedLedger = IdsOf(L) \ {m[2] : m \in result.matches}
<1> DEFINE bank == ById(bankInput)
<1> DEFINE ledger == ById(ledgerInput)
<1> DEFINE result == ReconcileBankToLedger(bankInput, ledgerInput)
<1>1. /\ ToSet(bank) = ToSet(bankInput) /\ ToSet(ledger) = ToSet(ledgerInput)
      /\ AreLines(ToSet(bank)) /\ AreLines(ToSet(ledger))
  BY ByIdKeeps, ListingsAreLines
<1>2. result.matches = MatchesOf(bank, ledger)
  BY DEF ReconcileBankToLedger, MatchesOf
<1>3. result.ambiguous
      = Undecided(bank, ledger) \cup UNION {Contended(l, bank, ledger) : l \in ToSet(ledger)}
  BY DEF ReconcileBankToLedger, Undecided, Contended
<1>4. /\ result.unmatchedBank = IdsOf(ToSet(bank)) \ {m[1] : m \in result.matches}
      /\ result.unmatchedLedger = IdsOf(ToSet(ledger)) \ {m[2] : m \in result.matches}
  BY DEF ReconcileBankToLedger
<1> HIDE DEF bank, ledger, result
<1>5. result.matches = {<<p[1].id, p[2].id>> : p \in AgreedPairs(ToSet(bank), ToSet(ledger))}
  BY <1>1, <1>2, MatchesAgree
<1>6. result.ambiguous = {Report(b, ToSet(ledger)) : b \in OpenLines(ToSet(bank), ToSet(ledger))}
  BY <1>1, <1>3, OpenAreReported
<1>7. QED  BY <1>1, <1>4, <1>5, <1>6 DEF result
\* Nothing is matched twice.
LEMMA PairsAreOneToOne ==
  ASSUME NEW B, AreLines(B), NEW L, AreLines(L),
         NEW p \in AgreedPairs(B, L), NEW q \in AgreedPairs(B, L),
         p[1].id = q[1].id \/ p[2].id = q[2].id
  PROVE  p[1] = q[1] /\ p[2] = q[2]
<1>1. /\ p[1] \in B /\ p[2] \in L /\ Agreed(p[1], p[2], B, L)
      /\ q[1] \in B /\ q[2] \in L /\ Agreed(q[1], q[2], B, L)
  BY DEF AgreedPairs
<1>2. p[1] = q[1] \/ p[2] = q[2]
  BY <1>1 DEF AreLines
<1>3. Best(p[1], L) = {p[2]} /\ Best(q[1], L) = {q[2]}
  BY <1>1 DEF Agreed
<1>4. CASE p[1] = q[1]
  BY <1>3, <1>4
<1>5. CASE p[2] = q[2] /\ p[1] # q[1]
  <2>1. Score(q[1], p[2]) < Score(p[1], p[2]) /\ Score(p[1], p[2]) < Score(q[1], p[2])
    BY <1>1, <1>3, <1>5 DEF Agreed
  <2>2. Score(q[1], p[2]) \in Nat /\ Score(p[1], p[2]) \in Nat
    BY <1>1, ScoreIsANumber DEF AreLines
  <2>3. QED  BY <2>1, <2>2
<1>6. QED  BY <1>2, <1>4, <1>5

\* The reports of open transactions are as many as these are.
LEMMA ReportsAreCounted ==
  ASSUME NEW B, AreLines(B), NEW L
  PROVE  Cardinality({Report(b, L) : b \in OpenLines(B, L)}) = Cardinality(OpenLines(B, L))
<1> DEFINE O == OpenLines(B, L)
<1> DEFINE T == {Report(b, L) : b \in O}
<1> DEFINE f == [b \in O |-> Report(b, L)]
<1>1. IsFiniteSet(O) /\ O \subseteq B
  BY FS_Subset DEF OpenLines, AreLines
<1>2. \A b \in O : f[b] = Report(b, L) /\ Report(b, L).bank = b.id
  BY DEF Report, Ambiguity
<1>3. \A b, c \in O : f[b] = f[c] => b = c
  BY <1>1, <1>2 DEF AreLines
<1>4. f \in [O -> T] /\ \A t \in T : \E b \in O : f[b] = t
  OBVIOUS
<1> HIDE DEF f, T, O
<1>5. f \in Bijection(O, T)
  BY <1>3, <1>4 DEF Bijection, Injection, Surjection, IsInjective
<1>6. ExistsBijection(O, T)
  BY <1>5 DEF ExistsBijection
<1>7. Cardinality(T) = Cardinality(O)
  BY <1>1, <1>6, FS_Bijection
<1>8. QED  BY <1>7 DEF T, O

\* One id is one line.
LEMMA OneIdOneLine ==
  ASSUME NEW S, AreLines(S)
  PROVE  Cardinality(IdsOf(S)) = 1 <=> \E l \in S : S = {l}
<1> DEFINE f == [l \in S |-> l.id]
<1>1. f \in Surjection(S, IdsOf(S))
  BY DEF Surjection, IdsOf
<1>2. IsFiniteSet(IdsOf(S))
  BY <1>1, FS_Surjection DEF AreLines
<1>3. Cardinality(IdsOf(S)) = 1 <=> \E i : IdsOf(S) = {i}
  BY <1>2, FS_Singleton
<1>4. ASSUME NEW i, IdsOf(S) = {i} PROVE \E l \in S : S = {l}
  <2>1. PICK l \in S : l.id = i
    BY <1>4 DEF IdsOf
  <2>2. \A o \in S : o.id = i
    BY <1>4 DEF IdsOf
  <2>3. QED  BY <2>1, <2>2 DEF AreLines
<1>5. ASSUME NEW l \in S, S = {l} PROVE IdsOf(S) = {l.id}
  BY <1>5 DEF IdsOf
<1>6. QED  BY <1>3, <1>4, <1>5

\* What reports say of a transaction.
LEMMA ReportsAreRight ==
  ASSUME NEW B, AreLines(B), NEW L, AreLines(L), NEW b \in OpenLines(B, L)
  PROVE  /\ Report(b, L).bank = b.id /\ Report(b, L).candidates = IdsOf(Best(b, L))
         /\ \A l \in Best(b, L) : Report(b, L).score = Score(b, l)
         /\ Report(b, L).reason = "LEDGER_CONTENTION" <=> Cardinality(Report(b, L).candidates) = 1
<1>1. b \in LineRecords /\ Best(b, L) # {} /\ Best(b, L) \subseteq L
  BY DEF OpenLines, AreLines, Best
<1>2. AreLines(Best(b, L))
  BY <1>1, FS_Subset DEF AreLines
<1>3. /\ Report(b, L).bank = b.id /\ Report(b, L).candidates = IdsOf(Best(b, L))
      /\ Report(b, L).score = Score(b, CHOOSE l \in Best(b, L) : TRUE)
      /\ Report(b, L).reason = IF \E l \in L : Best(b, L) = {l} THEN "LEDGER_CONTENTION"
                              ELSE "MULTIPLE_TOP_CANDIDATES"
  BY DEF Report, Ambiguity
<1>4. (CHOOSE l \in Best(b, L) : TRUE) \in Best(b, L)
  BY <1>1
<1>5. \A l \in Best(b, L) : Report(b, L).score = Score(b, l)
  BY <1>1, <1>3, <1>4, BestScoreAlike
<1>6. (\E l \in L : Best(b, L) = {l}) <=> \E l \in Best(b, L) : Best(b, L) = {l}
  BY <1>1
<1>7. Report(b, L).reason = "LEDGER_CONTENTION" <=> \E l \in Best(b, L) : Best(b, L) = {l}
  BY <1>3, <1>6
<1>8. QED  BY <1>2, <1>3, <1>5, <1>7, OneIdOneLine

\* What is open has no pair: the property says so by ids.
LEMMA OpenById ==
  ASSUME NEW B, AreLines(B), NEW L, AreLines(L)
  PROVE  OpenLines(B, L) = {b \in B : /\ Best(b, L) # {}
                                 /\ \A p \in {<<a[1].id, a[2].id>> : a \in AgreedPairs(B, L)} :
                                      p[1] # b.id}
<1> DEFINE pairs == {<<a[1].id, a[2].id>> : a \in AgreedPairs(B, L)}
<1>1. ASSUME NEW b \in B, NEW l \in L, Agreed(b, l, B, L)
      PROVE  \E p \in pairs : p[1] = b.id
  <2>1. <<b, l>> \in AgreedPairs(B, L)
    BY <1>1 DEF AgreedPairs
  <2>2. <<b.id, l.id>> \in pairs
    BY <2>1
  <2> HIDE DEF pairs
  <2>3. QED  BY <2>2
<1>2. ASSUME NEW b \in B, NEW p \in pairs, p[1] = b.id
      PROVE  \E l \in L : Agreed(b, l, B, L)
  <2>1. PICK a \in AgreedPairs(B, L) : p = <<a[1].id, a[2].id>>
    OBVIOUS
  <2>2. a[1].id = b.id
    BY <1>2, <2>1
  <2>3. a[1] \in B /\ a[2] \in L /\ Agreed(a[1], a[2], B, L)
    BY DEF AgreedPairs
  <2>4. a[1] = b
    BY <2>2, <2>3 DEF AreLines
  <2>5. QED  BY <2>3, <2>4
<1> HIDE DEF pairs
<1>3. OpenLines(B, L) = {b \in B : Best(b, L) # {} /\ \A p \in pairs : p[1] # b.id}
  BY <1>1, <1>2 DEF OpenLines
<1>4. QED  BY <1>3 DEF pairs

\* Every matching of two listings is as MatchingIsOrderFree says.
LEMMA ListingsMatch ==
  ASSUME IsListing(bankLines), IsListing(ledgerLines)
  PROVE  MatchingIsOrderFree
<1> DEFINE B == ToSet(bankLines)
<1> DEFINE L == ToSet(ledgerLines)
<1> DEFINE result == ReconcileBankToLedger(bankLines, ledgerLines)
<1> DEFINE pairs == {<<p[1].id, p[2].id>> : p \in AgreedPairs(B, L)}
<1>1. AreLines(B) /\ AreLines(L)
  BY ListingsAreLines
<1>2. /\ result.matches = pairs
      /\ result.ambiguous = {Report(b, L) : b \in OpenLines(B, L)}
      /\ result.unmatchedBank = IdsOf(B) \ {m[1] : m \in result.matches}
      /\ result.unmatchedLedger = IdsOf(L) \ {m[2] : m \in result.matches}
  BY ResultOf
<1>3. MatchingIsOrderFree <=>
        /\ result.matches = pairs
        /\ {a.bank : a \in result.ambiguous}
           = IdsOf({b \in B : Best(b, L) # {} /\ \A p \in pairs : p[1] # b.id})
        /\ Cardinality(result.ambiguous)
           = Cardinality({b \in B : Best(b, L) # {} /\ \A p \in pairs : p[1] # b.id})
        /\ \A a \in result.ambiguous, b \in B :
             a.bank = b.id => /\ a.candidates = IdsOf(Best(b, L))
                              /\ \A l \in Best(b, L) : a.score = Score(b, l)
                              /\ a.reason = "LEDGER_CONTENTION" <=> Cardinality(a.candidates) = 1
        /\ \A p, q \in pairs : p # q => p[1] # q[1] /\ p[2] # q[2]
        /\ result.unmatchedBank = IdsOf(B) \ {p[1] : p \in pairs}
        /\ result.unmatchedLedger = IdsOf(L) \ {p[2] : p \in pairs}
  BY DEF MatchingIsOrderFree, AgreedPairs
<1>4. OpenLines(B, L) = {b \in B : Best(b, L) # {} /\ \A p \in pairs : p[1] # b.id}
  BY <1>1, OpenById
<1>5. \A p, q \in pairs : p # q => p[1] # q[1] /\ p[2] # q[2]
  <2> SUFFICES ASSUME NEW a \in AgreedPairs(B, L), NEW c \in AgreedPairs(B, L),
                      a[1].id = c[1].id \/ a[2].id = c[2].id
               PROVE  <<a[1].id, a[2].id>> = <<c[1].id, c[2].id>>
    OBVIOUS
  <2>1. a[1] = c[1] /\ a[2] = c[2]
    BY <1>1, PairsAreOneToOne
  <2>2. QED  BY <2>1
<1> HIDE DEF B, L, result, pairs
<1>6. {a.bank : a \in result.ambiguous} = IdsOf(OpenLines(B, L))
  <2>1. \A b \in OpenLines(B, L) : Report(b, L).bank = b.id
    BY <1>1, ReportsAreRight
  <2>2. QED  BY <1>2, <2>1 DEF IdsOf
<1>7. Cardinality(result.ambiguous) = Cardinality(OpenLines(B, L))
  BY <1>1, <1>2, ReportsAreCounted
<1>8. ASSUME NEW a \in result.ambiguous, NEW b \in B, a.bank = b.id
      PROVE  /\ a.candidates = IdsOf(Best(b, L))
             /\ \A l \in Best(b, L) : a.score = Score(b, l)
             /\ a.reason = "LEDGER_CONTENTION" <=> Cardinality(a.candidates) = 1
  <2>1. PICK c \in OpenLines(B, L) : a = Report(c, L)
    BY <1>2
  <2>2. c \in B /\ Report(c, L).bank = c.id
    BY <1>1, ReportsAreRight DEF OpenLines
  <2>3. c = b
    BY <1>1, <1>8, <2>1, <2>2 DEF AreLines
  <2>4. QED  BY <1>1, <2>1, <2>3, ReportsAreRight
<1>9. QED  BY <1>2, <1>3, <1>4, <1>5, <1>6, <1>7, <1>8

-----------------------------------------------------------------------------
(* Every list that arrives is a listing *)

MatchingSpec == MatchingInit /\ [][MatchingNext]_matchingVars

\* A line with a new id goes on a listing.
LEMMA AppendKeepsListing ==
  ASSUME NEW lines, IsListing(lines), NEW id \in Int, id \notin IdsOf(ToSet(lines)),
         NEW line \in Lines
  PROVE  IsListing(Append(lines, LineOf(id, line)))
<1> DEFINE l == LineOf(id, line)
<1> DEFINE more == Append(lines, l)
<1>1. l \in LineRecords /\ l.id = id
  BY LinesAreAmountsAndDays DEF LineOf, LineRecords
<1> HIDE DEF l
<1>2. /\ lines \in Seq(LineRecords) /\ more \in Seq(LineRecords) /\ Len(lines) \in Nat
      /\ Len(more) = Len(lines) + 1 /\ more[Len(lines) + 1] = l
      /\ \A i \in 1..Len(lines) : more[i] = lines[i]
  BY <1>1 DEF IsListing
<1>3. ToSet(more) = ToSet(lines) \cup {l}
  <2>1. DOMAIN more = 1..(Len(lines) + 1) /\ DOMAIN lines = 1..Len(lines)
    BY <1>2
  <2>2. \A i \in 1..(Len(lines) + 1) : i \in 1..Len(lines) \/ i = Len(lines) + 1
    BY <1>2
  <2> HIDE DEF more
  <2>3. QED  BY <1>2, <2>1, <2>2 DEF ToSet
<1>4. \A x \in ToSet(lines) : x.id # id
  BY DEF IdsOf
<1> HIDE DEF more
<1>5. IsListing(more)
  BY <1>1, <1>2, <1>3, <1>4 DEF IsListing
<1>6. QED  BY <1>5 DEF more, l

\* However many lines a statement and a ledger have, and in whatever order they come, the
\* engine matches the pairs that agree and reports every other transaction with a candidate.
THEOREM MatchingIsAlwaysOrderFree == MatchingSpec => []MatchingIsOrderFree
<1> DEFINE Inv == IsListing(bankLines) /\ IsListing(ledgerLines)
<1>1. MatchingInit => Inv
  <2>1. IsListing(<<>>)
    BY DEF IsListing, ToSet
  <2>2. QED  BY <2>1 DEF MatchingInit
<1>2. Inv /\ [MatchingNext]_matchingVars => Inv'
  <2> SUFFICES ASSUME Inv, [MatchingNext]_matchingVars PROVE Inv'
    OBVIOUS
  <2>1. CASE AddBankLine
    <3>1. PICK id \in BankIds \ IdsOf(ToSet(bankLines)), line \in Lines :
            bankLines' = Append(bankLines, LineOf(id, line)) /\ ledgerLines' = ledgerLines
      BY <2>1 DEF AddBankLine
    <3>2. IsListing(Append(bankLines, LineOf(id, line)))
      BY IdsAreOrdered, AppendKeepsListing
    <3>3. QED  BY <3>1, <3>2
  <2>2. CASE AddLedgerLine
    <3>1. PICK id \in LedgerIds \ IdsOf(ToSet(ledgerLines)), line \in Lines :
            ledgerLines' = Append(ledgerLines, LineOf(id, line)) /\ bankLines' = bankLines
      BY <2>2 DEF AddLedgerLine
    <3>2. IsListing(Append(ledgerLines, LineOf(id, line)))
      BY IdsAreOrdered, AppendKeepsListing
    <3>3. QED  BY <3>1, <3>2
  <2>3. CASE UNCHANGED matchingVars
    BY <2>3 DEF matchingVars
  <2>4. QED  BY <2>1, <2>2, <2>3 DEF MatchingNext
<1>3. Inv => MatchingIsOrderFree
  BY ListingsMatch
<1>4. QED  BY <1>1, <1>2, <1>3, PTL DEF MatchingSpec
================================================================================
