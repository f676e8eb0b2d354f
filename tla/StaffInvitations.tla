--------------------------- MODULE StaffInvitations ---------------------------
(***************************************************************************)
(* How an accounting firm takes on staff (lib/partner-layer.ts and the     *)
(* route firm-invitations): a manager invites an address within the plan's *)
(* limit, the invitee accepts with the one-time link, a manager withdraws. *)
(* Invitations are Firestore documents, memberships FirmTenancy's.         *)
(*                                                                         *)
(* An address is the user it belongs to.  A link is its invitation's: whom *)
(* the link was passed on to is out, since the address is compared.        *)
(***************************************************************************)
EXTENDS FirmTenancy

CONSTANTS
  Invitations,  \* bound: invitations ever made
  MaxStaff      \* max_staff of the firm's plan, which stays; None where there is no limit

\* validatePlan lets a limit of at least one member through, or none.
ASSUME StaffAssumption ==
  /\ IsFiniteSet(Staff) /\ IsFiniteSet(Invitations)
  /\ MaxStaff = None \/ MaxStaff \in Nat \ {0}

VARIABLE invitation   \* finclose_prod_firm_invitations

InvitationsInit == invitation = [i \in Invitations |-> None]

HasStatus(i, status) == invitation[i] # None /\ invitation[i].status = status
Open(i) == HasStatus(i, "PENDING") /\ ~invitation[i].expired
PutInvitation(i, record) == invitation' = [invitation EXCEPT ![i] = record]

OnlyAsks == OnlyReads /\ UNCHANGED invitation

-----------------------------------------------------------------------------
(* inviteStaff: In(r) is the actor, the address and the role *)

AuthorizeInvitation(r) ==
  /\ At(r, "inviteStaff", "authorize") /\ OnlyAsks
  /\ IF /\ HasFirmRole(In(r).actor, "MANAGER")
        /\ FirmRoleLevel[In(r).role] <= FirmRoleLevel[member[In(r).actor].role]
     THEN Goto(r, "staff", None) ELSE Answer(r)

CountStaff(r) ==
  /\ At(r, "inviteStaff", "staff") /\ OnlyAsks
  /\ Goto(r, "pending", Cardinality({u \in Staff : IsMember(u)}))

\* A bug to catch: invitations that are still open take no place.
NoPlaceForOpenInvitations(activeStaff, user) == activeStaff

PlacesTaken(activeStaff, user) ==
  activeStaff + Cardinality({i \in Invitations : Open(i) /\ invitation[i].user # user})

CheckPlan(r) ==
  LET user == In(r).target IN
  /\ At(r, "inviteStaff", "pending") /\ OnlyAsks
  /\ IF MaxStaff # None /\ PlacesTaken(Seen(r), user) >= MaxStaff THEN Answer(r)
     ELSE Goto(r, "replace", {i \in Invitations : Open(i) /\ invitation[i].user = user})

\* Earlier invitations of the address are withdrawn, one write each.
ReplaceInvitation(r) ==
  /\ At(r, "inviteStaff", "replace")
  /\ \E i \in Seen(r) :
       /\ PutInvitation(i, [invitation[i] EXCEPT !.status = "REVOKED"])
       /\ Goto(r, "replace", Seen(r) \ {i})
  /\ OnlyReads

InviteStaff(r) ==
  /\ At(r, "inviteStaff", "replace") /\ Seen(r) = {}
  /\ \E i \in Invitations :
       /\ invitation[i] = None
       /\ PutInvitation(i, [user |-> In(r).target, role |-> In(r).role,
                            status |-> "PENDING", expired |-> FALSE])
  /\ Answer(r)
  /\ OnlyReads

-----------------------------------------------------------------------------
(* acceptStaffInvitation and revokeStaffInvitation: In(r) names the invitation *)

FindInvitation(r) ==
  /\ At(r, "acceptStaff", "find") /\ OnlyAsks
  /\ IF Open(In(r).id) THEN Goto(r, "member", invitation[In(r).id]) ELSE Answer(r)

ReadMember(r) ==
  /\ At(r, "acceptStaff", "member") /\ OnlyAsks
  /\ IF IsMember(Seen(r).user) THEN Answer(r) ELSE Goto(r, "join", Seen(r))

JoinFirmByInvitation(r) ==
  /\ At(r, "acceptStaff", "join")
  /\ SetMember(Seen(r).user, Membership(Seen(r).role))
  /\ Goto(r, "put", Seen(r))
  /\ UNCHANGED invitation

\* The whole record as it was read, over whatever it is by now.
MarkAccepted(r) ==
  /\ At(r, "acceptStaff", "put")
  /\ PutInvitation(In(r).id, [Seen(r) EXCEPT !.status = "ACCEPTED"])
  /\ Answer(r)
  /\ OnlyReads

AuthorizeWithdrawal(r) ==
  /\ At(r, "withdraw", "authorize") /\ OnlyAsks
  /\ IF HasFirmRole(In(r).actor, "MANAGER") THEN Goto(r, "get", None) ELSE Answer(r)

\* An expired invitation can be withdrawn too.
FindPending(r) ==
  /\ At(r, "withdraw", "get") /\ OnlyAsks
  /\ IF HasStatus(In(r).id, "PENDING") THEN Goto(r, "put", invitation[In(r).id]) ELSE Answer(r)

RevokeStaffInvitation(r) ==
  /\ At(r, "withdraw", "put")
  /\ PutInvitation(In(r).id, [Seen(r) EXCEPT !.status = "REVOKED"])
  /\ Answer(r)
  /\ OnlyReads

InvitationExpires(i) ==
  /\ Open(i)
  /\ PutInvitation(i, [invitation[i] EXCEPT !.expired = TRUE])
  /\ OnlyReads /\ UNCHANGED <<request, crashes>>

-----------------------------------------------------------------------------
(* The specification.  addFirmMember, which asks no plan, is called by no route. *)

ReceiveStaff(r) ==
  /\ \/ \E a \in Staff, t \in Staff \ {Founder}, role \in OfferedRoles :
          Call(r, "inviteStaff", "authorize", a, t, role)
     \/ \E i \in Invitations :
          invitation[i] # None
            /\ \/ Receive(r, "acceptStaff", "find", [id |-> i])
               \/ \E a \in Staff : Receive(r, "withdraw", "authorize", [id |-> i, actor |-> a])
     \/ \E a \in Staff, t \in Staff \ {Founder} :
          Call(r, "removeMember", "authorize", a, t, None)
  /\ OnlyAsks

StaffStep(r) ==
  \/ AuthorizeInvitation(r) \/ CountStaff(r) \/ CheckPlan(r)
  \/ ReplaceInvitation(r) \/ InviteStaff(r)
  \/ FindInvitation(r) \/ ReadMember(r) \/ JoinFirmByInvitation(r) \/ MarkAccepted(r)
  \/ AuthorizeWithdrawal(r) \/ FindPending(r) \/ RevokeStaffInvitation(r)
  \/ (RequireManager(r) \/ RemoveFirmMember(r)) /\ UNCHANGED invitation

StaffNext ==
  \/ \E r \in Requests : ReceiveStaff(r) \/ StaffStep(r) \/ (Die(r) /\ OnlyAsks)
  \/ \E i \in Invitations : InvitationExpires(i)

-----------------------------------------------------------------------------
(* Property *)

\* However invitations are replaced, withdrawn, left to expire, accepted, and an acceptance
\* is cut off, the firm's staff and everybody who may still join by a link fit the plan, and
\* an address has one open invitation (docs/scanner-ocr-connectors-partner.md:33,
\* tests/partner-layer.test.ts:52).  One request at a time: two that overlap break it.
StaffFitsThePlan ==
  LET open == {i \in Invitations : Open(i)} IN
  /\ MaxStaff # None =>
       Cardinality({u \in Staff : IsMember(u)} \cup {invitation[i].user : i \in open}) <= MaxStaff
  /\ \A i, j \in open : invitation[i].user = invitation[j].user => i = j

=============================================================================
