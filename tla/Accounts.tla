------------------------------ MODULE Accounts ------------------------------
(***************************************************************************)
(* One person's account, by email address: registration of an organization *)
(* of one's own, verification of the address, invitation into another      *)
(* organization, membership, and the platform admin's user commands.       *)
(*                                                                         *)
(* Links expire and are replaced; a link that is refused changes nothing,  *)
(* so that expiry is left out and refusals are not steps.  An invitation   *)
(* cannot be cancelled: cancelInvitation writes a column that the schema   *)
(* does not have, and throws.  Users are deleted by marking the row.       *)
(***************************************************************************)
EXTENDS Naturals

CONSTANTS
  Invitations,    \* invitations of the address into the organization
  NoInvitation,
  Requests,       \* requests in flight together
  MaxFailures     \* bound: requests that die between two of their steps

ASSUME AccountsAssumption ==
  /\ NoInvitation \notin Invitations
  /\ MaxFailures \in Nat

VARIABLES
  account,      \* the User row of the address
  link,         \* its EmailVerificationToken: none, fresh or used
  invitation,   \* the status of each Invitation row
  req,          \* the step each request has still to do
  failures      \* requests that died so far

vars == <<account, link, invitation, req, failures>>
-----------------------------------------------------------------------------
UserStatus == {"ACTIVE", "INACTIVE", "SUSPENDED", "PENDING_VERIFICATION"}

\* Users belong to no organization, to the one they registered, or to the
\* one that invites.
Org == {"none", "own", "inviting"}

\* via is the invitation whose acceptance created the row.
Account == [status   : UserStatus \union {"ABSENT"},
            verified : BOOLEAN,
            org      : Org,
            deleted  : BOOLEAN,
            via      : Invitations \union {NoInvitation}]

MemberOp == {"updateMember", "suspendMember", "removeMember",
             "deactivateMember", "reactivateMember"}

\* Each op but "idle" names the write still to do.  inv is the invitation
\* read, to the status to write.
Request == [op  : {"idle", "register", "verify", "renewLink", "invite",
                   "resend", "createMember", "accept"} \union MemberOp,
            inv : Invitations \union {NoInvitation},
            to  : UserStatus]

Idle == [op |-> "idle", inv |-> NoInvitation, to |-> "ACTIVE"]

TypeOK ==
  /\ account \in Account
  /\ link \in {"none", "fresh", "used"}
  /\ invitation \in [Invitations -> {"NONE", "PENDING", "ACCEPTED"}]
  /\ req \in [Requests -> Request]
  /\ failures \in 0 .. MaxFailures

Absent == [status |-> "ABSENT", verified |-> FALSE, org |-> "none",
           deleted |-> FALSE, via |-> NoInvitation]

Init ==
  /\ account = Absent
  /\ link = "none"
  /\ invitation = [i \in Invitations |-> "NONE"]
  /\ req = [r \in Requests |-> Idle]
  /\ failures = 0

Exists == account.status # "ABSENT"

\* Request r has read and decided; it still has to write.
Reads(r, job) ==
  /\ req[r].op = "idle"
  /\ req' = [req EXCEPT ![r] = job]
  /\ UNCHANGED <<account, link, invitation, failures>>

\* Request r does the write op and is over.
Writes(r, op) ==
  /\ req[r].op = op
  /\ req' = [req EXCEPT ![r] = Idle]
  /\ UNCHANGED failures

\* The write op of request r throws.
Throws(r, op) == Writes(r, op) /\ UNCHANGED <<account, link, invitation>>
-----------------------------------------------------------------------------
(* registerOrganization, verifyEmail, resendVerification. *)

Register(r) == ~Exists /\ Reads(r, [Idle EXCEPT !.op = "register"])

\* One transaction creates organization, owner and link.  The address is
\* unique, whoever took it in the meantime.
WriteRegistration(r) ==
  /\ ~Exists
  /\ Writes(r, "register")
  /\ account' = [Absent EXCEPT !.status = "PENDING_VERIFICATION", !.org = "own"]
  /\ link' = "fresh"
  /\ UNCHANGED invitation

\* The address or the organization's slug is taken.
RegistrationConflict(r) == Throws(r, "register")

VerifyEmail(r) == link = "fresh" /\ Reads(r, [Idle EXCEPT !.op = "verify"])

\* Mutant of WriteVerified: the link is consumed, the user left alone.
WriteVerifiedLinkOnly(r) ==
  /\ Writes(r, "verify")
  /\ link' = "used"
  /\ UNCHANGED <<account, invitation>>

\* One transaction verifies the user and consumes the link.
WriteVerified(r) ==
  /\ Writes(r, "verify")
  /\ account' = [account EXCEPT !.verified = TRUE, !.status = "ACTIVE"]
  /\ link' = "used"
  /\ UNCHANGED invitation

ResendVerification(r) ==
  /\ Exists
  /\ ~account.verified
  /\ Reads(r, [Idle EXCEPT !.op = "renewLink"])

\* The upsert replaces token and expiry but does not clear usedAt.
WriteLink(r) ==
  /\ Writes(r, "renewLink")
  /\ link' = IF link = "none" THEN "fresh" ELSE link
  /\ UNCHANGED <<account, invitation>>
-----------------------------------------------------------------------------
(* Invitations. *)

Pending == {i \in Invitations : invitation[i] = "PENDING"}

CreateInvitation(r) ==
  /\ ~Exists
  /\ Pending = {}
  /\ Reads(r, [Idle EXCEPT !.op = "invite"])

\* Address, organization and status are unique together.
WriteInvitation(r, i) ==
  /\ invitation[i] = "NONE"
  /\ Pending = {}
  /\ Writes(r, "invite")
  /\ invitation' = [invitation EXCEPT ![i] = "PENDING"]
  /\ UNCHANGED <<account, link>>

InvitationConflict(r) == Pending # {} /\ Throws(r, "invite")

ResendInvitation(r, i) ==
  /\ i \in Pending
  /\ Reads(r, [Idle EXCEPT !.op = "resend", !.inv = i])

\* Only token and expiry are written, not the status.
WriteResend(r) ==
  /\ Writes(r, "resend")
  /\ UNCHANGED <<account, link, invitation>>

AcceptInvitation(r, i) ==
  /\ i \in Pending
  /\ ~Exists
  /\ Reads(r, [Idle EXCEPT !.op = "createMember", !.inv = i])

\* The account is made first, the invitation marked afterwards.
CreateMember(r) ==
  /\ ~Exists
  /\ req[r].op = "createMember"
  /\ account' = [status |-> "ACTIVE", verified |-> TRUE, org |-> "inviting",
                 deleted |-> FALSE, via |-> req[r].inv]
  /\ req' = [req EXCEPT ![r].op = "accept"]
  /\ UNCHANGED <<link, invitation, failures>>

\* Mutant of MemberConflict: a taken address does not stop the acceptance.
MemberConflictIgnored(r) ==
  /\ Exists
  /\ req[r].op = "createMember"
  /\ req' = [req EXCEPT ![r].op = "accept"]
  /\ UNCHANGED <<account, link, invitation, failures>>

MemberConflict(r) == Exists /\ Throws(r, "createMember")

MarkAccepted(r) ==
  /\ Writes(r, "accept")
  /\ invitation' = [invitation EXCEPT ![req[r].inv] = "ACCEPTED"]
  /\ UNCHANGED <<account, link>>
-----------------------------------------------------------------------------
(* Members, by the owner of their organization. *)

\* deactivateMember and reactivateMember find deleted members too.
FindMember(r, op, to) ==
  /\ Exists
  /\ account.org # "none"
  /\ op \in {"deactivateMember", "reactivateMember"} \/ ~account.deleted
  /\ Reads(r, [Idle EXCEPT !.op = op, !.to = to])

\* The status of the command, or the one that was read.
UpdateMember(r) ==
  \E to \in UserStatus : FindMember(r, "updateMember", to)

\* Mutant of SuspendMember: PENDING, which the DTO lets through, is written.
SuspendMemberPending(r) ==
  \E to \in {"ACTIVE", "INACTIVE", "SUSPENDED", "PENDING"} :
    FindMember(r, "suspendMember", to)

\* PENDING passes the DTO, but is no status of a user: Prisma refuses it.
SuspendMember(r) ==
  \E to \in UserStatus \ {"PENDING_VERIFICATION"} :
    FindMember(r, "suspendMember", to)

RemoveMember(r)     == FindMember(r, "removeMember", "INACTIVE")
DeactivateMember(r) == FindMember(r, "deactivateMember", "INACTIVE")
ReactivateMember(r) == FindMember(r, "reactivateMember", "ACTIVE")

WriteMember(r) ==
  \E op \in MemberOp :
    /\ Writes(r, op)
    /\ account' =
         [account EXCEPT
            !.status  = req[r].to,
            !.org     = IF op = "removeMember" THEN "none" ELSE @,
            !.deleted = CASE op \in {"removeMember", "deactivateMember"} -> TRUE
                          [] op = "reactivateMember" -> FALSE
                          [] OTHER -> @]
    /\ UNCHANGED <<link, invitation>>
-----------------------------------------------------------------------------
(* The platform admin.  A row, once there, stays: to find it and to write   *)
(* it are one step.                                                         *)

AdminWrites(row) ==
  /\ account' = row
  /\ UNCHANGED <<link, invitation, req, failures>>

CreateUser ==
  /\ ~Exists
  /\ \E org \in {"none", "inviting"} :
       AdminWrites([Absent EXCEPT !.status = "ACTIVE", !.verified = TRUE,
                                  !.org = org])

UpdateUser ==
  Exists /\ \E org \in Org : AdminWrites([account EXCEPT !.org = org])

SetUserStatus ==
  /\ Exists
  /\ \E to \in {"SUSPENDED", "ACTIVE"} :
       AdminWrites([account EXCEPT !.status = to])

DeleteUser ==
  Exists /\ AdminWrites([account EXCEPT !.deleted = TRUE, !.status = "INACTIVE"])

VerifyUserEmail ==
  Exists /\ AdminWrites([account EXCEPT !.verified = TRUE, !.status = "ACTIVE"])

\* The instance stops, or a call throws.
Abort(r) ==
  /\ req[r].op # "idle"
  /\ failures < MaxFailures
  /\ failures' = failures + 1
  /\ req' = [req EXCEPT ![r] = Idle]
  /\ UNCHANGED <<account, link, invitation>>
-----------------------------------------------------------------------------
Step(r) ==
  \/ Register(r) \/ WriteRegistration(r) \/ RegistrationConflict(r)
  \/ VerifyEmail(r) \/ WriteVerified(r)
  \/ ResendVerification(r) \/ WriteLink(r)
  \/ CreateInvitation(r) \/ InvitationConflict(r) \/ WriteResend(r)
  \/ CreateMember(r) \/ MemberConflict(r) \/ MarkAccepted(r)
  \/ UpdateMember(r) \/ SuspendMember(r) \/ RemoveMember(r)
  \/ DeactivateMember(r) \/ ReactivateMember(r) \/ WriteMember(r)
  \/ Abort(r)

InvitationStep(r, i) ==
  WriteInvitation(r, i) \/ ResendInvitation(r, i) \/ AcceptInvitation(r, i)

Admin ==
  CreateUser \/ UpdateUser \/ SetUserStatus \/ DeleteUser \/ VerifyUserEmail

Next ==
  \/ \E r \in Requests : Step(r) \/ \E i \in Invitations : InvitationStep(r, i)
  \/ Admin

Spec == Init /\ [][Next]_vars
-----------------------------------------------------------------------------
(* Properties. *)

\* Nobody is locked out: while an account is unverified its link is unused,
\* which resending it could not repair.
UnverifiedHasLink ==
  Exists /\ ~account.verified => link = "fresh"

\* An ACCEPTED invitation made the account, although the address may be
\* registered, invited again or created by the admin at the same time; and
\* the invitation that made the account is ACCEPTED, unless its request is
\* still to say so or died.
InvitationMatchesAccount ==
  /\ \A i \in Invitations : invitation[i] = "ACCEPTED" => account.via = i
  /\ account.via # NoInvitation
       => \/ invitation[account.via] = "ACCEPTED"
          \/ \E r \in Requests : req[r].op = "accept"
          \/ failures > 0

\* An accepted invitation cannot be used again, although a resend that read
\* it as pending may still be under way.
AcceptedIsFinal ==
  [][\A i \in Invitations :
       invitation[i] = "ACCEPTED" => invitation'[i] = "ACCEPTED"]_vars
=============================================================================
