------------------------ MODULE OrganizationsProofs -------------------------
(***************************************************************************)
(* Proofs about Accounts, Sessions and Tenants, for any number of          *)
(* invitations, tokens, links, members, requests in flight and failures,   *)
(* and about what an organization's people are told, Announcements and     *)
(* Inbox, for any announcements, users and notifications, any finite set   *)
(* of requests and sweeps in flight and any number of failures.            *)
(***************************************************************************)
EXTENDS Accounts, Sessions, Tenants, Announcements, Inbox, FiniteSetTheorems,
        TLAPS
-----------------------------------------------------------------------------
(* The accounts. *)

\* A request that reads is well typed if its job is.
LEMMA ReadsType ==
  ASSUME TypeOK, NEW r \in Requests, NEW job \in Request, Reads(r, job)
  PROVE  TypeOK'
BY DEF TypeOK, Reads

\* A request that writes is well typed if its rows are.
LEMMA WritesType ==
  ASSUME TypeOK, NEW r \in Requests, NEW op, Writes(r, op),
         account' \in Account, link' \in {"none", "fresh", "used"},
         invitation' \in [Invitations -> {"NONE", "PENDING", "ACCEPTED"}]
  PROVE  TypeOK'
<1>1. Idle \in Request
  BY AccountsAssumption DEF Idle, Request, UserStatus
<1> QED
  BY <1>1 DEF TypeOK, Writes

\* What requests remember is well typed.
LEMMA Jobs ==
  /\ \A op \in {"register", "verify", "renewLink", "invite"} :
       [Idle EXCEPT !.op = op] \in Request
  /\ \A op \in {"resend", "createMember"}, i \in Invitations :
       [Idle EXCEPT !.op = op, !.inv = i] \in Request
  /\ \A op \in MemberOp, to \in UserStatus :
       [Idle EXCEPT !.op = op, !.to = to] \in Request
BY AccountsAssumption DEF Idle, Request, UserStatus, MemberOp

\* The types are inductive.
LEMMA TypeInductive == TypeOK /\ [Next]_vars => TypeOK'
<1> SUFFICES ASSUME TypeOK, [Next]_vars
             PROVE  TypeOK'
  OBVIOUS
<1>1. /\ account \in Account
      /\ link \in {"none", "fresh", "used"}
      /\ invitation \in [Invitations -> {"NONE", "PENDING", "ACCEPTED"}]
      /\ req \in [Requests -> Request]
      /\ failures \in 0 .. MaxFailures
  BY DEF TypeOK
<1>2. ASSUME NEW r \in Requests, Step(r)
      PROVE  TypeOK'
  <2>1. CASE Register(r) \/ VerifyEmail(r) \/ ResendVerification(r)
               \/ CreateInvitation(r)
    BY <2>1, Jobs, ReadsType
       DEF Register, VerifyEmail, ResendVerification, CreateInvitation
  <2>2. CASE WriteRegistration(r)
    <3>1. account' \in Account
      BY <2>2, AccountsAssumption
         DEF WriteRegistration, Absent, Account, UserStatus, Org
    <3> QED
      BY <1>1, <2>2, <3>1, WritesType DEF WriteRegistration
  <2>3. CASE WriteVerified(r)
    <3>1. account' \in Account
      BY <1>1, <2>3 DEF WriteVerified, Account, UserStatus
    <3> QED
      BY <1>1, <2>3, <3>1, WritesType DEF WriteVerified
  <2>4. CASE WriteLink(r)
    BY <1>1, <2>4, WritesType DEF WriteLink
  <2>5. CASE RegistrationConflict(r) \/ InvitationConflict(r) \/ WriteResend(r)
               \/ MemberConflict(r)
    BY <1>1, <2>5, WritesType
       DEF RegistrationConflict, InvitationConflict, WriteResend,
           MemberConflict, Throws
  <2>6. CASE CreateMember(r)
    <3>1. account' \in Account
      BY <1>1, <2>6 DEF CreateMember, Account, UserStatus, Org, Request
    <3>2. req' \in [Requests -> Request]
      BY <1>1, <2>6 DEF CreateMember, Request
    <3> QED
      BY <1>1, <2>6, <3>1, <3>2 DEF CreateMember, TypeOK
  <2>7. CASE MarkAccepted(r)
    BY <1>1, <2>7, WritesType DEF MarkAccepted
  <2>8. CASE UpdateMember(r) \/ SuspendMember(r) \/ RemoveMember(r)
               \/ DeactivateMember(r) \/ ReactivateMember(r)
    <3>1. PICK op \in MemberOp, to \in UserStatus : FindMember(r, op, to)
      BY <2>8 DEF UpdateMember, SuspendMember, RemoveMember, DeactivateMember,
                  ReactivateMember, MemberOp, UserStatus
    <3> QED
      BY <3>1, Jobs, ReadsType DEF FindMember
  <2>9. CASE WriteMember(r)
    <3>1. PICK op \in MemberOp : Writes(r, op)
      BY <2>9 DEF WriteMember
    <3>2. req[r].to \in UserStatus
      BY <1>1 DEF Request
    <3>3. account' \in Account
      BY <1>1, <2>9, <3>2 DEF WriteMember, Account, Org
    <3> QED
      BY <1>1, <2>9, <3>1, <3>3, WritesType DEF WriteMember
  <2>10. CASE Abort(r)
    <3>1. Idle \in Request
      BY AccountsAssumption DEF Idle, Request, UserStatus
    <3> QED
      BY <1>1, <2>10, <3>1, AccountsAssumption DEF Abort, TypeOK
  <2> QED
    BY <1>2, <2>1, <2>2, <2>3, <2>4, <2>5, <2>6, <2>7, <2>8, <2>9, <2>10 DEF Step
<1>3. ASSUME NEW r \in Requests, NEW i \in Invitations, InvitationStep(r, i)
      PROVE  TypeOK'
  <2>1. CASE WriteInvitation(r, i)
    BY <1>1, <2>1, WritesType DEF WriteInvitation
  <2>2. CASE ResendInvitation(r, i) \/ AcceptInvitation(r, i)
    BY <2>2, Jobs, ReadsType DEF ResendInvitation, AcceptInvitation
  <2> QED
    BY <1>3, <2>1, <2>2 DEF InvitationStep
<1>4. CASE Admin
  <2>1. PICK row \in Account : AdminWrites(row)
    BY <1>1, <1>4, AccountsAssumption
       DEF Admin, CreateUser, UpdateUser, SetUserStatus, DeleteUser,
           VerifyUserEmail, Absent, Account, UserStatus, Org
  <2> QED
    BY <1>1, <2>1 DEF AdminWrites, TypeOK
<1>5. CASE UNCHANGED vars
  BY <1>1, <1>5 DEF vars, TypeOK
<1> QED
  BY <1>2, <1>3, <1>4, <1>5 DEF Next

\* Every reachable state is well typed.
THEOREM TypeCorrect == Spec => []TypeOK
<1>1. Init => TypeOK
  BY AccountsAssumption
     DEF Init, TypeOK, Absent, Account, Request, Idle, UserStatus, Org, MemberOp
<1> QED
  BY <1>1, TypeInductive, PTL DEF Spec
-----------------------------------------------------------------------------
(* The inductive invariant.  The properties alone are not inductive: a      *)
(* request in flight acts on what it read earlier.                          *)

\* A link belongs to an account, and a used one has verified it.  Requests
\* that verify or renew a link, or write a member, have found the account.
LinkInv ==
  /\ link # "none" => Exists
  /\ UnverifiedHasLink
  /\ \A r \in Requests :
       req[r].op \in {"verify", "renewLink"} \union MemberOp => Exists

\* Without an account nothing was accepted; a request that marks an
\* invitation has made the account from it.
InvitationInv ==
  /\ ~Exists => account.via = NoInvitation
  /\ \A i \in Invitations : invitation[i] = "ACCEPTED" => account.via = i
  /\ \A r \in Requests :
       req[r].op = "accept" => Exists /\ account.via = req[r].inv
  /\ account.via # NoInvitation
       => \/ invitation[account.via] = "ACCEPTED"
          \/ \E r \in Requests : req[r].op = "accept"
          \/ failures > 0

IInv == TypeOK /\ LinkInv /\ InvitationInv

LEMMA InitIInv == Init => IInv
<1> SUFFICES ASSUME Init
             PROVE  IInv
  OBVIOUS
<1>1. TypeOK
  BY AccountsAssumption
     DEF Init, TypeOK, Absent, Account, Request, Idle, UserStatus, Org, MemberOp
<1>2. LinkInv
  BY DEF Init, LinkInv, UnverifiedHasLink, Exists, Absent, Idle, MemberOp
<1>3. InvitationInv
  BY DEF Init, InvitationInv, Exists, Absent, Idle
<1> QED
  BY <1>1, <1>2, <1>3 DEF IInv

\* A request that reads keeps the invariant if it found what its write needs.
LEMMA ReadsKeeps ==
  ASSUME IInv, NEW r \in Requests, NEW job \in Request, Reads(r, job),
         job.op # "accept",
         job.op \in {"verify", "renewLink"} \union MemberOp => Exists
  PROVE  LinkInv' /\ InvitationInv'
<1>1. \A s \in Requests : req'[s] = req[s] \/ req'[s] = job
  BY DEF IInv, TypeOK, Reads
<1>2. \A s \in Requests : req[s].op = "accept" => req'[s] = req[s]
  BY DEF IInv, TypeOK, Reads
<1>3. UNCHANGED <<account, link, invitation, failures>>
  BY DEF Reads
<1>4. LinkInv'
  BY <1>1, <1>3 DEF IInv, LinkInv, UnverifiedHasLink, Exists
<1>5. InvitationInv'
  BY <1>1, <1>2, <1>3 DEF IInv, InvitationInv, Exists
<1> QED
  BY <1>4, <1>5

\* A request that ends after a write other than "accept" keeps the invariant
\* if its rows do.
LEMMA WritesKeeps ==
  ASSUME IInv, NEW r \in Requests, NEW op, op # "accept", Writes(r, op),
         Exists => Exists',
         account'.via = account.via,
         invitation' = invitation
           \/ \A i \in Invitations : invitation'[i] # invitation[i]
                                       => invitation[i] = "NONE"
                                          /\ invitation'[i] = "PENDING",
         link' # "none" => Exists',
         UnverifiedHasLink',
         ~Exists' => ~Exists
  PROVE  LinkInv' /\ InvitationInv'
<1>1. \A s \in Requests : req'[s] = req[s] \/ req'[s] = Idle
  BY DEF IInv, TypeOK, Writes
<1>2. \A s \in Requests : req[s].op = "accept" => req'[s] = req[s]
  BY DEF IInv, TypeOK, Writes
<1>3. failures' = failures
  BY DEF Writes
<1>4. Idle.op = "idle" /\ "idle" \notin MemberOp
  BY DEF Idle, MemberOp
<1>5. LinkInv'
  BY <1>1, <1>4 DEF IInv, LinkInv
<1>6. \A i \in Invitations :
        (invitation'[i] = "ACCEPTED") <=> (invitation[i] = "ACCEPTED")
  OBVIOUS
<1>7. account.via \in Invitations \union {NoInvitation}
  BY DEF IInv, TypeOK, Account
<1>8. InvitationInv'
  BY <1>1, <1>2, <1>3, <1>4, <1>6, <1>7 DEF IInv, InvitationInv
<1> QED
  BY <1>5, <1>8

\* Each step of a request keeps the invariant.
LEMMA StepKeeps ==
  ASSUME IInv, NEW r \in Requests, Step(r)
  PROVE  LinkInv' /\ InvitationInv'
<1>1. /\ account \in Account
      /\ req \in [Requests -> Request]
      /\ invitation \in [Invitations -> {"NONE", "PENDING", "ACCEPTED"}]
      /\ failures \in 0 .. MaxFailures
  BY DEF IInv, TypeOK
<1>2. LinkInv /\ InvitationInv
  BY DEF IInv
<1>3. CASE Register(r) \/ VerifyEmail(r) \/ ResendVerification(r)
             \/ CreateInvitation(r)
  <2>1. PICK op \in {"register", "verify", "renewLink", "invite"} :
          /\ Reads(r, [Idle EXCEPT !.op = op])
          /\ op \in {"verify", "renewLink"} => Exists
    BY <1>2, <1>3 DEF Register, VerifyEmail, ResendVerification,
                      CreateInvitation, LinkInv
  <2>2. [Idle EXCEPT !.op = op].op = op
    BY DEF Idle
  <2> QED
    BY <2>1, <2>2, Jobs, ReadsKeeps DEF MemberOp
<1>4. CASE WriteRegistration(r)
  <2>1. /\ account' = [Absent EXCEPT !.status = "PENDING_VERIFICATION",
                                     !.org = "own"]
        /\ link' = "fresh" /\ ~Exists /\ Writes(r, "register")
        /\ invitation' = invitation
    BY <1>4 DEF WriteRegistration
  <2>2. account'.status = "PENDING_VERIFICATION" /\ account'.via = NoInvitation
    BY <2>1 DEF Absent
  <2>3. account.via = NoInvitation
    BY <1>2, <2>1 DEF InvitationInv
  <2>4. Exists' /\ UnverifiedHasLink'
    BY <2>1, <2>2 DEF Exists, UnverifiedHasLink
  <2> QED
    BY <2>1, <2>2, <2>3, <2>4, WritesKeeps
<1>5. CASE WriteVerified(r)
  <2>1. /\ account' = [account EXCEPT !.verified = TRUE, !.status = "ACTIVE"]
        /\ Writes(r, "verify") /\ req[r].op = "verify"
        /\ invitation' = invitation
    BY <1>5 DEF WriteVerified, Writes
  <2>2. /\ account'.status = "ACTIVE" /\ account'.verified
        /\ account'.via = account.via
    BY <1>1, <2>1 DEF Account
  <2>3. Exists
    BY <1>2, <2>1 DEF LinkInv
  <2>4. Exists' /\ UnverifiedHasLink'
    BY <2>2 DEF Exists, UnverifiedHasLink
  <2> QED
    BY <2>1, <2>2, <2>3, <2>4, WritesKeeps
<1>6. CASE WriteLink(r)
  <2>1. /\ UNCHANGED <<account, invitation>>
        /\ Writes(r, "renewLink") /\ req[r].op = "renewLink"
        /\ link' = IF link = "none" THEN "fresh" ELSE link
    BY <1>6 DEF WriteLink, Writes
  <2>2. Exists /\ Exists'
    BY <1>2, <2>1 DEF LinkInv, Exists
  <2>3. UnverifiedHasLink'
    BY <1>2, <2>1 DEF LinkInv, UnverifiedHasLink, Exists
  <2> QED
    BY <2>1, <2>2, <2>3, WritesKeeps
<1>7. CASE RegistrationConflict(r) \/ InvitationConflict(r) \/ WriteResend(r)
             \/ MemberConflict(r)
  <2>1. PICK op \in {"register", "invite", "resend", "createMember"} :
          Writes(r, op) /\ UNCHANGED <<account, link, invitation>>
    BY <1>7 DEF RegistrationConflict, InvitationConflict, WriteResend,
                MemberConflict, Throws
  <2>2. (Exists' <=> Exists) /\ UnverifiedHasLink' /\ (link' # "none" => Exists')
    BY <1>2, <2>1 DEF LinkInv, UnverifiedHasLink, Exists
  <2> QED
    BY <2>1, <2>2, WritesKeeps
<1>8. CASE CreateMember(r)
  <2>1. /\ ~Exists /\ req[r].op = "createMember"
        /\ account' = [status |-> "ACTIVE", verified |-> TRUE,
                       org |-> "inviting", deleted |-> FALSE,
                       via |-> req[r].inv]
        /\ req' = [req EXCEPT ![r].op = "accept"]
        /\ UNCHANGED <<link, invitation, failures>>
    BY <1>8 DEF CreateMember
  <2>2. account'.verified /\ account'.via = req[r].inv /\ Exists'
    BY <2>1 DEF Exists
  <2>3. \A s \in Requests : s # r => req'[s] = req[s]
    BY <1>1, <2>1
  <2>4. req'[r].op = "accept" /\ req'[r].inv = req[r].inv
    BY <1>1, <2>1 DEF Request
  <2>5. LinkInv'
    BY <2>1, <2>2 DEF LinkInv, UnverifiedHasLink
  <2>6. \A s \in Requests : req[s].op # "accept"
    BY <1>2, <2>1 DEF InvitationInv
  <2>7. \A i \in Invitations : invitation[i] # "ACCEPTED"
    BY <1>2, <2>1, AccountsAssumption DEF InvitationInv
  <2>8. InvitationInv'
    BY <2>1, <2>2, <2>3, <2>4, <2>6, <2>7 DEF InvitationInv
  <2> QED
    BY <2>5, <2>8
<1>9. CASE MarkAccepted(r)
  <2>1. /\ req[r].op = "accept" /\ req' = [req EXCEPT ![r] = Idle]
        /\ invitation' = [invitation EXCEPT ![req[r].inv] = "ACCEPTED"]
        /\ UNCHANGED <<account, link, failures>>
    BY <1>9 DEF MarkAccepted, Writes
  <2>2. \A s \in Requests : req'[s] = req[s] \/ req'[s] = Idle
    BY <1>1, <2>1
  <2>3. Exists /\ account.via = req[r].inv
    BY <1>2, <2>1 DEF InvitationInv
  <2>4. account.via \in Invitations \union {NoInvitation}
    BY <1>1 DEF Account
  <2>5. LinkInv'
    BY <1>2, <2>1, <2>2
       DEF LinkInv, UnverifiedHasLink, Exists, Idle, MemberOp
  <2>6. \A i \in Invitations : invitation'[i] = "ACCEPTED"
          => invitation[i] = "ACCEPTED" \/ i = account.via
    BY <1>1, <2>1, <2>3
  <2>7. account.via \in Invitations => invitation'[account.via] = "ACCEPTED"
    BY <1>1, <2>1, <2>3
  <2>8. InvitationInv'
    BY <1>2, <2>1, <2>2, <2>3, <2>4, <2>6, <2>7 DEF InvitationInv, Exists, Idle
  <2> QED
    BY <2>5, <2>8
<1>10. CASE UpdateMember(r) \/ SuspendMember(r) \/ RemoveMember(r)
              \/ DeactivateMember(r) \/ ReactivateMember(r)
  <2>1. PICK op \in MemberOp, to \in UserStatus : FindMember(r, op, to)
    BY <1>10 DEF UpdateMember, SuspendMember, RemoveMember, DeactivateMember,
                 ReactivateMember, MemberOp, UserStatus
  <2>2. Exists /\ Reads(r, [Idle EXCEPT !.op = op, !.to = to])
    BY <2>1 DEF FindMember
  <2>3. [Idle EXCEPT !.op = op, !.to = to].op # "accept"
    BY DEF Idle, MemberOp
  <2> QED
    BY <2>2, <2>3, Jobs, ReadsKeeps
<1>11. CASE WriteMember(r)
  <2>1. PICK op \in MemberOp : Writes(r, op)
    BY <1>11 DEF WriteMember
  <2>2. Exists
    BY <1>2, <2>1 DEF Writes, LinkInv
  <2>3. req[r].to \in UserStatus
    BY <1>1 DEF Request
  <2>4. /\ account'.status = req[r].to /\ account'.via = account.via
        /\ account'.verified = account.verified
        /\ UNCHANGED <<link, invitation>>
    BY <1>1, <1>11 DEF WriteMember, Account
  <2>5. Exists' /\ UnverifiedHasLink'
    BY <1>2, <2>2, <2>3, <2>4
       DEF LinkInv, UnverifiedHasLink, Exists, UserStatus
  <2>6. op # "accept"
    BY DEF MemberOp
  <2> QED
    BY <2>1, <2>2, <2>4, <2>5, <2>6, WritesKeeps
<1>12. CASE Abort(r)
  <2>1. /\ req' = [req EXCEPT ![r] = Idle] /\ failures' = failures + 1
        /\ UNCHANGED <<account, link, invitation>>
    BY <1>12 DEF Abort
  <2>2. \A s \in Requests : req'[s] = req[s] \/ req'[s] = Idle
    BY <1>1, <2>1
  <2>3. failures' > 0
    BY <1>1, <2>1, AccountsAssumption
  <2>4. LinkInv'
    BY <1>2, <2>1, <2>2
       DEF LinkInv, UnverifiedHasLink, Exists, Idle, MemberOp
  <2>5. InvitationInv'
    BY <1>2, <2>1, <2>2, <2>3 DEF InvitationInv, Exists, Idle
  <2> QED
    BY <2>4, <2>5
<1> QED
  BY <1>3, <1>4, <1>5, <1>6, <1>7, <1>8, <1>9, <1>10, <1>11, <1>12 DEF Step

\* The invariant is inductive.
THEOREM Invariance == Spec => []IInv
<1>1. IInv /\ [Next]_vars => IInv'
  <2> SUFFICES ASSUME IInv, [Next]_vars
               PROVE  IInv'
    OBVIOUS
  <2>1. TypeOK'
    BY TypeInductive DEF IInv
  <2>2. ASSUME NEW r \in Requests, Step(r)
        PROVE  LinkInv' /\ InvitationInv'
    BY <2>2, StepKeeps
  <2>3. ASSUME NEW r \in Requests, NEW i \in Invitations, InvitationStep(r, i)
        PROVE  LinkInv' /\ InvitationInv'
    <3>1. CASE WriteInvitation(r, i)
      <4>1. /\ Writes(r, "invite") /\ invitation[i] = "NONE"
            /\ invitation' = [invitation EXCEPT ![i] = "PENDING"]
            /\ UNCHANGED <<account, link>>
        BY <3>1 DEF WriteInvitation
      <4>2. \A j \in Invitations : invitation'[j] # invitation[j]
              => invitation[j] = "NONE" /\ invitation'[j] = "PENDING"
        BY <4>1 DEF IInv, TypeOK
      <4>3. (Exists' <=> Exists) /\ UnverifiedHasLink'
              /\ (link' # "none" => Exists')
        BY <4>1 DEF IInv, LinkInv, UnverifiedHasLink, Exists
      <4> QED
        BY <4>1, <4>2, <4>3, WritesKeeps
    <3>2. CASE ResendInvitation(r, i) \/ AcceptInvitation(r, i)
      <4>1. PICK op \in {"resend", "createMember"} :
              Reads(r, [Idle EXCEPT !.op = op, !.inv = i])
        BY <3>2 DEF ResendInvitation, AcceptInvitation
      <4>2. [Idle EXCEPT !.op = op, !.inv = i].op = op
        BY DEF Idle
      <4> QED
        BY <4>1, <4>2, Jobs, ReadsKeeps DEF MemberOp
    <3> QED
      BY <2>3, <3>1, <3>2 DEF InvitationStep
  <2>4. CASE Admin
    <3>1. PICK row \in Account :
            /\ AdminWrites(row)
            /\ row.status # "ABSENT"
            /\ row.via = account.via
            /\ row.verified \/ (Exists /\ row.verified = account.verified)
      <4>1. CASE CreateUser
        <5>1. account.via = NoInvitation
          BY <4>1 DEF IInv, InvitationInv, CreateUser
        <5>2. PICK org \in {"none", "inviting"} :
                AdminWrites([Absent EXCEPT !.status = "ACTIVE",
                                           !.verified = TRUE, !.org = org])
          BY <4>1 DEF CreateUser
        <5> DEFINE row == [Absent EXCEPT !.status = "ACTIVE",
                                         !.verified = TRUE, !.org = org]
        <5>3. row \in Account
          BY AccountsAssumption DEF Absent, Account, UserStatus, Org
        <5>4. row.status = "ACTIVE" /\ row.via = NoInvitation /\ row.verified
          BY DEF Absent
        <5> QED
          BY <5>1, <5>2, <5>3, <5>4
      <4>2. CASE UpdateUser \/ SetUserStatus \/ DeleteUser \/ VerifyUserEmail
        <5>1. account \in Account /\ Exists /\ account.status # "ABSENT"
          BY <4>2 DEF UpdateUser, SetUserStatus, DeleteUser, VerifyUserEmail,
                      Exists, IInv, TypeOK
        <5>2. CASE UpdateUser
          BY <5>1, <5>2 DEF UpdateUser, Account
        <5>3. CASE SetUserStatus
          BY <5>1, <5>3 DEF SetUserStatus, Account, UserStatus
        <5>4. CASE DeleteUser
          <6> DEFINE row == [account EXCEPT !.deleted = TRUE,
                                            !.status = "INACTIVE"]
          <6>1. row \in Account
            BY <5>1 DEF Account, UserStatus
          <6>2. /\ row.status = "INACTIVE" /\ row.via = account.via
                /\ row.verified = account.verified
            BY <5>1 DEF Account
          <6>3. AdminWrites(row)
            BY <5>4 DEF DeleteUser
          <6> QED
            BY <5>1, <6>1, <6>2, <6>3
        <5>5. CASE VerifyUserEmail
          <6> DEFINE row == [account EXCEPT !.verified = TRUE,
                                            !.status = "ACTIVE"]
          <6>1. row \in Account
            BY <5>1 DEF Account, UserStatus
          <6>2. /\ row.status = "ACTIVE" /\ row.via = account.via
                /\ row.verified
            BY <5>1 DEF Account
          <6>3. AdminWrites(row)
            BY <5>5 DEF VerifyUserEmail
          <6> QED
            BY <6>1, <6>2, <6>3
        <5> QED
          BY <4>2, <5>2, <5>3, <5>4, <5>5
      <4> QED
        BY <2>4, <4>1, <4>2 DEF Admin
    <3>2. account' = row /\ UNCHANGED <<link, invitation, req, failures>>
      BY <3>1 DEF AdminWrites
    <3>3. LinkInv'
      BY <3>1, <3>2 DEF IInv, LinkInv, UnverifiedHasLink, Exists
    <3>4. InvitationInv'
      BY <3>1, <3>2 DEF IInv, InvitationInv, Exists
    <3> QED
      BY <2>1, <3>3, <3>4 DEF IInv
  <2>5. CASE UNCHANGED vars
    BY <2>5 DEF vars, IInv, TypeOK, LinkInv, InvitationInv, UnverifiedHasLink,
                Exists
  <2> QED
    BY <2>1, <2>2, <2>3, <2>4, <2>5 DEF Next, IInv
<1> QED
  BY <1>1, InitIInv, PTL DEF Spec

\* Nobody is locked out with an unverified account and a used link.
THEOREM NobodyLockedOut == Spec => []UnverifiedHasLink
<1>1. IInv => UnverifiedHasLink
  BY DEF IInv, LinkInv
<1> QED
  BY <1>1, Invariance, PTL

\* Accepted invitations and the account they made agree.
THEOREM InvitationAgrees == Spec => []InvitationMatchesAccount
<1>1. IInv => InvitationMatchesAccount
  BY DEF IInv, InvitationInv, InvitationMatchesAccount
<1> QED
  BY <1>1, Invariance, PTL

\* An accepted invitation stays accepted: only an unused row is written as
\* pending.
THEOREM AcceptanceIsKept == Spec => AcceptedIsFinal
<1> DEFINE Kept == \A i \in Invitations :
                     invitation[i] = "ACCEPTED" => invitation'[i] = "ACCEPTED"
<1>1. TypeOK /\ [Next]_vars => [Kept]_vars
  <2> SUFFICES ASSUME TypeOK, [Next]_vars
               PROVE  Kept
    OBVIOUS
  <2>1. invitation \in [Invitations -> {"NONE", "PENDING", "ACCEPTED"}]
    BY DEF TypeOK
  <2>2. ASSUME NEW r \in Requests, Step(r)
        PROVE  Kept
    <3>1. CASE MarkAccepted(r)
      BY <2>1, <3>1 DEF MarkAccepted
    <3>2. CASE ~MarkAccepted(r)
      <4>1. invitation' = invitation
        BY <2>2, <3>2
           DEF Step, Register, WriteRegistration, RegistrationConflict,
               VerifyEmail, WriteVerified, ResendVerification, WriteLink,
               CreateInvitation, InvitationConflict, WriteResend, CreateMember,
               MemberConflict, UpdateMember, SuspendMember, RemoveMember,
               DeactivateMember, ReactivateMember, FindMember, WriteMember,
               Abort, Reads, Throws
      <4> QED
        BY <4>1
    <3> QED
      BY <3>1, <3>2
  <2>3. ASSUME NEW r \in Requests, NEW i \in Invitations, InvitationStep(r, i)
        PROVE  Kept
    BY <2>1, <2>3 DEF InvitationStep, WriteInvitation, ResendInvitation,
                      AcceptInvitation, Reads
  <2>4. CASE Admin
    BY <2>4 DEF Admin, AdminWrites, CreateUser, UpdateUser, SetUserStatus,
                DeleteUser, VerifyUserEmail
  <2>5. CASE UNCHANGED vars
    BY <2>5 DEF vars
  <2> QED
    BY <2>2, <2>3, <2>4, <2>5 DEF Next
<1> QED
  BY <1>1, TypeCorrect, PTL DEF Spec, AcceptedIsFinal

-----------------------------------------------------------------------------
(* The tenant. *)

Values == 0 .. MaxActs

TransferCall == [op : {"demote"}, member : Members, seen : SUBSET Members, late : BOOLEAN]

CommandCall == [op : MemberOps, member : Members, role : Roles, status : MemberStatus]

ProfileCall == [op : {"profile"}, fields : SUBSET Facts, row : [Facts -> Values],
                value : Values]

OfficeCall == {AtDesk} \cup [op : {"transfer"}, member : Members] \cup TransferCall
              \cup CommandCall \cup ProfileCall

TenantTypes == TenantTypeOK /\ office \in [Offices -> OfficeCall]

\* A transfer under way saw every owner there is, or is late; and one update
\* of the profile at most, of what it still says.
TransfersSee ==
  \A o \in Offices : office[o].op = "demote" =>
    office[o].late \/ Owners \subseteq office[o].seen

ProfileInv ==
  ~patched =>
    /\ profile = told
    /\ \A o \in Offices : office[o].op = "profile" => office[o].row = profile
    /\ \A o, p \in Offices :
         office[o].op = "profile" /\ office[p].op = "profile" => o = p

TenantInv == TenantTypes /\ OwnerKept /\ TransfersSee /\ ProfileInv

\* A request moves on, or begins, and is no transfer that has started; the
\* profile stays.
LEMMA OfficeStep ==
  ASSUME TenantInv, NEW o \in Offices, NEW request \in OfficeCall,
         office' = [office EXCEPT ![o] = request],
         request.op = "demote" => Owners \subseteq request.seen,
         request.op # "profile",
         acts' \in Values, UNCHANGED <<member, profile, left, shared, told, patched>>
  PROVE  TenantInv'
<1>1. TenantTypes'
  BY DEF TenantInv, TenantTypes, TenantTypeOK, Values
<1>2. OwnerKept' /\ Owners' = Owners
  BY DEF TenantInv, OwnerKept, Owners
<1>3. TransfersSee'
  BY <1>2 DEF TenantInv, TenantTypes, TransfersSee
<1>4. ProfileInv'
  BY DEF TenantInv, TenantTypes, ProfileInv
<1> QED
  BY <1>1, <1>2, <1>3, <1>4 DEF TenantInv

\* After an appointment transfers in progress are late, and requests are what
\* they were.
LEMMA AppointedLate ==
  ASSUME NEW offices \in [Offices -> OfficeCall]
  PROVE  /\ Appointed(offices) \in [Offices -> OfficeCall]
         /\ \A p \in Offices : Appointed(offices)[p].op = "demote" => Appointed(offices)[p].late
         /\ \A p \in Offices :
              \/ Appointed(offices)[p] = offices[p]
              \/ offices[p].op = "demote" /\ Appointed(offices)[p].op = "demote"
<1> SUFFICES ASSUME NEW p \in Offices
             PROVE  /\ Appointed(offices)[p] \in OfficeCall
                    /\ Appointed(offices)[p].op = "demote" => Appointed(offices)[p].late
                    /\ \/ Appointed(offices)[p] = offices[p]
                       \/ offices[p].op = "demote" /\ Appointed(offices)[p].op = "demote"
  BY DEF Appointed
<1>1. CASE offices[p].op = "demote"
  <2>1. offices[p] \in TransferCall
    BY <1>1 DEF OfficeCall, AtDesk, CommandCall, ProfileCall, MemberOps, TransferCall
  <2>2. Appointed(offices)[p] = [offices[p] EXCEPT !.late = TRUE]
    BY <1>1 DEF Appointed
  <2>3. [offices[p] EXCEPT !.late = TRUE] \in TransferCall
    BY <2>1 DEF TransferCall
  <2> QED
    BY <1>1, <2>1, <2>2, <2>3 DEF OfficeCall, TransferCall
<1>2. CASE offices[p].op # "demote"
  <2>1. Appointed(offices)[p] = offices[p]
    BY <1>2 DEF Appointed
  <2>2. offices[p] \in OfficeCall
    OBVIOUS
  <2> QED
    BY <1>2, <2>1, <2>2
<1> QED
  BY <1>1, <1>2

\* A row is written, and what requests are about the profile stays.
LEMMA RowStep ==
  ASSUME TenantInv, NEW m \in Members, NEW row \in MemberRow,
         NEW offices \in [Offices -> OfficeCall], WritesRow(m, row, offices),
         \A p \in Offices : offices[p] = office[p] \/ offices[p].op = "none",
         acts' \in Values
  PROVE  TenantInv'
<1> DEFINE appoints == Owning(row) /\ ~Owning(member[m])
           takes == Owning(member[m]) /\ (row.status # "ACTIVE" \/ ~Owning(row))
<1>1. /\ TenantTypes /\ OwnerKept /\ TransfersSee /\ ProfileInv /\ TenantTypeOK
      /\ member \in [Members -> MemberRow] /\ left \in BOOLEAN /\ shared \in BOOLEAN
  BY DEF TenantInv, TenantTypes, TenantTypeOK
<1>2. /\ member' = [member EXCEPT ![m] = row]
      /\ office' = IF appoints THEN Appointed(offices) ELSE offices
      /\ UNCHANGED <<profile, told, patched>>
  BY DEF WritesRow
<1>3. /\ left' \in BOOLEAN /\ shared' \in BOOLEAN
      /\ ~left' => ~left /\ ~takes
      /\ ~shared' => ~shared /\ ~appoints
  BY <1>1 DEF WritesRow
<1> HIDE DEF appoints, takes
<1>4. /\ office' \in [Offices -> OfficeCall]
      /\ \A p \in Offices : \/ office'[p] = office[p]
                            \/ office'[p].op = "none"
                            \/ office[p].op = "demote" /\ office'[p].op = "demote"
      /\ appoints => \A p \in Offices : office'[p].op = "demote" => office'[p].late
      /\ ~appoints => office' = offices
  BY <1>2, AppointedLate
<1>5. TenantTypes'
  BY <1>1, <1>2, <1>3, <1>4 DEF TenantTypes, TenantTypeOK, Values
<1>6. /\ m \in Owners <=> Owning(member[m])
      /\ m \in Owners' <=> Owning(row)
      /\ \A n \in Members \ {m} : n \in Owners' <=> n \in Owners
      /\ Owners \subseteq Members /\ Owners' \subseteq Members
  BY <1>1, <1>2 DEF Owners, Owning
<1>7. ~appoints => Owners' \subseteq Owners
  BY <1>6 DEF appoints
<1>8. ~appoints /\ ~takes => Owners' = Owners
  BY <1>6 DEF appoints, takes
<1>9. OwnerKept'
  <2>1. ASSUME ~left'
        PROVE  \E n \in Owners' : member'[n].status = "ACTIVE"
    <3>1. PICK n \in Owners : member[n].status = "ACTIVE"
      BY <1>1, <1>3, <2>1 DEF OwnerKept
    <3>2. n \in Owners'
      BY <1>3, <1>6, <2>1 DEF takes
    <3>3. member'[n].status = "ACTIVE"
      BY <1>1, <1>2, <1>3, <1>6, <2>1, <3>1 DEF takes
    <3> QED
      BY <3>2, <3>3
  <2>2. ~left' /\ ~shared' => Cardinality(Owners') = 1
    BY <1>1, <1>3, <1>8 DEF OwnerKept
  <2> QED
    BY <2>1, <2>2 DEF OwnerKept
<1>10. TransfersSee'
  <2> SUFFICES ASSUME NEW p \in Offices, office'[p].op = "demote", ~office'[p].late
               PROVE  Owners' \subseteq office'[p].seen
    BY DEF TransfersSee
  <2>1. ~appoints /\ office' = offices
    BY <1>4
  <2>2. office'[p] = office[p]
    BY <2>1
  <2>3. Owners \subseteq office[p].seen
    BY <1>1, <2>2 DEF TransfersSee
  <2> QED
    BY <1>7, <2>1, <2>2, <2>3
<1>11. ProfileInv'
  <2>1. \A p \in Offices : office'[p].op = "profile" => office'[p] = office[p]
    BY <1>4
  <2> QED
    BY <1>1, <1>2, <2>1 DEF ProfileInv
<1> QED
  BY <1>5, <1>9, <1>10, <1>11 DEF TenantInv

\* A transfer commits: whom it did not see became owner since it started, and
\* then it is late.
LEMMA TransferStep ==
  ASSUME TenantInv, NEW o \in Offices, CommitTransfer(o)
  PROVE  TenantInv'
<1> DEFINE t == office[o].member
           offices == [office EXCEPT ![o] = AtDesk]
<1>1. /\ TenantTypes /\ TransfersSee /\ ProfileInv /\ TenantTypeOK
      /\ member \in [Members -> MemberRow] /\ office \in [Offices -> OfficeCall]
  BY DEF TenantInv, TenantTypes, TenantTypeOK
<1>2. office[o] \in TransferCall /\ office[o].op = "demote"
  BY <1>1 DEF CommitTransfer, OfficeCall, AtDesk, CommandCall, ProfileCall, MemberOps,
              TransferCall
<1>3. t \in Members /\ office[o].late \in BOOLEAN
  BY <1>2 DEF TransferCall
<1>4. /\ member' = Transferred(o) /\ office' = Appointed(offices)
      /\ left' = (member[t].org # "in") /\ shared' = office[o].late
      /\ UNCHANGED <<profile, acts, told, patched>>
  BY DEF CommitTransfer
<1>5. offices \in [Offices -> OfficeCall] /\ AtDesk.op = "none"
  BY <1>1 DEF OfficeCall, AtDesk
<1>6. /\ office' \in [Offices -> OfficeCall]
      /\ \A p \in Offices : office'[p].op = "demote" => office'[p].late
      /\ \A p \in Offices : office'[p].op = "profile" => office'[p] = office[p]
  BY <1>4, <1>5, AppointedLate
<1> HIDE DEF t, offices
<1>7. /\ member'[t] = [(IF t \in office[o].seen \cap Owners
                        THEN [member[t] EXCEPT !.role = "SUPPORT_AGENT"] ELSE member[t])
                       EXCEPT !.role = "TENANT_OWNER", !.status = "ACTIVE"]
      /\ \A m \in Members \ {t} :
           member'[m] = IF m \in office[o].seen \cap Owners
                        THEN [member[m] EXCEPT !.role = "SUPPORT_AGENT"] ELSE member[m]
      /\ DOMAIN member' = Members
  BY <1>3, <1>4 DEF Transferred, t
<1>8. /\ member'[t].role = "TENANT_OWNER" /\ member'[t].status = "ACTIVE"
      /\ member'[t].org = member[t].org /\ member'[t] \in MemberRow
  <2> DEFINE old == IF t \in office[o].seen \cap Owners
                    THEN [member[t] EXCEPT !.role = "SUPPORT_AGENT"] ELSE member[t]
  <2>1. member[t] \in MemberRow
    BY <1>1, <1>3
  <2>2. old \in MemberRow /\ old.org = member[t].org
    BY <2>1 DEF MemberRow, Roles
  <2>3. member'[t] = [old EXCEPT !.role = "TENANT_OWNER", !.status = "ACTIVE"]
    BY <1>7
  <2> HIDE DEF old
  <2> QED
    BY <2>2, <2>3 DEF MemberRow, Roles, MemberStatus
<1>9. ASSUME NEW m \in Members \ {t}
      PROVE  /\ member'[m] \in MemberRow
             /\ m \in Owners' => m \in Owners /\ m \notin office[o].seen
  BY <1>1, <1>7 DEF MemberRow, Roles, Owners
<1>10. member' \in [Members -> MemberRow]
  <2>1. member' = [m \in Members |-> member'[m]]
    BY <1>4 DEF Transferred
  <2> QED
    BY <1>8, <1>9, <2>1
<1>11. TenantTypes'
  BY <1>1, <1>3, <1>4, <1>6, <1>10 DEF TenantTypes, TenantTypeOK
<1>12. ~left' => t \in Owners' /\ member'[t].status = "ACTIVE"
  BY <1>3, <1>4, <1>8 DEF Owners
<1>13. ~shared' => Owners' \subseteq {t}
  <2> SUFFICES ASSUME ~office[o].late, NEW m \in Owners', m # t
               PROVE  FALSE
    BY <1>4
  <2>1. m \in Members
    BY DEF Owners
  <2>2. Owners \subseteq office[o].seen
    BY <1>1, <1>2 DEF TransfersSee
  <2> QED
    BY <1>9, <2>1, <2>2
<1>14. ~left' /\ ~shared' => Cardinality(Owners') = 1
  <2>1. ~left' /\ ~shared' => Owners' = {t}
    BY <1>12, <1>13
  <2> QED
    BY <2>1, FS_Singleton
<1>15. OwnerKept'
  BY <1>12, <1>14 DEF OwnerKept
<1>16. TransfersSee'
  BY <1>6 DEF TransfersSee
<1>17. ProfileInv'
  BY <1>1, <1>4, <1>6 DEF ProfileInv
<1> QED
  BY <1>11, <1>15, <1>16, <1>17 DEF TenantInv

\* What a command makes of a row is a row, and so is what the platform writes.
LEMMA RowsWritten ==
  ASSUME NEW row \in MemberRow
  PROVE  /\ \A request \in CommandCall : CommandedRow(row, request) \in MemberRow
         /\ PlatformRows(row) \subseteq MemberRow
         /\ \A role \in Roles : Joined(role) \in MemberRow
<1>1. ASSUME NEW request \in CommandCall
      PROVE  CommandedRow(row, request) \in MemberRow
  <2>1. request.op \in MemberOps /\ request.role \in Roles /\ request.status \in MemberStatus
    BY DEF CommandCall
  <2>2. CASE request.op = "update"
    BY <2>1, <2>2 DEF CommandedRow, MemberRow
  <2>3. CASE request.op = "suspend"
    BY <2>1, <2>3 DEF CommandedRow, MemberRow
  <2>4. CASE request.op = "remove"
    BY <2>1, <2>4 DEF CommandedRow, MemberRow, MemberStatus
  <2>5. CASE request.op = "deactivate"
    BY <2>1, <2>5 DEF CommandedRow, MemberRow, MemberStatus
  <2>6. CASE request.op = "reactivate"
    BY <2>1, <2>6 DEF CommandedRow, MemberRow, MemberStatus
  <2> QED
    BY <2>1, <2>2, <2>3, <2>4, <2>5, <2>6 DEF MemberOps
<1>2. PlatformRows(row) \subseteq MemberRow
  <2>1. \A status \in {"ACTIVE", "SUSPENDED"} : [row EXCEPT !.status = status] \in MemberRow
    BY DEF MemberRow, MemberStatus
  <2>2. [row EXCEPT !.deleted = TRUE, !.status = "INACTIVE"] \in MemberRow
    BY DEF MemberRow, MemberStatus
  <2>3. [org : {"in", "out"}, role : Roles, status : {row.status}, deleted : {row.deleted}]
          \subseteq MemberRow
    BY DEF MemberRow
  <2> QED
    BY <2>1, <2>2, <2>3 DEF PlatformRows
<1>3. \A role \in Roles : Joined(role) \in MemberRow
  BY DEF Joined, MemberRow, MemberStatus
<1> QED
  BY <1>1, <1>2, <1>3

LEMMA TenantInductive == TenantInv /\ [TenantNext]_tenantVars => TenantInv'
<1> SUFFICES ASSUME TenantInv, [TenantNext]_tenantVars
             PROVE  TenantInv'
  OBVIOUS
<1> USE TenantsAssumption
<1>0. /\ TenantTypes /\ OwnerKept /\ TransfersSee /\ ProfileInv /\ TenantTypeOK
      /\ member \in [Members -> MemberRow] /\ office \in [Offices -> OfficeCall]
      /\ acts \in Values /\ profile \in [Facts -> Values] /\ told \in [Facts -> Values]
      /\ AtDesk \in OfficeCall /\ AtDesk.op = "none"
  BY DEF TenantInv, TenantTypes, TenantTypeOK, Values, OfficeCall, AtDesk
<1>1. acts < MaxActs => acts + 1 \in Values
  BY <1>0 DEF Values
<1>2. ASSUME NEW m \in Members, NEW role \in Roles, Join(m, role)
      PROVE  TenantInv'
  <2>1. Joined(role) \in MemberRow /\ acts' \in Values
    BY <1>0, <1>1, <1>2, RowsWritten DEF Join
  <2> QED
    BY <1>0, <1>2, <2>1, RowStep DEF Join
<1>3. ASSUME NEW m \in Members, NEW row \in PlatformRows(member[m]),
             WriteByPlatform(m, row)
      PROVE  TenantInv'
  <2>1. row \in MemberRow /\ acts' \in Values
    BY <1>0, <1>1, <1>3, RowsWritten DEF WriteByPlatform
  <2> QED
    BY <1>0, <1>3, <2>1, RowStep DEF WriteByPlatform
<1>4. ASSUME NEW o \in Offices, NEW m \in Members, BeginTransfer(o, m)
      PROVE  TenantInv'
  <2>1. /\ [op |-> "transfer", member |-> m] \in OfficeCall
        /\ acts' \in Values
    BY <1>1, <1>4 DEF BeginTransfer, BeginsAct, OfficeCall
  <2> QED
    BY <1>0, <1>4, <2>1, OfficeStep DEF BeginTransfer, BeginsAct
<1>5. ASSUME NEW o \in Offices, NEW m \in Members, NEW op \in MemberOps,
             NEW role \in Roles, NEW status \in MemberStatus,
             BeginMember(o, m, op, role, status)
      PROVE  TenantInv'
  <2> DEFINE request == [op |-> op, member |-> m, role |-> role, status |-> status]
  <2>1. request \in OfficeCall /\ request.op \notin {"demote", "profile"}
    BY DEF OfficeCall, CommandCall, MemberOps
  <2>2. acts' \in Values /\ office' = [office EXCEPT ![o] = request]
    BY <1>1, <1>5 DEF BeginMember, BeginsAct
  <2> HIDE DEF request
  <2> QED
    BY <1>0, <1>5, <2>1, <2>2, OfficeStep DEF BeginMember
<1>6. ASSUME NEW o \in Offices, NEW fields \in SUBSET Facts, BeginProfile(o, fields)
      PROVE  TenantInv'
  <2> DEFINE request == [op |-> "profile", fields |-> fields, row |-> profile,
                         value |-> acts + 1]
  <2>1. acts + 1 \in Values /\ acts' = acts + 1 /\ office' = [office EXCEPT ![o] = request]
    BY <1>1, <1>6 DEF BeginProfile, BeginsAct
  <2>2. request \in OfficeCall
    BY <1>0, <2>1 DEF OfficeCall, ProfileCall
  <2>3. UNCHANGED <<member, profile, left, shared, told>>
    BY <1>6 DEF BeginProfile
  <2>4. /\ patched' \in BOOLEAN
        /\ ~patched' => ~patched /\ \A p \in Offices : office[p].op # "profile"
    BY <1>0, <1>6 DEF BeginProfile, TenantTypeOK
  <2>5. request.op = "profile" /\ request.row = profile
    OBVIOUS
  <2> HIDE DEF request
  <2>6. /\ office' \in [Offices -> OfficeCall] /\ office'[o] = request
        /\ \A p \in Offices \ {o} : office'[p] = office[p]
    BY <1>0, <2>1, <2>2
  <2>7. TenantTypes'
    BY <1>0, <2>1, <2>3, <2>4, <2>6 DEF TenantTypes, TenantTypeOK, Values
  <2>8. OwnerKept' /\ Owners' = Owners
    BY <1>0, <2>3 DEF OwnerKept, Owners
  <2>9. TransfersSee'
    BY <1>0, <2>5, <2>6, <2>8 DEF TransfersSee
  <2>10. ProfileInv'
    BY <1>0, <2>3, <2>4, <2>5, <2>6 DEF ProfileInv
  <2> QED
    BY <2>7, <2>8, <2>9, <2>10 DEF TenantInv
<1>7. ASSUME NEW o \in Offices, StartTransfer(o)
      PROVE  TenantInv'
  <2> DEFINE request == [op |-> "demote", member |-> office[o].member, seen |-> Owners,
                         late |-> FALSE]
  <2>1. office[o].member \in Members
    BY <1>0, <1>7 DEF StartTransfer, OfficeCall, AtDesk, TransferCall, CommandCall,
                      ProfileCall, MemberOps
  <2>2. request \in OfficeCall
    BY <2>1 DEF OfficeCall, TransferCall, Owners
  <2>3. /\ office' = [office EXCEPT ![o] = request]
        /\ UNCHANGED <<member, profile, acts, left, shared, told, patched>>
    BY <1>7 DEF StartTransfer
  <2> QED
    BY <1>0, <2>2, <2>3, OfficeStep
<1>8. ASSUME NEW o \in Offices, CommitTransfer(o)
      PROVE  TenantInv'
  BY <1>8, TransferStep
<1>9. ASSUME NEW o \in Offices, WriteCommand(o)
      PROVE  TenantInv'
  <2> DEFINE m == office[o].member
             row == CommandedRow(member[m], office[o])
             offices == [office EXCEPT ![o] = AtDesk]
  <2>1. office[o] \in CommandCall
    BY <1>0, <1>9 DEF WriteCommand, OfficeCall, AtDesk, TransferCall, CommandCall,
                      ProfileCall, MemberOps
  <2>2. m \in Members
    BY <2>1 DEF CommandCall
  <2>3. row \in MemberRow
    BY <1>0, <2>1, <2>2, RowsWritten
  <2>4. /\ offices \in [Offices -> OfficeCall]
        /\ \A p \in Offices : offices[p] = office[p] \/ offices[p].op = "none"
    BY <1>0
  <2>5. WritesRow(m, row, offices) /\ acts' \in Values
    BY <1>0, <1>9 DEF WriteCommand
  <2> HIDE DEF m, row, offices
  <2> QED
    BY <2>2, <2>3, <2>4, <2>5, RowStep
<1>10. ASSUME NEW o \in Offices, WriteProfile(o)
       PROVE  TenantInv'
  <2> DEFINE Value(f, old) == IF f \in office[o].fields THEN office[o].value ELSE old[f]
  <2>1. office[o] \in ProfileCall /\ office[o].op = "profile"
    BY <1>0, <1>10 DEF WriteProfile, OfficeCall, AtDesk, TransferCall, CommandCall,
                       ProfileCall, MemberOps
  <2>2. /\ profile' = [f \in Facts |-> Value(f, office[o].row)]
        /\ told' = [f \in Facts |-> Value(f, told)]
        /\ office' = [office EXCEPT ![o] = AtDesk]
        /\ UNCHANGED <<member, acts, left, shared, patched>>
    BY <1>10 DEF WriteProfile
  <2>3. profile' \in [Facts -> Values] /\ told' \in [Facts -> Values]
    BY <1>0, <2>1, <2>2 DEF ProfileCall
  <2>4. /\ office' \in [Offices -> OfficeCall] /\ office'[o] = AtDesk
        /\ \A p \in Offices \ {o} : office'[p] = office[p]
    BY <1>0, <2>2
  <2>5. TenantTypes'
    BY <1>0, <2>2, <2>3, <2>4 DEF TenantTypes, TenantTypeOK, Values
  <2>6. OwnerKept' /\ Owners' = Owners
    BY <1>0, <2>2 DEF OwnerKept, Owners
  <2>7. TransfersSee'
    BY <1>0, <2>4, <2>6 DEF TransfersSee
  <2>8. ~patched => office[o].row = told
    BY <1>0, <2>1 DEF ProfileInv
  <2>9. ~patched => profile' = told'
    BY <2>2, <2>8
  <2>10. ProfileInv'
    BY <1>0, <2>1, <2>2, <2>4, <2>9 DEF ProfileInv
  <2> QED
    BY <2>5, <2>6, <2>7, <2>10 DEF TenantInv
<1>11. ASSUME NEW o \in Offices, FailOffice(o)
       PROVE  TenantInv'
  BY <1>0, <1>11, OfficeStep DEF FailOffice
<1>12. CASE UNCHANGED tenantVars
  <2>1. TenantTypes'
    BY <1>0, <1>12 DEF tenantVars, TenantTypes, TenantTypeOK
  <2>2. OwnerKept' /\ TransfersSee' /\ ProfileInv'
    BY <1>0, <1>12 DEF tenantVars, OwnerKept, TransfersSee, ProfileInv, Owners
  <2> QED
    BY <2>1, <2>2 DEF TenantInv
<1>13. ASSUME NEW o \in Offices, NEW m \in Members,
              \/ \E role \in Roles, status \in {"ACTIVE", "SUSPENDED", member[m].status} :
                   BeginMember(o, m, "update", role, status)
              \/ \E status \in MemberStatus :
                   BeginMember(o, m, "suspend", member[m].role, status)
              \/ \E op \in {"remove", "deactivate", "reactivate"} :
                   BeginMember(o, m, op, member[m].role, member[m].status)
       PROVE  TenantInv'
  <2>1. member[m].role \in Roles /\ member[m].status \in MemberStatus
    BY <1>0 DEF MemberRow
  <2>2. {"ACTIVE", "SUSPENDED", member[m].status} \subseteq MemberStatus
    BY <2>1 DEF MemberStatus
  <2>3. {"update", "suspend", "remove", "deactivate", "reactivate"} = MemberOps
    BY DEF MemberOps
  <2> QED
    BY <1>5, <1>13, <2>1, <2>2, <2>3
<1> QED
  BY <1>2, <1>3, <1>4, <1>6, <1>7, <1>8, <1>9, <1>10, <1>11, <1>12, <1>13 DEF TenantNext

LEMMA TenantInitially == TenantInit => TenantInv
<1> SUFFICES ASSUME TenantInit
             PROVE  TenantInv
  OBVIOUS
<1> USE TenantsAssumption
<1>1. PICK joined \in SUBSET (Members \ {Founder}) :
        member = [m \in Members |->
          IF m = Founder THEN Joined("TENANT_OWNER")
          ELSE IF m \in joined THEN Joined("SUPPORT_AGENT")
          ELSE [Joined("CUSTOMER") EXCEPT !.org = "absent"]]
  BY DEF TenantInit
<1>2. member \in [Members -> MemberRow]
  BY <1>1 DEF Joined, MemberRow, Roles, MemberStatus
<1>3. Owners = {Founder} /\ member[Founder].status = "ACTIVE"
  BY <1>1 DEF Owners, Joined
<1>4. OwnerKept
  <2>1. Cardinality(Owners) = 1
    BY <1>3, FS_Singleton
  <2> QED
    BY <1>3, <2>1 DEF OwnerKept
<1>5. acts \in 0 .. MaxActs /\ profile \in [Facts -> 0 .. MaxActs]
      /\ told \in [Facts -> 0 .. MaxActs]
  BY DEF TenantInit
<1>6. TenantTypes
  BY <1>2, <1>5 DEF TenantInit, TenantTypes, TenantTypeOK, OfficeCall
<1>7. TransfersSee /\ ProfileInv
  BY DEF TenantInit, TransfersSee, ProfileInv, AtDesk
<1> QED
  BY <1>4, <1>6, <1>7 DEF TenantInv

LEMMA TenantAlways == TenantSpec => []TenantInv
BY TenantInitially, TenantInductive, PTL DEF TenantSpec

\* Every reachable state of the tenant is well typed.
THEOREM TenantTypeCorrect == TenantSpec => []TenantTypeOK
<1>1. TenantInv => TenantTypeOK
  BY DEF TenantInv, TenantTypes
<1> QED
  BY <1>1, TenantAlways, PTL

\* However transfers, commands on members, appointments by the platform and
\* updates of the profile overlap, a tenant has an active owner and after a
\* transfer one only, and the profile says what it was last told, but for the
\* cases the property names.
THEOREM TenantStands == TenantSpec => []TenantKept
<1>1. TenantInv => TenantKept
  BY DEF TenantInv, TenantKept, ProfileInv, ProfileKept
<1> QED
  BY <1>1, TenantAlways, PTL
-----------------------------------------------------------------------------
(* The sessions. *)

\* What a request remembers is well typed, when it begins and when it goes on.
LEMMA BeginsType ==
  ASSUME SessionTypeOK, NEW h \in Handlers, NEW job \in Handler, Begins(h, job)
  PROVE  /\ handler' \in [Handlers -> Handler]
         /\ deaths' \in 0 .. MaxDeaths
BY DEF SessionTypeOK, Begins

LEMMA ContinuesType ==
  ASSUME SessionTypeOK, NEW h \in Handlers, NEW op,
         NEW next \in {"idle", "issue", "useLink"}, Continues(h, op, next)
  PROVE  /\ handler' \in [Handlers -> Handler]
         /\ deaths' \in 0 .. MaxDeaths
<1>1. AtRest \in Handler
  BY DEF AtRest, Handler
<1>2. [handler[h] EXCEPT !.op = next] \in Handler
  BY DEF SessionTypeOK, Handler
<1> QED
  BY <1>1, <1>2 DEF SessionTypeOK, Continues

LEMMA JobsType ==
  /\ \A op \in {"issue", "logoutAll"} : [AtRest EXCEPT !.op = op] \in Handler
  /\ \A t \in Tokens :
       [AtRest EXCEPT !.op = "revoke", !.tok = t] \in Handler
  /\ \A l \in Links :
       [AtRest EXCEPT !.op = "setPassword", !.link = l] \in Handler
BY DEF AtRest, Handler

\* The types are inductive.
LEMMA SessionTypeInductive ==
  SessionTypeOK /\ [SessionNext]_sessionVars => SessionTypeOK'
<1> SUFFICES ASSUME SessionTypeOK, [SessionNext]_sessionVars
             PROVE  SessionTypeOK'
  OBVIOUS
<1> USE DEF SessionTypeOK
<1>1. ASSUME NEW h \in Handlers, SessionStep(h)
      PROVE  SessionTypeOK'
  <2>1. CASE Login(h) \/ DeleteAndLogout(h) \/ ResetAndLogout(h)
    BY <2>1, JobsType, BeginsType DEF Login, DeleteAndLogout, ResetAndLogout
  <2>2. CASE RevokeRefreshToken(h)
    <3>1. token' \in [Tokens -> Token]
      BY <2>2 DEF RevokeRefreshToken, WithStatus, Token
    <3> QED
      BY <2>2, <3>1, ContinuesType DEF RevokeRefreshToken
  <2>3. CASE SetPassword(h) \/ UseLink(h)
    <3>1. reset' \in [Links -> ResetLink]
      BY <2>3 DEF SetPassword, UseLink, ResetLink
    <3> QED
      BY <2>3, <3>1, ContinuesType DEF SetPassword, UseLink
  <2>4. CASE ForceLogout(h)
    <3>1. token' \in [Tokens -> Token]
      BY <2>4 DEF ForceLogout, Token
    <3> QED
      BY <2>4, <3>1, ContinuesType DEF ForceLogout
  <2>5. CASE Die(h)
    <3>1. AtRest \in Handler
      BY DEF AtRest, Handler
    <3> QED
      BY <2>5, <3>1, SessionsAssumption DEF Die
  <2> QED
    BY <1>1, <2>1, <2>2, <2>3, <2>4, <2>5 DEF SessionStep
<1>2. ASSUME NEW h \in Handlers, NEW t \in Tokens,
             Refresh(h, t) \/ CreateRefreshToken(h, t)
      PROVE  SessionTypeOK'
  <2>1. CASE Refresh(h, t)
    BY <2>1, JobsType, BeginsType DEF Refresh
  <2>2. CASE CreateRefreshToken(h, t)
    <3>1. token' \in [Tokens -> Token]
      BY <2>2 DEF CreateRefreshToken, Handler, Token
    <3> QED
      BY <2>2, <3>1, ContinuesType DEF CreateRefreshToken
  <2> QED
    BY <1>2, <2>1, <2>2
<1>3. ASSUME NEW h \in Handlers, NEW l \in Links, ValidateResetToken(h, l)
      PROVE  SessionTypeOK'
  BY <1>3, JobsType, BeginsType DEF ValidateResetToken
<1>4. ASSUME NEW t \in Tokens, Logout(t)
      PROVE  SessionTypeOK'
  BY <1>4 DEF Logout, WithStatus, Token
<1>5. ASSUME NEW l \in Links, ForgotPassword(l)
      PROVE  SessionTypeOK'
  BY <1>5 DEF ForgotPassword, ResetLink
<1>6. CASE SetActive \/ UNCHANGED sessionVars
  BY <1>6 DEF SetActive, sessionVars
<1> QED
  BY <1>1, <1>2, <1>3, <1>4, <1>5, <1>6 DEF SessionNext

\* Every reachable state is well typed.
THEOREM SessionTypeCorrect == SessionSpec => []SessionTypeOK
<1>1. SessionInit => SessionTypeOK
  BY SessionsAssumption
     DEF SessionInit, SessionTypeOK, Token, ResetLink, Handler, AtRest
<1> QED
  BY <1>1, SessionTypeInductive, PTL DEF SessionSpec
-----------------------------------------------------------------------------
(* Rotation.  The properties are about rows; what makes them inductive is   *)
(* what the requests in flight remember.                                    *)

\* A request about to revoke holds a token that exists, one about to issue a
\* successor holds a revoked one.
RotationInv ==
  /\ \A h \in Handlers :
       /\ handler[h].op = "revoke" => /\ handler[h].tok \in Tokens
                                      /\ token[handler[h].tok].status # "NONE"
       /\ handler[h].op = "issue" /\ handler[h].tok # NoToken
            => token[handler[h].tok].status = "REVOKED"
  /\ RotatedIsRevoked

\* The requests that may still give p a successor.
Rotating(p) == {h \in Handlers : /\ handler[h].op \in {"revoke", "issue"}
                                 /\ handler[h].tok = p}

SuccessorInv ==
  \A p \in Tokens :
    /\ IsFiniteSet(Successors(p))
    /\ Cardinality(Successors(p)) + Cardinality(Rotating(p))
         <= Cardinality(Handlers)

\* A revoked token is never live again, one that exists stays.
LEMMA TokensAge ==
  ASSUME SessionTypeOK, [SessionNext]_sessionVars, NEW t \in Tokens
  PROVE  /\ token[t].status = "REVOKED" => token'[t].status = "REVOKED"
         /\ token[t].status # "NONE" => token'[t].status # "NONE"
<1> USE DEF SessionTypeOK, Token, WithStatus
<1>1. ASSUME NEW h \in Handlers, SessionStep(h)
      PROVE  /\ token[t].status = "REVOKED" => token'[t].status = "REVOKED"
             /\ token[t].status # "NONE" => token'[t].status # "NONE"
  <2>1. CASE RevokeRefreshToken(h) \/ ForceLogout(h)
    BY <2>1 DEF RevokeRefreshToken, ForceLogout
  <2>2. CASE UNCHANGED token
    BY <2>2
  <2> QED
    BY <1>1, <2>1, <2>2 DEF SessionStep, Login, SetPassword, UseLink,
       DeleteAndLogout, ResetAndLogout, Die
<1>2. ASSUME NEW h \in Handlers, NEW s \in Tokens,
             Refresh(h, s) \/ CreateRefreshToken(h, s)
      PROVE  /\ token[t].status = "REVOKED" => token'[t].status = "REVOKED"
             /\ token[t].status # "NONE" => token'[t].status # "NONE"
  BY <1>2 DEF Refresh, CreateRefreshToken
<1>3. ASSUME NEW s \in Tokens, Logout(s)
      PROVE  /\ token[t].status = "REVOKED" => token'[t].status = "REVOKED"
             /\ token[t].status # "NONE" => token'[t].status # "NONE"
  BY <1>3 DEF Logout
<1> QED
  BY <1>1, <1>2, <1>3 DEF SessionNext, ValidateResetToken, ForgotPassword,
     SetActive, sessionVars

\* Each step keeps what the requests know of tokens.
LEMMA RotationInductive ==
  SessionTypeOK /\ RotationInv /\ [SessionNext]_sessionVars => RotationInv'
<1> SUFFICES ASSUME SessionTypeOK, RotationInv, [SessionNext]_sessionVars
             PROVE  RotationInv'
  OBVIOUS
<1> DEFINE Knows(h) ==
      /\ handler[h].op = "revoke" => /\ handler[h].tok \in Tokens
                                     /\ token[handler[h].tok].status # "NONE"
      /\ handler[h].op = "issue" /\ handler[h].tok # NoToken
           => token[handler[h].tok].status = "REVOKED"
<1>1. \A h \in Handlers : Knows(h) /\ handler[h].tok \in Tokens \union {NoToken}
  BY DEF RotationInv, SessionTypeOK, Handler
<1>2. \A h \in Handlers : handler'[h] = handler[h] => Knows(h)'
  BY <1>1, TokensAge
<1>3. ASSUME NEW g \in Handlers, NEW job,
             handler' = [handler EXCEPT ![g] = job]
      PROVE  /\ \A h \in Handlers \ {g} : handler'[h] = handler[h]
             /\ handler'[g] = job
  BY <1>3 DEF SessionTypeOK
<1>4. ASSUME UNCHANGED token
      PROVE  RotatedIsRevoked'
  BY <1>4 DEF RotationInv, RotatedIsRevoked
<1>5. ASSUME NEW g \in Handlers, NEW job, Begins(g, job),
             job.op = "issue" => job.tok = NoToken,
             job.op # "revoke", UNCHANGED token
      PROVE  RotationInv'
  <2>1. Knows(g)'
    BY <1>3, <1>5 DEF Begins
  <2> QED
    BY <1>2, <1>3, <1>4, <1>5, <2>1 DEF Begins, RotationInv
<1>6. ASSUME NEW g \in Handlers, NEW op, NEW next \in {"idle", "useLink"},
             Continues(g, op, next), RotatedIsRevoked'
      PROVE  RotationInv'
  <2>1. handler'[g].op \in {"idle", "useLink"}
    BY <1>6 DEF Continues, AtRest, SessionTypeOK, Handler
  <2>2. \A h \in Handlers \ {g} : handler'[h] = handler[h]
    BY <1>6 DEF Continues, SessionTypeOK
  <2> QED
    BY <1>2, <1>6, <2>1, <2>2 DEF RotationInv
<1>7. ASSUME NEW t \in Tokens, token[t].status # "NONE",
             token' = WithStatus(t, "REVOKED")
      PROVE  RotatedIsRevoked'
  BY <1>7 DEF RotationInv, RotatedIsRevoked, WithStatus, SessionTypeOK, Token
<1>8. ASSUME NEW h \in Handlers, SessionStep(h)
      PROVE  RotationInv'
  <2>1. CASE Login(h) \/ DeleteAndLogout(h) \/ ResetAndLogout(h)
    BY <1>5, <2>1 DEF Login, DeleteAndLogout, ResetAndLogout, AtRest
  <2>2. CASE RevokeRefreshToken(h)
    <3>1. /\ handler[h].op = "revoke" /\ handler[h].tok \in Tokens
          /\ token[handler[h].tok].status # "NONE"
          /\ token' = WithStatus(handler[h].tok, "REVOKED")
      BY <1>1, <2>2 DEF RevokeRefreshToken, Continues
    <3>2. token'[handler[h].tok].status = "REVOKED"
      BY <3>1 DEF WithStatus, SessionTypeOK, Token
    <3>3. handler'[h] = [handler[h] EXCEPT !.op = "issue"]
      BY <1>3, <2>2 DEF RevokeRefreshToken, Continues
    <3>4. handler'[h].op = "issue" /\ handler'[h].tok = handler[h].tok
      BY <3>3 DEF SessionTypeOK, Handler
    <3>5. \A g \in Handlers \ {h} : handler'[g] = handler[g]
      BY <2>2 DEF RevokeRefreshToken, Continues, SessionTypeOK
    <3> QED
      BY <1>2, <1>7, <3>1, <3>2, <3>4, <3>5 DEF RotationInv
  <2>3. CASE SetPassword(h) \/ UseLink(h)
    BY <1>4, <1>6, <2>3 DEF SetPassword, UseLink
  <2>4. CASE ForceLogout(h)
    <3>1. RotatedIsRevoked'
      BY <2>4 DEF ForceLogout, RotationInv, RotatedIsRevoked, SessionTypeOK, Token
    <3> QED
      BY <1>6, <2>4, <3>1 DEF ForceLogout
  <2>5. CASE Die(h)
    BY <1>2, <1>3, <1>4, <2>5 DEF Die, RotationInv, AtRest
  <2> QED
    BY <1>8, <2>1, <2>2, <2>3, <2>4, <2>5 DEF SessionStep
<1>9. ASSUME NEW h \in Handlers, NEW t \in Tokens, Refresh(h, t)
      PROVE  RotationInv'
  <2>1. handler'[h].op = "revoke" /\ handler'[h].tok = t
    <3> DEFINE job == [AtRest EXCEPT !.op = "revoke", !.tok = t]
    <3>1. job.op = "revoke" /\ job.tok = t
      BY DEF AtRest
    <3>2. handler' = [handler EXCEPT ![h] = job]
      BY <1>9 DEF Refresh, Begins
    <3> HIDE DEF job
    <3> QED
      BY <3>1, <3>2 DEF SessionTypeOK
  <2> QED
    BY <1>2, <1>3, <1>4, <1>9, <2>1 DEF Refresh, Begins, RotationInv
<1>10. ASSUME NEW h \in Handlers, NEW t \in Tokens, CreateRefreshToken(h, t)
       PROVE  RotationInv'
  <2>1. /\ token[t].status = "NONE" /\ handler[h].op = "issue"
        /\ token' = [token EXCEPT ![t] = [status |-> "LIVE",
                                          parent |-> handler[h].tok]]
    BY <1>10 DEF CreateRefreshToken, Continues
  <2>2. handler[h].tok # NoToken => handler[h].tok # t
    BY <1>1, <2>1
  <2>3. RotatedIsRevoked'
    BY <1>1, <2>1, <2>2 DEF RotationInv, RotatedIsRevoked, SessionTypeOK, Token
  <2> QED
    BY <1>6, <1>10, <2>3 DEF CreateRefreshToken
<1>11. ASSUME NEW h \in Handlers, NEW l \in Links, ValidateResetToken(h, l)
       PROVE  RotationInv'
  BY <1>5, <1>11 DEF ValidateResetToken, AtRest
<1>12. ASSUME NEW t \in Tokens, Logout(t)
       PROVE  RotationInv'
  BY <1>2, <1>7, <1>12 DEF Logout, RotationInv
<1>13. ASSUME UNCHANGED <<token, handler>>
       PROVE  RotationInv'
  BY <1>2, <1>4, <1>13 DEF RotationInv, SessionTypeOK
<1> QED
  BY <1>8, <1>9, <1>10, <1>11, <1>12, <1>13
     DEF SessionNext, ForgotPassword, SetActive, sessionVars

\* The types and the knowledge of the requests hold throughout.
THEOREM RotationInvariance == SessionSpec => [](SessionTypeOK /\ RotationInv)
<1>1. SessionInit => RotationInv
  BY DEF SessionInit, RotationInv, RotatedIsRevoked, AtRest
<1> QED
  BY <1>1, RotationInductive, SessionTypeInductive, SessionTypeCorrect, PTL
     DEF SessionSpec

\* A rotated token is dead before its successor lives.
THEOREM RotationIsSafe == SessionSpec => []RotatedIsRevoked
<1>1. RotationInv => RotatedIsRevoked
  BY DEF RotationInv
<1> QED
  BY <1>1, RotationInvariance, PTL
-----------------------------------------------------------------------------
(* Counting.  A resource used by several requests is used at most once for  *)
(* each request that found it unused.                                       *)

\* The requests in flight are finitely many, and so is every part of them.
LEMMA HandlerCardinality ==
  /\ Cardinality(Handlers) \in Nat
  /\ \A S \in SUBSET Handlers :
       /\ IsFiniteSet(S)
       /\ Cardinality(S) \in Nat
       /\ Cardinality(S) <= Cardinality(Handlers)
       /\ \A T \in SUBSET S : Cardinality(T) <= Cardinality(S)
       /\ \A h \in S : Cardinality(S \ {h}) = Cardinality(S) - 1
<1>1. \A S \in SUBSET Handlers : IsFiniteSet(S)
  BY SessionsAssumption, FS_Subset
<1> QED
  BY <1>1, SessionsAssumption, FS_Subset, FS_CardinalityType, FS_RemoveElement

\* One step starts a rotation of p while p is live, or ends one with at most
\* one more successor.
LEMMA SuccessorStep ==
  ASSUME SessionTypeOK, RotationInv, [SessionNext]_sessionVars, NEW p \in Tokens
  PROVE  \/ Successors(p)' = {}
         \/ Successors(p)' \subseteq Successors(p)
            /\ Rotating(p)' \subseteq Rotating(p)
         \/ \E h \in Rotating(p), t \in Tokens :
              /\ Successors(p)' \subseteq Successors(p) \union {t}
              /\ Rotating(p)' \subseteq Rotating(p) \ {h}
<1> USE DEF SessionTypeOK, Rotating, Successors
<1>1. p # NoToken
  BY SessionsAssumption
<1>2. ASSUME NEW h \in Handlers, NEW job, Begins(h, job), UNCHANGED token,
             job.op \in {"revoke", "issue"} => job.tok # p
      PROVE  /\ Successors(p)' \subseteq Successors(p)
             /\ Rotating(p)' \subseteq Rotating(p)
  BY <1>2 DEF Begins
<1>3. ASSUME NEW h \in Handlers, NEW op, NEW next \in {"idle", "useLink"},
             Continues(h, op, next),
             \A t \in Tokens : token'[t].parent = token[t].parent
      PROVE  /\ Successors(p)' \subseteq Successors(p)
             /\ Rotating(p)' \subseteq Rotating(p)
  BY <1>3 DEF Continues, AtRest, Handler
<1>4. ASSUME NEW h \in Handlers, SessionStep(h)
      PROVE  /\ Successors(p)' \subseteq Successors(p)
             /\ Rotating(p)' \subseteq Rotating(p)
  <2>1. CASE Login(h) \/ DeleteAndLogout(h) \/ ResetAndLogout(h)
    BY <1>1, <1>2, <2>1 DEF Login, DeleteAndLogout, ResetAndLogout, AtRest
  <2>2. CASE RevokeRefreshToken(h)
    <3>1. \A t \in Tokens : token'[t].parent = token[t].parent
      BY <2>2 DEF RevokeRefreshToken, WithStatus, Token
    <3>2. \A g \in Handlers : handler'[g].tok = handler[g].tok
      BY <2>2 DEF RevokeRefreshToken, Continues, Handler
    <3>3. \A g \in Handlers : handler'[g].op \in {"revoke", "issue"}
                                => handler[g].op \in {"revoke", "issue"}
      BY <2>2 DEF RevokeRefreshToken, Continues, Handler
    <3> QED
      BY <3>1, <3>2, <3>3
  <2>3. CASE SetPassword(h) \/ UseLink(h)
    BY <1>3, <2>3 DEF SetPassword, UseLink
  <2>4. CASE ForceLogout(h)
    <3>1. \A t \in Tokens : token'[t].parent = token[t].parent
      BY <2>4 DEF ForceLogout, Token
    <3> QED
      BY <1>3, <2>4, <3>1 DEF ForceLogout
  <2>5. CASE Die(h)
    BY <2>5 DEF Die, AtRest
  <2> QED
    BY <1>4, <2>1, <2>2, <2>3, <2>4, <2>5 DEF SessionStep
<1>5. ASSUME NEW h \in Handlers, NEW t \in Tokens, Refresh(h, t)
      PROVE  \/ Successors(p)' = {}
             \/ Successors(p)' \subseteq Successors(p)
                /\ Rotating(p)' \subseteq Rotating(p)
  <2>1. CASE t = p
    BY <1>1, <1>5, <2>1 DEF Refresh, RotationInv, RotatedIsRevoked
  <2>2. CASE t # p
    BY <1>2, <1>5, <2>2 DEF Refresh, AtRest
  <2> QED
    BY <2>1, <2>2
<1>6. ASSUME NEW h \in Handlers, NEW t \in Tokens, CreateRefreshToken(h, t)
      PROVE  \/ Successors(p)' \subseteq Successors(p)
                /\ Rotating(p)' \subseteq Rotating(p)
             \/ h \in Rotating(p)
                /\ Successors(p)' \subseteq Successors(p) \union {t}
                /\ Rotating(p)' \subseteq Rotating(p) \ {h}
  <2>1. /\ handler[h].op = "issue"
        /\ handler' = [handler EXCEPT ![h] = AtRest]
        /\ token' = [token EXCEPT ![t] = [status |-> "LIVE",
                                          parent |-> handler[h].tok]]
    BY <1>6 DEF CreateRefreshToken, Continues
  <2>2. Rotating(p)' \subseteq Rotating(p) \ {h}
    BY <2>1 DEF AtRest
  <2>3. CASE handler[h].tok = p
    BY <2>1, <2>2, <2>3
  <2>4. CASE handler[h].tok # p
    BY <2>1, <2>2, <2>4
  <2> QED
    BY <2>3, <2>4
<1>7. ASSUME NEW t \in Tokens, Logout(t)
      PROVE  /\ Successors(p)' \subseteq Successors(p)
             /\ Rotating(p)' \subseteq Rotating(p)
  BY <1>7 DEF Logout, WithStatus, Token
<1>8. ASSUME NEW h \in Handlers, NEW l \in Links, ValidateResetToken(h, l)
      PROVE  /\ Successors(p)' \subseteq Successors(p)
             /\ Rotating(p)' \subseteq Rotating(p)
  BY <1>2, <1>8 DEF ValidateResetToken, AtRest
<1>9. ASSUME UNCHANGED <<token, handler>>
      PROVE  /\ Successors(p)' \subseteq Successors(p)
             /\ Rotating(p)' \subseteq Rotating(p)
  BY <1>9
<1> QED
  BY <1>4, <1>5, <1>6, <1>7, <1>8, <1>9
     DEF SessionNext, ForgotPassword, SetActive, sessionVars

\* A token is rotated at most once per request in flight.
THEOREM RotationIsBounded == SessionSpec => []SuccessorsBounded
<1> USE HandlerCardinality
<1>1. SessionInit => SuccessorInv
  <2> SUFFICES ASSUME SessionInit, NEW p \in Tokens
               PROVE  /\ IsFiniteSet(Successors(p))
                      /\ Cardinality(Successors(p)) + Cardinality(Rotating(p))
                           <= Cardinality(Handlers)
    BY DEF SuccessorInv
  <2>1. Successors(p) = {} /\ Rotating(p) = {}
    BY SessionsAssumption DEF SessionInit, Successors, Rotating, AtRest
  <2> QED
    BY <2>1, FS_EmptySet
<1>2. SessionTypeOK /\ RotationInv /\ SuccessorInv /\ [SessionNext]_sessionVars
        => SuccessorInv'
  <2> SUFFICES ASSUME SessionTypeOK, RotationInv, SuccessorInv,
                      [SessionNext]_sessionVars, NEW p \in Tokens
               PROVE  /\ IsFiniteSet(Successors(p)')
                      /\ Cardinality(Successors(p)') + Cardinality(Rotating(p)')
                           <= Cardinality(Handlers)
    BY DEF SuccessorInv
  <2>1. Rotating(p) \subseteq Handlers /\ Rotating(p)' \subseteq Handlers
    BY DEF Rotating
  <2>2. /\ IsFiniteSet(Successors(p))
        /\ Cardinality(Successors(p)) \in Nat
        /\ Cardinality(Successors(p)) + Cardinality(Rotating(p))
             <= Cardinality(Handlers)
    BY FS_CardinalityType DEF SuccessorInv
  <2>3. CASE Successors(p)' = {}
    BY <2>1, <2>3, FS_EmptySet
  <2>4. CASE /\ Successors(p)' \subseteq Successors(p)
             /\ Rotating(p)' \subseteq Rotating(p)
    <3>1. /\ IsFiniteSet(Successors(p)')
          /\ Cardinality(Successors(p)') <= Cardinality(Successors(p))
          /\ Cardinality(Successors(p)') \in Nat
      BY <2>2, <2>4, FS_Subset, FS_CardinalityType
    <3>2. Cardinality(Rotating(p)') <= Cardinality(Rotating(p))
      BY <2>1, <2>4
    <3> QED
      BY <2>1, <2>2, <3>1, <3>2
  <2>5. ASSUME NEW h \in Rotating(p), NEW t \in Tokens,
               Successors(p)' \subseteq Successors(p) \union {t},
               Rotating(p)' \subseteq Rotating(p) \ {h}
        PROVE  /\ IsFiniteSet(Successors(p)')
               /\ Cardinality(Successors(p)') + Cardinality(Rotating(p)')
                    <= Cardinality(Handlers)
    <3> DEFINE More == Successors(p) \union {t}
    <3>1. IsFiniteSet(More) /\ Cardinality(More) <= Cardinality(Successors(p)) + 1
      <4>1. IsFiniteSet(Successors(p))
        BY <2>2
      <4>2. /\ IsFiniteSet(More)
            /\ Cardinality(More) = IF t \in Successors(p)
                                   THEN Cardinality(Successors(p))
                                   ELSE Cardinality(Successors(p)) + 1
        BY <4>1, FS_AddElement
      <4> HIDE DEF More
      <4> QED
        BY <2>2, <4>2
    <3>2. /\ IsFiniteSet(Successors(p)')
          /\ Cardinality(Successors(p)') <= Cardinality(More)
          /\ Cardinality(Successors(p)') \in Nat
          /\ Cardinality(More) \in Nat
      BY <2>5, <3>1, FS_Subset, FS_CardinalityType
    <3>3. Cardinality(Rotating(p)') <= Cardinality(Rotating(p) \ {h})
      BY <2>1, <2>5
    <3>4. Cardinality(Rotating(p) \ {h}) = Cardinality(Rotating(p)) - 1
      BY <2>1, <2>5
    <3> HIDE DEF More
    <3> QED
      BY <2>1, <2>2, <3>1, <3>2, <3>3, <3>4
  <2> QED
    BY <2>3, <2>4, <2>5, SuccessorStep
<1>3. SuccessorInv => SuccessorsBounded
  <2> SUFFICES ASSUME SuccessorInv, NEW p \in Tokens
               PROVE  Cardinality(Successors(p)) <= Cardinality(Handlers)
    BY DEF SuccessorsBounded
  <2>1. Rotating(p) \in SUBSET Handlers /\ Cardinality(Successors(p)) \in Nat
    BY FS_CardinalityType DEF Rotating, SuccessorInv
  <2> QED
    BY <2>1 DEF SuccessorInv
<1> QED
  BY <1>1, <1>2, <1>3, RotationInvariance, PTL DEF SessionSpec
-----------------------------------------------------------------------------
(* Reset links. *)

\* The requests about to set a password through l, and those that did and
\* have not noted it yet.
Setting(l) == {h \in Handlers : /\ handler[h].op = "setPassword"
                                /\ handler[h].link = l}
Using(l)   == {h \in Handlers : /\ handler[h].op = "useLink"
                                /\ handler[h].link = l}

\* While l is open, each use of it is still to be noted or its request died;
\* with those still to come the uses are bounded by the overlap.
OneLinkInv(l) ==
  /\ reset[l].status = "NONE" => reset[l].uses = 0
  /\ reset[l].status = "USED" => reset[l].uses > 0
  /\ reset[l].status = "ISSUED"
       => reset[l].uses <= Cardinality(Using(l)) + deaths
  /\ reset[l].uses + Cardinality(Setting(l)) <= Cardinality(Handlers) + deaths
  /\ Using(l) # {} => reset[l].uses > 0
  /\ Setting(l) # {} => reset[l].status # "NONE"

ResetInv == \A l \in Links : OneLinkInv(l)

\* What one step may do to a link and the requests that use it.
LEMMA LinkStep ==
  ASSUME SessionTypeOK, [SessionNext]_sessionVars, NEW l \in Links
  PROVE
    \/ /\ UNCHANGED <<deaths, reset[l]>>
       /\ Setting(l)' \subseteq Setting(l) /\ Using(l)' = Using(l)
    \/ /\ UNCHANGED <<deaths, reset[l]>> /\ reset[l].status = "ISSUED"
       /\ Using(l)' = Using(l)
    \/ /\ UNCHANGED deaths /\ reset[l].status = "NONE"
       /\ reset'[l] = [reset[l] EXCEPT !.status = "ISSUED"]
       /\ Setting(l)' = Setting(l) /\ Using(l)' = Using(l)
    \/ \E h \in Setting(l) :
         /\ UNCHANGED deaths
         /\ reset'[l] = [reset[l] EXCEPT !.uses = @ + 1]
         /\ Setting(l)' \subseteq Setting(l) \ {h}
         /\ h \notin Using(l) /\ Using(l)' = Using(l) \union {h}
    \/ /\ UNCHANGED deaths /\ Using(l) # {}
       /\ reset'[l] = [reset[l] EXCEPT !.status = "USED"]
       /\ Setting(l)' \subseteq Setting(l) /\ Using(l)' \subseteq Using(l)
    \/ \E h \in Handlers :
         /\ deaths' = deaths + 1 /\ UNCHANGED reset[l]
         /\ Setting(l)' \subseteq Setting(l)
         /\ Using(l)' = Using(l) \ {h}
<1> USE DEF SessionTypeOK, Setting, Using
<1>1. ASSUME NEW h \in Handlers, NEW job, Begins(h, job), UNCHANGED reset,
             job.op \in {"revoke", "issue", "logoutAll"}
      PROVE  /\ UNCHANGED <<deaths, reset[l]>>
             /\ Setting(l)' \subseteq Setting(l) /\ Using(l)' = Using(l)
  BY <1>1 DEF Begins
<1>2. ASSUME NEW h \in Handlers, NEW op \in {"revoke", "issue", "logoutAll"},
             NEW next \in {"idle", "issue"},
             Continues(h, op, next), UNCHANGED reset
      PROVE  /\ UNCHANGED <<deaths, reset[l]>>
             /\ Setting(l)' \subseteq Setting(l) /\ Using(l)' = Using(l)
  BY <1>2 DEF Continues, AtRest, Handler
<1>3. ASSUME NEW h \in Handlers,
             \/ Login(h) \/ RevokeRefreshToken(h) \/ DeleteAndLogout(h)
             \/ ResetAndLogout(h) \/ ForceLogout(h)
             \/ \E t \in Tokens : Refresh(h, t) \/ CreateRefreshToken(h, t)
      PROVE  /\ UNCHANGED <<deaths, reset[l]>>
             /\ Setting(l)' \subseteq Setting(l) /\ Using(l)' = Using(l)
  BY <1>1, <1>2, <1>3
     DEF Login, RevokeRefreshToken, DeleteAndLogout, ResetAndLogout,
         ForceLogout, Refresh, CreateRefreshToken, AtRest
<1>4. ASSUME NEW h \in Handlers, SetPassword(h)
      PROVE  \/ /\ UNCHANGED <<deaths, reset[l]>>
                /\ Setting(l)' \subseteq Setting(l) /\ Using(l)' = Using(l)
             \/ /\ h \in Setting(l) /\ UNCHANGED deaths
                /\ reset'[l] = [reset[l] EXCEPT !.uses = @ + 1]
                /\ Setting(l)' \subseteq Setting(l) \ {h}
                /\ h \notin Using(l) /\ Using(l)' = Using(l) \union {h}
  <2>1. /\ handler[h].op = "setPassword" /\ UNCHANGED deaths
        /\ handler' = [handler EXCEPT ![h] = [handler[h] EXCEPT !.op = "useLink"]]
        /\ reset' = [reset EXCEPT ![handler[h].link].uses = @ + 1]
    BY <1>4 DEF SetPassword, Continues
  <2>2. /\ handler'[h].op = "useLink" /\ handler'[h].link = handler[h].link
        /\ \A g \in Handlers \ {h} : handler'[g] = handler[g]
    BY <2>1 DEF Handler
  <2>3. CASE handler[h].link = l
    BY <2>1, <2>2, <2>3
  <2>4. CASE handler[h].link # l
    <3>1. reset'[l] = reset[l]
      BY <2>1, <2>4
    <3> QED
      BY <2>1, <2>2, <2>4, <3>1
  <2> QED
    BY <2>3, <2>4
<1>5. ASSUME NEW h \in Handlers, UseLink(h)
      PROVE  \/ /\ UNCHANGED <<deaths, reset[l]>>
                /\ Setting(l)' \subseteq Setting(l) /\ Using(l)' = Using(l)
             \/ /\ UNCHANGED deaths /\ Using(l) # {}
                /\ reset'[l] = [reset[l] EXCEPT !.status = "USED"]
                /\ Setting(l)' \subseteq Setting(l) /\ Using(l)' \subseteq Using(l)
  <2>1. /\ handler[h].op = "useLink" /\ UNCHANGED deaths
        /\ handler' = [handler EXCEPT ![h] = AtRest]
        /\ reset' = [reset EXCEPT ![handler[h].link].status = "USED"]
    BY <1>5 DEF UseLink, Continues
  <2>2. /\ handler'[h].op = "idle"
        /\ \A g \in Handlers \ {h} : handler'[g] = handler[g]
    BY <2>1 DEF AtRest
  <2>3. CASE handler[h].link = l
    BY <2>1, <2>2, <2>3
  <2>4. CASE handler[h].link # l
    <3>1. reset'[l] = reset[l]
      BY <2>1, <2>4
    <3> QED
      BY <2>1, <2>2, <2>4, <3>1
  <2> QED
    BY <2>3, <2>4
<1>6. ASSUME NEW h \in Handlers, Die(h)
      PROVE  /\ deaths' = deaths + 1 /\ UNCHANGED reset[l]
             /\ Setting(l)' \subseteq Setting(l)
             /\ Using(l)' = Using(l) \ {h}
  <2>1. /\ handler'[h].op = "idle"
        /\ \A g \in Handlers \ {h} : handler'[g] = handler[g]
    BY <1>6 DEF Die, AtRest
  <2> QED
    BY <1>6, <2>1 DEF Die
<1>7. ASSUME NEW h \in Handlers, NEW k \in Links, ValidateResetToken(h, k)
      PROVE  \/ /\ UNCHANGED <<deaths, reset[l]>>
                /\ Setting(l)' \subseteq Setting(l) /\ Using(l)' = Using(l)
             \/ /\ UNCHANGED <<deaths, reset[l]>> /\ reset[l].status = "ISSUED"
                /\ Using(l)' = Using(l)
  <2> DEFINE job == [AtRest EXCEPT !.op = "setPassword", !.link = k]
  <2>1. job.op = "setPassword" /\ job.link = k
    BY DEF AtRest
  <2>2. /\ handler' = [handler EXCEPT ![h] = job] /\ handler[h].op = "idle"
        /\ reset[k].status = "ISSUED" /\ UNCHANGED <<reset, deaths>>
    BY <1>7 DEF ValidateResetToken, Begins
  <2> HIDE DEF job
  <2>3. /\ handler'[h].op = "setPassword" /\ handler'[h].link = k
        /\ \A g \in Handlers \ {h} : handler'[g] = handler[g]
    BY <2>1, <2>2
  <2>4. Using(l)' = Using(l)
    BY <2>2, <2>3
  <2>5. k # l => Setting(l)' \subseteq Setting(l)
    BY <2>2, <2>3
  <2> QED
    BY <2>2, <2>4, <2>5
<1>8. ASSUME NEW k \in Links, ForgotPassword(k)
      PROVE  /\ UNCHANGED deaths
             /\ \/ UNCHANGED reset[l]
                \/ /\ reset[l].status = "NONE"
                   /\ reset'[l] = [reset[l] EXCEPT !.status = "ISSUED"]
             /\ Setting(l)' = Setting(l) /\ Using(l)' = Using(l)
  BY <1>8 DEF ForgotPassword
<1>9. ASSUME UNCHANGED <<reset, handler, deaths>>
      PROVE  /\ UNCHANGED <<deaths, reset[l]>>
             /\ Setting(l)' \subseteq Setting(l) /\ Using(l)' = Using(l)
  BY <1>9
<1> QED
  BY <1>3, <1>4, <1>5, <1>6, <1>7, <1>8, <1>9
     DEF SessionNext, SessionStep, Logout, SetActive, sessionVars

\* A reset link sets a password once, up to overlap and deaths.
THEOREM ResetIsBounded == SessionSpec => []LinkSetsOnce
<1> USE HandlerCardinality
<1>1. SessionInit => ResetInv
  <2> SUFFICES ASSUME SessionInit, NEW l \in Links
               PROVE  OneLinkInv(l)
    BY DEF ResetInv
  <2>1. Setting(l) = {} /\ Using(l) = {}
    BY DEF SessionInit, Setting, Using, AtRest
  <2> QED
    BY <2>1, FS_EmptySet DEF SessionInit, OneLinkInv
<1>2. SessionTypeOK /\ ResetInv /\ [SessionNext]_sessionVars => ResetInv'
  <2> SUFFICES ASSUME SessionTypeOK, ResetInv, [SessionNext]_sessionVars,
                      NEW l \in Links
               PROVE  OneLinkInv(l)'
    BY DEF ResetInv
  <2> DEFINE S  == Setting(l)
             U  == Using(l)
             S1 == Setting(l)'
             U1 == Using(l)'
  <2>1. /\ S \subseteq Handlers /\ U \subseteq Handlers
        /\ S1 \subseteq Handlers /\ U1 \subseteq Handlers
        /\ S \intersect U = {} /\ S1 \intersect U1 = {}
    BY DEF Setting, Using
  <2>2. reset[l] \in ResetLink /\ deaths \in Nat /\ OneLinkInv(l)
    BY SessionsAssumption DEF SessionTypeOK, ResetInv
  <2>3. /\ reset[l].uses \in Nat
        /\ Cardinality(S) \in Nat /\ Cardinality(U) \in Nat
        /\ Cardinality(S1) \in Nat /\ Cardinality(U1) \in Nat
        /\ Cardinality(Handlers) \in Nat
    BY <2>1, <2>2 DEF ResetLink
  <2>4. OneLinkInv(l)' <=>
          /\ reset'[l].status = "NONE" => reset'[l].uses = 0
          /\ reset'[l].status = "USED" => reset'[l].uses > 0
          /\ reset'[l].status = "ISSUED"
               => reset'[l].uses <= Cardinality(U1) + deaths'
          /\ reset'[l].uses + Cardinality(S1) <= Cardinality(Handlers) + deaths'
          /\ U1 # {} => reset'[l].uses > 0
          /\ S1 # {} => reset'[l].status # "NONE"
    BY DEF OneLinkInv
  <2>5. /\ reset[l].status = "NONE" => reset[l].uses = 0
        /\ reset[l].status = "USED" => reset[l].uses > 0
        /\ reset[l].status = "ISSUED" => reset[l].uses <= Cardinality(U) + deaths
        /\ reset[l].uses + Cardinality(S) <= Cardinality(Handlers) + deaths
        /\ U # {} => reset[l].uses > 0
        /\ S # {} => reset[l].status # "NONE"
    BY <2>2 DEF OneLinkInv
  <2> HIDE DEF S, U, S1, U1
  <2>6. CASE UNCHANGED <<deaths, reset[l]>> /\ S1 \subseteq S /\ U1 = U
    <3>1. Cardinality(S1) <= Cardinality(S)
      BY <2>1, <2>6
    <3> QED
      BY <2>2, <2>3, <2>4, <2>5, <2>6, <3>1
  <2>7. CASE /\ UNCHANGED <<deaths, reset[l]>> /\ reset[l].status = "ISSUED"
             /\ U1 = U
    <3>1. Cardinality(S1) + Cardinality(U1) <= Cardinality(Handlers)
      <4>1. /\ IsFiniteSet(S1) /\ IsFiniteSet(U1)
            /\ S1 \union U1 \in SUBSET Handlers
        BY <2>1
      <4>2. Cardinality(S1 \union U1)
              = Cardinality(S1) + Cardinality(U1) - Cardinality(S1 \intersect U1)
        BY <4>1, FS_Union
      <4>3. Cardinality(S1 \intersect U1) = 0
        BY <2>1, FS_EmptySet
      <4>4. Cardinality(S1 \union U1) <= Cardinality(Handlers)
        BY <4>1
      <4> QED
        BY <2>3, <4>2, <4>3, <4>4
    <3> QED
      BY <2>2, <2>3, <2>4, <2>5, <2>7, <3>1
  <2>8. CASE /\ UNCHANGED deaths /\ reset[l].status = "NONE"
             /\ reset'[l] = [reset[l] EXCEPT !.status = "ISSUED"]
             /\ S1 = S /\ U1 = U
    <3>1. reset'[l].status = "ISSUED" /\ reset'[l].uses = reset[l].uses
      BY <2>2, <2>8 DEF ResetLink
    <3> QED
      BY <2>2, <2>3, <2>4, <2>5, <2>8, <3>1
  <2>9. ASSUME NEW h \in S, UNCHANGED deaths,
               reset'[l] = [reset[l] EXCEPT !.uses = @ + 1],
               S1 \subseteq S \ {h}, h \notin U, U1 = U \union {h}
        PROVE  OneLinkInv(l)'
    <3>1. /\ reset'[l].status = reset[l].status
          /\ reset'[l].uses = reset[l].uses + 1
      BY <2>2, <2>9 DEF ResetLink
    <3>2. Cardinality(S1) <= Cardinality(S) - 1
      <4>1. Cardinality(S1) <= Cardinality(S \ {h})
        BY <2>1, <2>9
      <4> QED
        BY <2>1, <2>9, <4>1
    <3>3. Cardinality(U1) = Cardinality(U) + 1
      <4>1. U = U1 \ {h} /\ h \in U1
        BY <2>9
      <4> QED
        BY <2>1, <2>3, <4>1
    <3> QED
      BY <2>2, <2>3, <2>4, <2>5, <2>9, <3>1, <3>2, <3>3
  <2>10. CASE /\ UNCHANGED deaths /\ U # {}
              /\ reset'[l] = [reset[l] EXCEPT !.status = "USED"]
              /\ S1 \subseteq S /\ U1 \subseteq U
    <3>1. reset'[l].status = "USED" /\ reset'[l].uses = reset[l].uses
      BY <2>2, <2>10 DEF ResetLink
    <3>2. Cardinality(S1) <= Cardinality(S)
      BY <2>1, <2>10
    <3> QED
      BY <2>2, <2>3, <2>4, <2>5, <2>10, <3>1, <3>2
  <2>11. ASSUME NEW h \in Handlers, deaths' = deaths + 1, UNCHANGED reset[l],
                S1 \subseteq S, U1 = U \ {h}
         PROVE  OneLinkInv(l)'
    <3>1. Cardinality(S1) <= Cardinality(S)
      BY <2>1, <2>11
    <3>2. Cardinality(U) <= Cardinality(U1) + 1
      <4>1. CASE h \in U
        BY <2>1, <2>3, <2>11, <4>1
      <4>2. CASE h \notin U
        <5>1. U1 = U
          BY <2>11, <4>2
        <5> QED
          BY <2>3, <5>1
      <4> QED
        BY <4>1, <4>2
    <3>3. U1 \subseteq U
      BY <2>11
    <3> QED
      BY <2>2, <2>3, <2>4, <2>5, <2>11, <3>1, <3>2, <3>3
  <2> QED
    BY <2>6, <2>7, <2>8, <2>9, <2>10, <2>11, LinkStep
       DEF S, U, S1, U1
<1>3. SessionTypeOK /\ ResetInv => LinkSetsOnce
  <2> SUFFICES ASSUME SessionTypeOK, ResetInv, NEW l \in Links
               PROVE  /\ reset[l].uses <= Cardinality(Handlers) + deaths
                      /\ reset[l].status = "USED" => reset[l].uses > 0
    BY DEF LinkSetsOnce
  <2>1. /\ Setting(l) \in SUBSET Handlers /\ deaths \in Nat
        /\ reset[l].uses \in Nat
    BY SessionsAssumption DEF Setting, SessionTypeOK, ResetLink
  <2> QED
    BY <2>1 DEF ResetInv, OneLinkInv
<1> QED
  BY <1>1, <1>2, <1>3, SessionTypeInductive, SessionTypeCorrect, PTL
     DEF SessionSpec

\* Refresh tokens and reset links are spent, as the run checks it.
THEOREM SpentTokens == SessionSpec => []TokensAreSpent
  BY RotationIsSafe, RotationIsBounded, ResetIsBounded, PTL DEF TokensAreSpent
-----------------------------------------------------------------------------
(* The announcements. *)

\* What a worker goes on with is well typed.
LEMMA GoesType ==
  ASSUME NewsTypeOK, NEW w \in Senders, NEW job \in SenderWork, Goes(w, job)
  PROVE  work' \in [Senders -> SenderWork]
BY DEF NewsTypeOK, Goes

LEMMA WorkersType ==
  /\ Rest \in SenderWork
  /\ \A n \in News : [Rest EXCEPT !.op = "publish", !.todo = {n}] \in SenderWork
  /\ \A n \in News, edit \in Edit :
       [Rest EXCEPT !.op = "update", !.one = n, !.edit = edit] \in SenderWork
  /\ \A S \in SUBSET News : [Rest EXCEPT !.sweep = TRUE, !.todo = S] \in SenderWork
  /\ \A job \in SenderWork :
       /\ After(job) \in SenderWork
       /\ job.op = "mark" => [job EXCEPT !.op = "send"] \in SenderWork
  /\ \A job \in SenderWork, n \in News :
       /\ [job EXCEPT !.todo = @ \ {n}] \in SenderWork
       /\ [job EXCEPT !.op = "mark", !.one = n] \in SenderWork
<1>1. Rest \in SenderWork
  BY DEF Rest, NoEdit, SenderWork, Edit
<1>2. \A job \in SenderWork : After(job) \in SenderWork
  BY <1>1 DEF After, SenderWork
<1> QED
  BY <1>1, <1>2 DEF SenderWork

\* The types are inductive.
LEMMA NewsTypeInductive ==
  NewsTypeOK /\ [NewsNext]_newsVars => NewsTypeOK'
<1> SUFFICES ASSUME NewsTypeOK, [NewsNext]_newsVars
             PROVE  NewsTypeOK'
  OBVIOUS
<1> USE DEF NewsTypeOK
<1>0. \A w \in Senders : work[w] \in SenderWork
  OBVIOUS
<1>1. ASSUME NEW w \in Senders, Proceeds(w)
      PROVE  NewsTypeOK'
  <2>1. CASE MarkPublished(w)
    <3>1. news' \in [News -> Row]
      BY <2>1 DEF MarkPublished, Row, NewsStatus
    <3>2. work' \in [Senders -> SenderWork]
      BY <2>1, <1>0, GoesType, WorkersType DEF MarkPublished
    <3> QED
      BY <2>1, <3>1, <3>2 DEF MarkPublished
  <2>2. CASE MarkDeleted(w)
    <3>1. work' \in [Senders -> SenderWork]
      BY <2>2, <1>0, GoesType, WorkersType DEF MarkDeleted
    <3> QED
      BY <2>2, <3>1 DEF MarkDeleted
  <2>3. CASE Send(w)
    <3>1. broadcasts' \in [News -> Nat]
      <4>1. CASE work[w].one \in Platform
        BY <2>3, <4>1 DEF Send
      <4>2. CASE work[w].one \notin Platform
        <5> DEFINE n == work[w].one
        <5>1. broadcasts' = [broadcasts EXCEPT ![n] = broadcasts[n] + 1]
          BY <2>3, <4>2 DEF Send
        <5>2. n \in News
          BY <2>3, <1>0 DEF Send, SenderWork
        <5>3. broadcasts \in [News -> Nat] /\ broadcasts[n] + 1 \in Nat
          BY <5>2
        <5> HIDE DEF n, NewsTypeOK
        <5> QED
          BY <5>1, <5>2, <5>3
      <4> QED
        BY <4>1, <4>2
    <3>2. work' \in [Senders -> SenderWork]
      BY <2>3, <1>0, GoesType, WorkersType DEF Send
    <3> QED
      BY <2>3, <3>1, <3>2 DEF Send
  <2>4. CASE ExpireDueNews(w)
    <3>1. news' \in [News -> Row]
      BY <2>4 DEF ExpireDueNews, Row, NewsStatus
    <3>2. work' \in [Senders -> SenderWork]
      BY <2>4, <1>0, GoesType, WorkersType DEF ExpireDueNews
    <3> QED
      BY <2>4, <3>1, <3>2 DEF ExpireDueNews
  <2>5. CASE WriteUpdate(w)
    <3>1. work[w].edit \in Edit /\ work[w].one \in News
      BY <2>5, <1>0 DEF SenderWork, WriteUpdate
    <3>2. news' \in [News -> Row]
      BY <2>5, <3>1 DEF WriteUpdate, Edit, Row, NewsStatus
    <3>3. work' \in [Senders -> SenderWork]
      BY <2>5, <3>1, GoesType, WorkersType DEF WriteUpdate
    <3> QED
      BY <2>5, <3>2, <3>3 DEF WriteUpdate
  <2>6. ASSUME NEW n \in News, FindToPublish(w, n)
        PROVE  NewsTypeOK'
    <3>1. work[w] \in SenderWork /\ [work[w] EXCEPT !.todo = @ \ {n}] \in SenderWork
      BY WorkersType
    <3>2. work' \in [Senders -> SenderWork]
      <4> DEFINE job == [work[w] EXCEPT !.todo = @ \ {n}]
                 next == IF news[n].status = "SCHEDULED"
                         THEN [job EXCEPT !.op = "mark", !.one = n]
                         ELSE After(job)
      <4>1. Goes(w, next)
        BY <2>6 DEF FindToPublish
      <4>2. next \in SenderWork
        <5> HIDE DEF job
        <5> QED
          BY <3>1, WorkersType DEF job
      <4> HIDE DEF next
      <4> QED
        BY <4>1, <4>2, GoesType
    <3> QED
      BY <2>6, <3>2 DEF FindToPublish
  <2> QED
    BY <1>1, <2>1, <2>2, <2>3, <2>4, <2>5, <2>6 DEF Proceeds
<1>2. ASSUME NEW w \in Senders, PublishDue(w)
      PROVE  NewsTypeOK'
  <2>1. DueNews \in SUBSET News
    BY DEF DueNews
  <2>2. After([Rest EXCEPT !.sweep = TRUE, !.todo = DueNews]) \in SenderWork
    BY <2>1, WorkersType
  <2> QED
    BY <1>2, <2>2, GoesType DEF PublishDue
<1>3. ASSUME NEW w \in Senders, Fails(w)
      PROVE  NewsTypeOK'
  <2>1. work' \in [Senders -> SenderWork]
    BY <1>0, <1>3, GoesType, WorkersType DEF Fails
  <2> QED
    BY <1>3, <2>1, AnnouncementsAssumption DEF Fails
<1>4. ASSUME NEW w \in Senders, NEW n \in News, NEW at \in {"none", "later"},
             CreateAnnouncement(w, n, at)
      PROVE  NewsTypeOK'
  BY <1>4, GoesType, WorkersType DEF CreateAnnouncement, Row, NewsStatus
<1>5. ASSUME NEW w \in Senders, NEW n \in News, NEW edit \in Edit,
             UpdateAnnouncement(w, n, edit)
      PROVE  NewsTypeOK'
  BY <1>5, GoesType, WorkersType DEF UpdateAnnouncement
<1>6. ASSUME NEW n \in News, RemoveAnnouncement(n) \/ DateComes(n)
      PROVE  NewsTypeOK'
  BY <1>6 DEF RemoveAnnouncement, DateComes, Row, NewsStatus
<1>7. CASE UNCHANGED newsVars
  BY <1>7 DEF newsVars
<1> QED
  BY <1>1, <1>2, <1>3, <1>4, <1>5, <1>6, <1>7 DEF NewsNext

\* Every reachable state is well typed.
THEOREM NewsTypeCorrect == NewsSpec => []NewsTypeOK
<1>1. NewsInit => NewsTypeOK
  <2>1. Rest \in SenderWork
    BY WorkersType
  <2>2. [status |-> "NONE", at |-> "none"] \in Row
    BY DEF Row, NewsStatus
  <2>3. 0 \in Nat /\ 0 \in 0 .. MaxThrows
    BY AnnouncementsAssumption
  <2> QED
    BY <2>1, <2>2, <2>3 DEF NewsInit, NewsTypeOK
<1> QED
  BY <1>1, NewsTypeInductive, PTL DEF NewsSpec
-----------------------------------------------------------------------------
(* Counting. *)

\* The workers that may still send n, and those about to.
Publishing(n) == {w \in Senders : /\ work[w].op \in {"mark", "send"}
                                  /\ work[w].one = n}
Sending(n) == {w \in Senders : work[w].op = "send" /\ work[w].one = n}

\* Nothing was sent of an announcement that is still on the schedule, and
\* a worker starts to publish only such a one.
BroadcastInv ==
  \A n \in News :
    /\ news[n].status \in {"NONE", "SCHEDULED"}
         => broadcasts[n] = 0 /\ Sending(n) = {}
    /\ broadcasts[n] + Cardinality(Publishing(n)) <= Cardinality(Senders)

\* The workers are finitely many, and so is every part of them.
LEMMA WorkerCardinality ==
  /\ Cardinality(Senders) \in Nat
  /\ \A S \in SUBSET Senders :
       /\ Cardinality(S) \in Nat
       /\ Cardinality(S) <= Cardinality(Senders)
       /\ \A T \in SUBSET S : Cardinality(T) <= Cardinality(S)
       /\ \A w \in S : Cardinality(S \ {w}) = Cardinality(S) - 1
<1>1. \A S \in SUBSET Senders : IsFiniteSet(S)
  BY AnnouncementsAssumption, FS_Subset
<1> QED
  BY <1>1, AnnouncementsAssumption, FS_Subset, FS_CardinalityType,
     FS_RemoveElement

\* One step starts to publish n while nothing of it was sent, or ends one
\* publishing of it with at most one more broadcast.
LEMMA BroadcastStep ==
  ASSUME NewsTypeOK, BroadcastInv, [NewsNext]_newsVars, NEW n \in News
  PROVE  \/ broadcasts'[n] = 0
         \/ /\ broadcasts'[n] = broadcasts[n]
            /\ Publishing(n)' \subseteq Publishing(n)
         \/ \E w \in Publishing(n) :
              /\ broadcasts'[n] = broadcasts[n] + 1
              /\ Publishing(n)' \subseteq Publishing(n) \ {w}
<1> USE DEF NewsTypeOK, Publishing
<1> DEFINE Keeps == /\ broadcasts'[n] = broadcasts[n]
                    /\ Publishing(n)' \subseteq Publishing(n)
<1>1. ASSUME NEW w \in Senders, NEW job, Goes(w, job), UNCHANGED broadcasts,
             job.op \in {"mark", "send"} /\ job.one = n => w \in Publishing(n)
      PROVE  Keeps
  BY <1>1 DEF Goes
<1>2. Rest.op = "idle" /\ \A job : After(job).op \in {"idle", "publish"}
  BY DEF Rest, After
<1>3. ASSUME NEW w \in Senders, Proceeds(w)
      PROVE  \/ broadcasts'[n] = 0
             \/ Keeps
             \/ \E v \in Publishing(n) :
                  /\ broadcasts'[n] = broadcasts[n] + 1
                  /\ Publishing(n)' \subseteq Publishing(n) \ {v}
  <2>1. CASE MarkPublished(w)
    <3> DEFINE job == [work[w] EXCEPT !.op = "send"]
    <3>1. Goes(w, job) /\ UNCHANGED broadcasts /\ work[w].op = "mark"
      BY <2>1 DEF MarkPublished
    <3>2. job.one = work[w].one
      BY DEF SenderWork
    <3> HIDE DEF job
    <3> QED
      BY <1>1, <3>1, <3>2
  <2>2. CASE MarkDeleted(w)
    BY <1>1, <1>2, <2>2 DEF MarkDeleted
  <2>3. CASE Send(w)
    <3>1. work'[w].op \in {"idle", "publish"}
      BY <1>2, <2>3 DEF Send, Goes
    <3>2. \A v \in Senders \ {w} : work'[v] = work[v]
      BY <2>3 DEF Send, Goes
    <3>3. Publishing(n)' \subseteq Publishing(n) \ {w}
      BY <3>1, <3>2
    <3>4. CASE broadcasts'[n] = broadcasts[n]
      BY <3>3, <3>4
    <3>5. CASE broadcasts'[n] # broadcasts[n]
      <4>1. work[w].op = "send" /\ work[w].one = n
        BY <2>3, <3>5 DEF Send
      <4>2. broadcasts'[n] = broadcasts[n] + 1
        BY <2>3, <3>5, <4>1 DEF Send
      <4> QED
        BY <3>3, <4>1, <4>2
    <3> QED
      BY <3>4, <3>5
  <2>4. CASE ExpireDueNews(w)
    BY <1>1, <1>2, <2>4 DEF ExpireDueNews
  <2>5. CASE WriteUpdate(w)
    <3>1. [Rest EXCEPT !.op = "publish", !.todo = {work[w].one}].op = "publish"
      BY DEF Rest
    <3> QED
      BY <1>1, <1>2, <2>5, <3>1 DEF WriteUpdate
  <2>6. ASSUME NEW m \in News, FindToPublish(w, m)
        PROVE  broadcasts'[n] = 0 \/ Keeps
    <3>1. CASE m = n /\ news[n].status = "SCHEDULED"
      BY <2>6, <3>1 DEF FindToPublish, BroadcastInv
    <3>2. CASE m # n /\ news[m].status = "SCHEDULED"
      <4> DEFINE job == [[work[w] EXCEPT !.todo = @ \ {m}]
                           EXCEPT !.op = "mark", !.one = m]
      <4>1. Goes(w, job) /\ UNCHANGED broadcasts
        BY <2>6, <3>2 DEF FindToPublish
      <4>2. job.one = m
        BY DEF SenderWork
      <4> HIDE DEF job
      <4> QED
        BY <1>1, <3>2, <4>1, <4>2
    <3>3. CASE news[m].status # "SCHEDULED"
      BY <1>1, <1>2, <2>6, <3>3 DEF FindToPublish
    <3> QED
      BY <3>1, <3>2, <3>3
  <2> QED
    BY <1>3, <2>1, <2>2, <2>3, <2>4, <2>5, <2>6 DEF Proceeds
<1>4. ASSUME NEW w \in Senders, PublishDue(w) \/ Fails(w)
      PROVE  Keeps
  BY <1>1, <1>2, <1>4 DEF PublishDue, Fails
<1>5. ASSUME NEW w \in Senders, NEW m \in News, NEW at,
             CreateAnnouncement(w, m, at)
      PROVE  Keeps
  <2>1. [Rest EXCEPT !.op = "publish", !.todo = {m}].op = "publish"
    BY DEF Rest
  <2> QED
    BY <1>1, <1>5, <2>1 DEF CreateAnnouncement
<1>6. ASSUME NEW w \in Senders, NEW m \in News, NEW edit,
             UpdateAnnouncement(w, m, edit)
      PROVE  Keeps
  <2>1. [Rest EXCEPT !.op = "update", !.one = m, !.edit = edit].op = "update"
    BY DEF Rest
  <2> QED
    BY <1>1, <1>6, <2>1 DEF UpdateAnnouncement
<1>7. CASE UNCHANGED <<work, broadcasts>>
  BY <1>7
<1> QED
  BY <1>3, <1>4, <1>5, <1>6, <1>7
     DEF NewsNext, RemoveAnnouncement, DateComes, newsVars

\* An announcement on the schedule stays unsent.
LEMMA ScheduledStep ==
  ASSUME NewsTypeOK, BroadcastInv, [NewsNext]_newsVars, NEW n \in News,
         news'[n].status \in {"NONE", "SCHEDULED"}
  PROVE  broadcasts'[n] = 0 /\ Sending(n)' = {}
<1> USE DEF NewsTypeOK, Sending
<1>1. ASSUME NEW w \in Senders, NEW job, Goes(w, job),
             job.op = "send" => job.one # n
      PROVE  Sending(n)' \subseteq Sending(n)
  BY <1>1 DEF Goes
<1>2. /\ Rest.op = "idle"
      /\ \A job : After(job).op \in {"idle", "publish"}
      /\ \A S : [Rest EXCEPT !.op = "publish", !.todo = S].op = "publish"
      /\ \A m, edit : [Rest EXCEPT !.op = "update", !.one = m,
                                   !.edit = edit].op = "update"
  BY DEF Rest, After
<1> DEFINE Kept == /\ news[n].status \in {"NONE", "SCHEDULED"}
                   /\ Sending(n)' \subseteq Sending(n)
                   /\ Sending(n) = {} => broadcasts'[n] = broadcasts[n]
<1>3. ASSUME NEW w \in Senders, Proceeds(w)
      PROVE  Kept
  <2>1. CASE MarkPublished(w)
    <3> DEFINE job == [work[w] EXCEPT !.op = "send"]
               m == work[w].one
    <3>1. Goes(w, job) /\ UNCHANGED broadcasts
      BY <2>1 DEF MarkPublished
    <3>2. job.one = m
      BY DEF SenderWork
    <3>3. news' = [news EXCEPT ![m] =
                    [news[m] EXCEPT !.status = "PUBLISHED", !.at = "none"]]
      BY <2>1 DEF MarkPublished
    <3>4. m # n /\ news'[n] = news[n]
      BY <3>3 DEF Row
    <3> HIDE DEF job, m
    <3> QED
      BY <1>1, <3>1, <3>2, <3>4
  <2>2. CASE MarkDeleted(w)
    BY <1>1, <1>2, <2>2 DEF MarkDeleted
  <2>3. CASE Send(w)
    <3>1. Sending(n)' \subseteq Sending(n) /\ UNCHANGED news
      BY <1>1, <1>2, <2>3 DEF Send
    <3>2. Sending(n) = {} => work[w].one # n
      BY <2>3 DEF Send
    <3>3. work[w].one # n => broadcasts'[n] = broadcasts[n]
      BY <2>3 DEF Send
    <3> QED
      BY <3>1, <3>2, <3>3
  <2>4. CASE ExpireDueNews(w)
    <3>1. news[n].status \in {"NONE", "SCHEDULED"}
      BY <2>4 DEF ExpireDueNews, Row, NewsStatus
    <3> QED
      BY <1>1, <1>2, <2>4, <3>1 DEF ExpireDueNews
  <2>5. CASE WriteUpdate(w)
    <3>1. Sending(n)' \subseteq Sending(n) /\ UNCHANGED broadcasts
      BY <1>1, <1>2, <2>5 DEF WriteUpdate
    <3>2. work[w].edit.to \in {"keep", "PUBLISHED", "CANCELLED", "EXPIRED"}
      BY DEF SenderWork, Edit
    <3>3. news[n].status \in {"NONE", "SCHEDULED"}
      BY <2>5, <3>2 DEF WriteUpdate, Row
    <3> QED
      BY <3>1, <3>3
  <2>6. ASSUME NEW m \in News, FindToPublish(w, m)
        PROVE  Kept
    <3>1. UNCHANGED <<news, broadcasts>>
      BY <2>6 DEF FindToPublish
    <3>2. CASE news[m].status = "SCHEDULED"
      <4> DEFINE job == [[work[w] EXCEPT !.todo = @ \ {m}]
                           EXCEPT !.op = "mark", !.one = m]
      <4>1. Goes(w, job)
        BY <2>6, <3>2 DEF FindToPublish
      <4>2. job.op = "mark"
        BY DEF SenderWork
      <4> HIDE DEF job
      <4> QED
        BY <1>1, <3>1, <4>1, <4>2
    <3>3. CASE news[m].status # "SCHEDULED"
      BY <1>1, <1>2, <2>6, <3>1, <3>3 DEF FindToPublish
    <3> QED
      BY <3>2, <3>3
  <2> QED
    BY <1>3, <2>1, <2>2, <2>3, <2>4, <2>5, <2>6 DEF Proceeds
<1>4. ASSUME NEW w \in Senders, PublishDue(w) \/ Fails(w)
      PROVE  Kept
  BY <1>1, <1>2, <1>4 DEF PublishDue, Fails
<1>5. ASSUME NEW w \in Senders, NEW m \in News, NEW at,
             CreateAnnouncement(w, m, at)
      PROVE  Kept
  <2>1. news[n].status \in {"NONE", "SCHEDULED"}
    BY <1>5 DEF CreateAnnouncement, Row
  <2> QED
    BY <1>1, <1>2, <1>5, <2>1 DEF CreateAnnouncement
<1>6. ASSUME NEW w \in Senders, NEW m \in News, NEW edit,
             UpdateAnnouncement(w, m, edit)
      PROVE  Kept
  BY <1>1, <1>2, <1>6 DEF UpdateAnnouncement
<1>7. ASSUME NEW m \in News, RemoveAnnouncement(m) \/ DateComes(m)
      PROVE  Kept
  BY <1>7 DEF RemoveAnnouncement, DateComes, Row
<1>8. ASSUME UNCHANGED newsVars
      PROVE  Kept
  BY <1>8 DEF newsVars
<1> QED
  <2>1. Kept
    BY <1>3, <1>4, <1>5, <1>6, <1>7, <1>8 DEF NewsNext
  <2> QED
    BY <2>1 DEF BroadcastInv

\* The invariant is inductive.
LEMMA BroadcastInductive ==
  NewsTypeOK /\ BroadcastInv /\ [NewsNext]_newsVars => BroadcastInv'
<1> SUFFICES ASSUME NewsTypeOK, BroadcastInv, [NewsNext]_newsVars,
                    NEW n \in News
             PROVE  broadcasts'[n] + Cardinality(Publishing(n)')
                      <= Cardinality(Senders)
  BY ScheduledStep DEF BroadcastInv
<1> DEFINE all == Cardinality(Senders)
           before == Cardinality(Publishing(n))
           after == Cardinality(Publishing(n)')
<1>1. /\ all \in Nat /\ before \in Nat /\ after \in Nat
      /\ broadcasts[n] \in Nat
      /\ broadcasts[n] + before <= all
      /\ after <= all
  BY WorkerCardinality DEF Publishing, NewsTypeOK, BroadcastInv
<1>2. CASE broadcasts'[n] = 0
  <2> HIDE DEF all, after
  <2> QED
    BY <1>1, <1>2 DEF all, after
<1>3. CASE /\ broadcasts'[n] = broadcasts[n]
           /\ Publishing(n)' \subseteq Publishing(n)
  <2>1. after <= before
    BY <1>3, WorkerCardinality DEF Publishing
  <2> HIDE DEF all, before, after
  <2>2. broadcasts'[n] + after <= all
    BY <1>1, <1>3, <2>1
  <2> QED
    BY <2>2 DEF all, after
<1>4. ASSUME NEW w \in Publishing(n), broadcasts'[n] = broadcasts[n] + 1,
             Publishing(n)' \subseteq Publishing(n) \ {w}
      PROVE  broadcasts'[n] + after <= all
  <2>1. Publishing(n) \in SUBSET Senders
    BY DEF Publishing
  <2>2. /\ Cardinality(Publishing(n) \ {w}) = before - 1
        /\ after <= Cardinality(Publishing(n) \ {w})
    BY <1>4, <2>1, WorkerCardinality
  <2> HIDE DEF all, before, after
  <2> QED
    BY <1>1, <1>4, <2>2
<1> QED
  BY <1>2, <1>3, <1>4, BroadcastStep

\* An announcement reaches its audience at most as often as workers can be
\* in flight together, whatever fails.
THEOREM BroadcastIsBounded == NewsSpec => []BroadcastsBounded
<1>1. NewsInit => BroadcastInv
  <2> SUFFICES ASSUME NewsInit, NEW n \in News
               PROVE  /\ broadcasts[n] = 0 /\ Sending(n) = {}
                      /\ broadcasts[n] + Cardinality(Publishing(n))
                           <= Cardinality(Senders)
    BY DEF BroadcastInv
  <2>1. broadcasts[n] = 0 /\ Sending(n) = {}
    BY DEF NewsInit, Sending, Rest
  <2>2. /\ Publishing(n) \in SUBSET Senders
        /\ Cardinality(Publishing(n)) \in Nat
        /\ Cardinality(Publishing(n)) <= Cardinality(Senders)
    BY WorkerCardinality DEF Publishing
  <2> QED
    BY <2>1, <2>2
<1>2. NewsTypeOK /\ BroadcastInv => BroadcastsBounded
  <2> SUFFICES ASSUME NewsTypeOK, BroadcastInv, NEW n \in News
               PROVE  broadcasts[n] <= Cardinality(Senders)
    BY DEF BroadcastsBounded
  <2>1. /\ Cardinality(Publishing(n)) \in Nat /\ Cardinality(Senders) \in Nat
        /\ broadcasts[n] \in Nat
        /\ broadcasts[n] + Cardinality(Publishing(n)) <= Cardinality(Senders)
    BY WorkerCardinality DEF Publishing, NewsTypeOK, BroadcastInv
  <2> QED
    BY <2>1
<1> QED
  BY <1>1, <1>2, BroadcastInductive, NewsTypeInductive, NewsTypeCorrect, PTL
     DEF NewsSpec

-----------------------------------------------------------------------------
(* The inbox. *)

Tally == 0 .. Cardinality(Notes)

NoteRow == [user : Users \cup {Noone}, read : BOOLEAN, archived : BOOLEAN]

PushCall(users) == [op : {"push"}, users : {users}, counts : [users -> Tally]]

HandCall ==
  {Off}
  \cup [op : {"notify"}, users : SUBSET Users, to : SUBSET Users]
  \cup [op : ChangeKinds, by : Users, note : Notes]
  \cup [op : {"count"}, users : SUBSET Users]
  \cup UNION {PushCall(users) : users \in SUBSET Users}

InboxTypes == InboxTypeOK /\ hand \in [Hands -> HandCall]

\* What is about to be pushed to a user whom nothing blurs is still right.
PushesAreRight ==
  \A u \in Users \ blurred : \A h \in Hands :
    hand[h].op = "push" /\ u \in hand[h].users => hand[h].counts[u] = Unread(u)

InboxInv == InboxTypes /\ BadgeIsRight /\ PushesAreRight

Shows(n, u) == note[n].user = u /\ ~note[n].read /\ ~note[n].archived

LEMMA UnreadIsTally == \A u : Unread(u) \in Tally
<1> TAKE u
<1> DEFINE S == {n \in Notes : /\ note[n].user = u
                               /\ ~note[n].read /\ ~note[n].archived}
<1>1. IsFiniteSet(Notes) /\ S \subseteq Notes
  BY InboxAssumption
<1>2. /\ IsFiniteSet(S) /\ Cardinality(S) <= Cardinality(Notes)
      /\ Cardinality(S) \in Nat /\ Cardinality(Notes) \in Nat
  BY <1>1, FS_Subset, FS_CardinalityType
<1>3. Unread(u) = Cardinality(S)
  BY DEF Unread
<1> HIDE DEF S
<1> QED
  BY <1>2, <1>3 DEF Tally

LEMMA UnreadStays ==
  ASSUME NEW u, \A n \in Notes : Shows(n, u) <=> Shows(n, u)'
  PROVE  Unread(u)' = Unread(u)
<1>1. {n \in Notes : note'[n].user = u /\ ~note'[n].read /\ ~note'[n].archived}
      = {n \in Notes : note[n].user = u /\ ~note[n].read /\ ~note[n].archived}
  BY DEF Shows
<1> QED
  BY <1>1 DEF Unread

\* A write that changes the unread notifications of users, and who goes on to
\* count for whom.
LEMMA NoteStep ==
  ASSUME InboxInv, NEW users \in SUBSET Users, NEW pushed,
         Blur(users, pushed), badge' = badge, muted' \subseteq Users,
         note' \in [Notes -> NoteRow], hands' \in 0 .. MaxHands,
         hand' \in [Hands -> HandCall],
         \A u \in Users \ users : \A n \in Notes :
           note[n].user = u /\ ~note[n].read /\ ~note[n].archived
           <=> note'[n].user = u /\ ~note'[n].read /\ ~note'[n].archived,
         \A u \in users \cap pushed :
           \E h \in Hands : hand'[h].op = "count" /\ u \in hand'[h].users,
         \A h \in Hands : hand[h].op \in {"count", "push"} => hand'[h] = hand[h],
         \A h \in Hands : hand'[h].op = "push" => hand'[h] = hand[h]
  PROVE  InboxInv'
<1>1. InboxTypes /\ BadgeIsRight /\ PushesAreRight /\ InboxTypeOK
  BY DEF InboxInv, InboxTypes
<1>2. blurred' = blurred \cup {u \in users : u \notin pushed \/ Counting(u)}
  BY DEF Blur
<1>3. InboxTypes'
  BY <1>1, <1>2 DEF InboxTypes, InboxTypeOK, NoteRow
<1>4. ASSUME NEW u \in Users \ blurred'
      PROVE  /\ u \notin blurred
             /\ u \in users => u \in pushed /\ ~Counting(u)
             /\ u \notin users => Unread(u)' = Unread(u)
             /\ u \in users \/ Counting(u) => Counting(u)'
  <2>1. u \notin blurred /\ (u \in users => u \in pushed /\ ~Counting(u))
    BY <1>2
  <2>2. u \notin users => Unread(u)' = Unread(u)
    BY UnreadStays DEF Shows
  <2>3. u \in users \/ Counting(u) => Counting(u)'
    BY <2>1 DEF Counting
  <2> QED
    BY <2>1, <2>2, <2>3
<1>5. BadgeIsRight'
  <2> SUFFICES ASSUME NEW u \in Users \ blurred', ~Counting(u)'
               PROVE  badge'[u] = Unread(u)'
    BY DEF BadgeIsRight
  <2>1. u \notin blurred /\ u \notin users /\ ~Counting(u) /\ Unread(u)' = Unread(u)
    BY <1>4
  <2>2. badge[u] = Unread(u)
    BY <1>1, <2>1 DEF BadgeIsRight
  <2> QED
    BY <2>1, <2>2
<1>6. PushesAreRight'
  <2> SUFFICES ASSUME NEW u \in Users \ blurred', NEW h \in Hands,
                      hand'[h].op = "push", u \in hand'[h].users
               PROVE  hand'[h].counts[u] = Unread(u)'
    BY DEF PushesAreRight
  <2>1. hand'[h] = hand[h]
    OBVIOUS
  <2>2. Counting(u)
    BY <2>1 DEF Counting
  <2>3. u \notin users /\ u \notin blurred /\ Unread(u)' = Unread(u)
    BY <1>4, <2>2
  <2>4. hand[h].counts[u] = Unread(u)
    BY <1>1, <2>1, <2>3 DEF PushesAreRight
  <2> QED
    BY <2>1, <2>3, <2>4
<1> QED
  BY <1>3, <1>5, <1>6 DEF InboxInv

\* The same for a write to one notification.
LEMMA OneNoteStep ==
  ASSUME InboxInv, NEW h \in Hands, NEW n \in Notes, NEW row \in NoteRow,
         NEW request \in HandCall, NEW pushed,
         note[n].user # Noone, row.user \in {note[n].user, Noone},
         note' = [note EXCEPT ![n] = row], Blur({note[n].user}, pushed),
         hand[h].op \notin {"count", "push"},
         hand' = [hand EXCEPT ![h] = request], request.op # "push",
         note[n].user \in pushed =>
           request.op = "count" /\ note[n].user \in request.users,
         UNCHANGED <<muted, badge, hands>>
  PROVE  InboxInv'
<1>1. /\ note \in [Notes -> NoteRow] /\ hand \in [Hands -> HandCall]
      /\ hands \in 0 .. MaxHands /\ muted \subseteq Users
  BY DEF InboxInv, InboxTypes, InboxTypeOK, NoteRow
<1>2. /\ note' \in [Notes -> NoteRow] /\ hand' \in [Hands -> HandCall]
      /\ hand'[h] = request /\ \A g \in Hands \ {h} : hand'[g] = hand[g]
      /\ note'[n] = row /\ \A m \in Notes \ {n} : note'[m] = note[m]
  BY <1>1
<1>3. {note[n].user} \in SUBSET Users
  BY <1>1 DEF NoteRow
<1>4. \A u \in Users \ {note[n].user} : \A m \in Notes :
        note[m].user = u /\ ~note[m].read /\ ~note[m].archived
        <=> note'[m].user = u /\ ~note'[m].read /\ ~note'[m].archived
  BY <1>1, <1>2, InboxAssumption
<1>5. \A u \in {note[n].user} \cap pushed :
        \E g \in Hands : hand'[g].op = "count" /\ u \in hand'[g].users
  BY <1>2
<1>6. /\ \A g \in Hands : hand[g].op \in {"count", "push"} => hand'[g] = hand[g]
      /\ \A g \in Hands : hand'[g].op = "push" => hand'[g] = hand[g]
  BY <1>2
<1> QED
  BY <1>1, <1>2, <1>3, <1>4, <1>5, <1>6, NoteStep

\* A request begins or ends that writes nothing, or a preference changes.
LEMMA QuietStep ==
  ASSUME InboxInv, UNCHANGED <<note, badge, blurred>>, muted' \subseteq Users,
         hands' \in 0 .. MaxHands, hand' \in [Hands -> HandCall],
         \A h \in Hands :
           \/ hand'[h] = hand[h]
           \/ hand[h].op \notin {"count", "push"} /\ hand'[h].op \notin {"count", "push"}
  PROVE  InboxInv'
<1>1. Blur({}, {})
  BY DEF Blur
<1>2. note' \in [Notes -> NoteRow]
  BY DEF InboxInv, InboxTypes, InboxTypeOK, NoteRow
<1> QED
  BY <1>1, <1>2, NoteStep

\* The call a request holds, by what it does next.
LEMMA HandByOp ==
  ASSUME NEW request \in HandCall
  PROVE  /\ request.op \in ChangeKinds => request.by \in Users /\ request.note \in Notes
         /\ request.op \in {"notify", "count", "push"} => request.users \in SUBSET Users
         /\ request.op = "notify" => request.to \in SUBSET Users
         /\ request.op = "push" => request.counts \in [request.users -> Tally]
<1>1. CASE request = Off
  BY <1>1 DEF Off, ChangeKinds, PortalKinds
<1>2. CASE request \in [op : {"notify"}, users : SUBSET Users, to : SUBSET Users]
  BY <1>2 DEF ChangeKinds, PortalKinds
<1>3. CASE request \in [op : ChangeKinds, by : Users, note : Notes]
  BY <1>3 DEF ChangeKinds, PortalKinds
<1>4. CASE request \in [op : {"count"}, users : SUBSET Users]
  BY <1>4 DEF ChangeKinds, PortalKinds
<1>5. ASSUME NEW users \in SUBSET Users, request \in PushCall(users)
      PROVE  /\ request.op = "push" /\ request.users \in SUBSET Users
             /\ request.counts \in [request.users -> Tally]
  BY <1>5 DEF PushCall
<1> QED
  BY <1>1, <1>2, <1>3, <1>4, <1>5 DEF HandCall, ChangeKinds, PortalKinds

\* Several notifications are sent at once.
LEMMA NotifyStep ==
  ASSUME InboxInv, NEW h \in Hands, hand[h].op = "notify",
         NEW id \in [hand[h].to -> Notes], Notify(h, id)
  PROVE  InboxInv'
<1> DEFINE to == hand[h].to
           users == hand[h].users
           Receiver(n) == CHOOSE u \in to : id[u] = n
<1>1. /\ note \in [Notes -> NoteRow] /\ hand \in [Hands -> HandCall]
      /\ hands \in 0 .. MaxHands /\ muted \subseteq Users
  BY DEF InboxInv, InboxTypes, InboxTypeOK, NoteRow
<1>2. to \in SUBSET Users /\ users \in SUBSET Users
  BY <1>1, HandByOp
<1>3. /\ \A u \in to : note[id[u]] = NoNote
      /\ note' = [n \in Notes |->
           IF \E u \in to : id[u] = n
           THEN [NoNote EXCEPT !.user = Receiver(n)]
           ELSE note[n]]
      /\ hand' = [hand EXCEPT ![h] = [op |-> "count", users |-> users]]
      /\ Blur(to, users)
      /\ UNCHANGED <<muted, badge, hands>>
  BY DEF Notify, ToCount
<1>0. ASSUME NEW n \in Notes, \E u \in to : id[u] = n
      PROVE  Receiver(n) \in to /\ id[Receiver(n)] = n
  BY <1>0
<1> HIDE DEF to, users, Receiver
<1>4. ASSUME NEW n \in Notes
      PROVE  \/ note'[n] = note[n]
             \/ /\ note[n].user = Noone
                /\ \E u \in to : note'[n] = [user |-> u, read |-> FALSE, archived |-> FALSE]
  <2>1. CASE \E u \in to : id[u] = n
    <3>1. Receiver(n) \in to /\ id[Receiver(n)] = n
      BY <1>0, <2>1
    <3>2. note'[n] = [user |-> Receiver(n), read |-> FALSE, archived |-> FALSE]
      BY <1>3, <2>1 DEF NoNote
    <3>3. note[n].user = Noone
      BY <1>3, <3>1 DEF NoNote
    <3> QED
      BY <3>1, <3>2, <3>3
  <2>2. CASE ~\E u \in to : id[u] = n
    BY <1>3, <2>2
  <2> QED
    BY <2>1, <2>2
<1>5. note' \in [Notes -> NoteRow]
  <2>1. ASSUME NEW n \in Notes
        PROVE  note'[n] \in NoteRow
    <3>1. CASE note'[n] = note[n]
      BY <1>1, <3>1
    <3>2. ASSUME NEW u \in to,
                 note'[n] = [user |-> u, read |-> FALSE, archived |-> FALSE]
          PROVE  note'[n] \in NoteRow
      BY <1>2, <3>2 DEF NoteRow
    <3> QED
      BY <1>4, <3>1, <3>2
  <2>2. note' = [n \in Notes |-> note'[n]]
    BY <1>3
  <2> QED
    BY <2>1, <2>2
<1>6. ASSUME NEW u \in Users \ to, NEW n \in Notes
      PROVE  note[n].user = u /\ ~note[n].read /\ ~note[n].archived
             <=> note'[n].user = u /\ ~note'[n].read /\ ~note'[n].archived
  <2>1. CASE note'[n] = note[n]
    BY <2>1
  <2>2. ASSUME note[n].user = Noone, NEW v \in to,
               note'[n] = [user |-> v, read |-> FALSE, archived |-> FALSE]
        PROVE  note[n].user # u /\ note'[n].user # u
    BY <2>2, InboxAssumption
  <2> QED
    BY <1>4, <2>1, <2>2
<1>7. [op |-> "count", users |-> users] \in HandCall
  BY <1>2 DEF HandCall
<1>8. /\ hand' \in [Hands -> HandCall] /\ hand'[h].op = "count" /\ hand'[h].users = users
      /\ \A g \in Hands \ {h} : hand'[g] = hand[g]
  BY <1>1, <1>3, <1>7
<1>9. /\ \A u \in to \cap users :
           \E g \in Hands : hand'[g].op = "count" /\ u \in hand'[g].users
      /\ \A g \in Hands : hand[g].op \in {"count", "push"} => hand'[g] = hand[g]
      /\ \A g \in Hands : hand'[g].op = "push" => hand'[g] = hand[g]
  BY <1>8
<1> QED
  BY <1>1, <1>2, <1>3, <1>5, <1>6, <1>8, <1>9, NoteStep

\* All of a user's notifications are marked at once, or those of everyone.
LEMMA MarkAllStep ==
  ASSUME InboxInv, NEW marked \in SUBSET Notes, NEW users \in SUBSET Users, NEW pushed,
         \A n \in marked : note[n].user \in users \/ note[n].read,
         note' = [n \in Notes |->
           IF n \in marked THEN [note[n] EXCEPT !.read = TRUE] ELSE note[n]],
         Blur(users, pushed), UNCHANGED <<muted, badge>>,
         hands' \in 0 .. MaxHands, hand' \in [Hands -> HandCall],
         \A u \in users \cap pushed :
           \E g \in Hands : hand'[g].op = "count" /\ u \in hand'[g].users,
         \A g \in Hands : hand[g].op \in {"count", "push"} => hand'[g] = hand[g],
         \A g \in Hands : hand'[g].op = "push" => hand'[g] = hand[g]
  PROVE  InboxInv'
<1>1. note \in [Notes -> NoteRow] /\ muted \subseteq Users
  BY DEF InboxInv, InboxTypes, InboxTypeOK, NoteRow
<1>2. note' \in [Notes -> NoteRow]
  BY <1>1 DEF NoteRow
<1>3. \A u \in Users \ users : \A n \in Notes :
        note[n].user = u /\ ~note[n].read /\ ~note[n].archived
        <=> note'[n].user = u /\ ~note'[n].read /\ ~note'[n].archived
  <2> SUFFICES ASSUME NEW u \in Users \ users, NEW n \in Notes
               PROVE  note[n].user = u /\ ~note[n].read /\ ~note[n].archived
                      <=> note'[n].user = u /\ ~note'[n].read /\ ~note'[n].archived
    OBVIOUS
  <2>1. CASE n \in marked
    <3>1. /\ note'[n] = [note[n] EXCEPT !.read = TRUE] /\ note[n] \in NoteRow
          /\ note[n].user \in users \/ note[n].read
      BY <1>1, <2>1
    <3> QED
      BY <3>1 DEF NoteRow
  <2>2. CASE n \notin marked
    BY <2>2
  <2> QED
    BY <2>1, <2>2
<1> QED
  BY <1>1, <1>2, <1>3, NoteStep

\* A request counts: what it will push is right, whoever counts beside it.
LEMMA CountStep ==
  ASSUME InboxInv, NEW h \in Hands, CountUnread(h)
  PROVE  InboxInv'
<1> DEFINE users == hand[h].users
           request == [op |-> "push", users |-> users, counts |-> [u \in users |-> Unread(u)]]
<1>1. /\ InboxTypes /\ InboxTypeOK /\ BadgeIsRight /\ PushesAreRight
      /\ hand \in [Hands -> HandCall]
  BY DEF InboxInv, InboxTypes
<1>2. hand[h].op = "count" /\ users \in SUBSET Users
  BY <1>1, HandByOp DEF CountUnread
<1>3. request \in HandCall
  <2>1. request \in PushCall(users)
    BY UnreadIsTally DEF PushCall
  <2> HIDE DEF request
  <2> QED
    BY <1>2, <2>1 DEF HandCall
<1>4. /\ hand' = [hand EXCEPT ![h] = request]
      /\ UNCHANGED <<note, muted, badge, hands, blurred>>
  BY DEF CountUnread
<1>5. /\ request.op = "push" /\ request.users = users
      /\ \A u \in users : request.counts[u] = Unread(u)
  OBVIOUS
<1> HIDE DEF users, request
<1>6. /\ hand' \in [Hands -> HandCall] /\ hand'[h] = request
      /\ \A g \in Hands \ {h} : hand'[g] = hand[g]
  BY <1>1, <1>3, <1>4
<1>7. \A u : Unread(u)' = Unread(u)
  BY <1>4 DEF Unread
<1>8. InboxTypes'
  BY <1>1, <1>4, <1>6 DEF InboxTypes, InboxTypeOK
<1>9. \A u \in Users : Counting(u) => Counting(u)'
  BY <1>2, <1>5, <1>6 DEF Counting, users
<1>10. BadgeIsRight'
  BY <1>1, <1>4, <1>7, <1>9 DEF BadgeIsRight
<1>11. PushesAreRight'
  BY <1>1, <1>4, <1>5, <1>6, <1>7 DEF PushesAreRight
<1> QED
  BY <1>8, <1>10, <1>11 DEF InboxInv

\* A request pushes what it counted; alone, it makes the badges right again.
LEMMA PushStep ==
  ASSUME InboxInv, NEW h \in Hands, PushBadge(h)
  PROVE  InboxInv'
<1> DEFINE users == hand[h].users
           counts == hand[h].counts
<1>1. /\ InboxTypes /\ InboxTypeOK /\ BadgeIsRight /\ PushesAreRight
      /\ hand \in [Hands -> HandCall] /\ badge \in [Users -> Tally]
      /\ blurred \subseteq Users
      /\ Off \in HandCall /\ Off.op = "off"
  BY DEF InboxInv, InboxTypes, InboxTypeOK, Tally, Off, HandCall
<1>2. hand[h].op = "push" /\ users \in SUBSET Users /\ counts \in [users -> Tally]
  BY <1>1, HandByOp DEF PushBadge
<1>3. /\ badge' = [u \in Users |-> IF u \in users THEN counts[u] ELSE badge[u]]
      /\ blurred' = {u \in blurred : \/ u \notin users
                                     \/ counts[u] # Unread(u)
                                     \/ \E g \in Hands \ {h} : hand[g] # Off}
      /\ hand' = [hand EXCEPT ![h] = Off]
      /\ UNCHANGED <<note, muted, hands>>
  BY DEF PushBadge, Done
<1> HIDE DEF users, counts
<1>4. /\ hand' \in [Hands -> HandCall] /\ hand'[h] = Off
      /\ \A g \in Hands \ {h} : hand'[g] = hand[g]
  BY <1>1, <1>3
<1>5. \A u : Unread(u)' = Unread(u)
  BY <1>3 DEF Unread
<1>6. badge' \in [Users -> Tally] /\ blurred' \subseteq Users
  BY <1>1, <1>2, <1>3
<1>7. InboxTypes'
  BY <1>1, <1>3, <1>4, <1>6 DEF InboxTypes, InboxTypeOK, Tally
<1>8. ASSUME NEW u \in Users \ blurred', u \in users
      PROVE  counts[u] = Unread(u)
  <2>1. CASE u \in blurred
    BY <1>3, <1>8, <2>1
  <2>2. CASE u \notin blurred
    BY <1>1, <1>2, <1>8, <2>2 DEF PushesAreRight, users, counts
  <2> QED
    BY <2>1, <2>2
<1>9. ASSUME NEW u \in Users, u \notin users, Counting(u)
      PROVE  Counting(u)'
  BY <1>2, <1>4, <1>9 DEF Counting, users
<1>10. BadgeIsRight'
  <2> SUFFICES ASSUME NEW u \in Users \ blurred', ~Counting(u)'
               PROVE  badge'[u] = Unread(u)'
    BY DEF BadgeIsRight
  <2>1. CASE u \in users
    BY <1>3, <1>5, <1>8, <2>1
  <2>2. CASE u \notin users
    BY <1>1, <1>3, <1>5, <1>9, <2>2 DEF BadgeIsRight
  <2> QED
    BY <2>1, <2>2
<1>11. PushesAreRight'
  <2> SUFFICES ASSUME NEW u \in Users \ blurred', NEW g \in Hands,
                      hand'[g].op = "push", u \in hand'[g].users
               PROVE  hand'[g].counts[u] = Unread(u)'
    BY DEF PushesAreRight
  <2>1. g # h /\ hand'[g] = hand[g] /\ hand[g] # Off
    BY <1>1, <1>4
  <2>2. u \notin blurred
    BY <1>3, <2>1
  <2> QED
    BY <1>1, <1>5, <2>1, <2>2 DEF PushesAreRight
<1> QED
  BY <1>7, <1>10, <1>11 DEF InboxInv

\* A request dies; the badges it was to push are blurred.
LEMMA DropStep ==
  ASSUME InboxInv, NEW h \in Hands, DropHand(h)
  PROVE  InboxInv'
<1>1. /\ InboxTypes /\ InboxTypeOK /\ BadgeIsRight /\ PushesAreRight
      /\ hand \in [Hands -> HandCall] /\ blurred \subseteq Users
      /\ Off \in HandCall /\ Off.op = "off"
  BY DEF InboxInv, InboxTypes, InboxTypeOK, Off, HandCall
<1>2. /\ blurred' = IF hand[h].op \in {"count", "push"}
                    THEN blurred \cup hand[h].users ELSE blurred
      /\ hand' = [hand EXCEPT ![h] = Off]
      /\ UNCHANGED <<note, muted, badge, hands>>
  BY DEF DropHand, Done
<1>3. hand[h].op \in {"count", "push"} => hand[h].users \in SUBSET Users
  BY <1>1, HandByOp
<1>4. /\ hand' \in [Hands -> HandCall] /\ hand'[h] = Off
      /\ \A g \in Hands \ {h} : hand'[g] = hand[g]
  BY <1>1, <1>2
<1>5. \A u : Unread(u)' = Unread(u)
  BY <1>2 DEF Unread
<1>6. blurred' \subseteq Users /\ blurred \subseteq blurred'
  BY <1>1, <1>2, <1>3
<1>7. InboxTypes'
  BY <1>1, <1>2, <1>4, <1>6 DEF InboxTypes, InboxTypeOK
<1>8. \A u \in Users \ blurred' : Counting(u) => Counting(u)'
  BY <1>2, <1>4 DEF Counting
<1>9. BadgeIsRight'
  BY <1>1, <1>2, <1>5, <1>6, <1>8 DEF BadgeIsRight
<1>10. PushesAreRight'
  BY <1>1, <1>4, <1>5, <1>6 DEF PushesAreRight
<1> QED
  BY <1>7, <1>9, <1>10 DEF InboxInv

LEMMA InboxInductive == InboxInv /\ [InboxNext]_inboxVars => InboxInv'
<1> SUFFICES ASSUME InboxInv, [InboxNext]_inboxVars
             PROVE  InboxInv'
  OBVIOUS
<1> USE InboxAssumption
<1>0. /\ note \in [Notes -> NoteRow] /\ hand \in [Hands -> HandCall]
      /\ hands \in 0 .. MaxHands /\ muted \subseteq Users /\ blurred \subseteq Users
      /\ badge \in [Users -> Tally]
      /\ BadgeIsRight /\ PushesAreRight
  BY DEF InboxInv, InboxTypes, InboxTypeOK, NoteRow, Tally
<1>1. Off \in HandCall /\ Off.op = "off"
  BY DEF HandCall, Off
<1>2. ASSUME NEW h \in Hands, NEW request \in HandCall, Hold(h, request),
             request.op \notin {"count", "push"}
      PROVE  InboxInv'
  <2>1. /\ hand[h] = Off /\ hand' = [hand EXCEPT ![h] = request]
        /\ UNCHANGED <<note, muted, badge, blurred>>
    BY <1>2 DEF Hold
  <2>2. hands' \in 0 .. MaxHands
    BY <1>0, <1>2 DEF Hold
  <2>3. /\ hand' \in [Hands -> HandCall]
        /\ \A g \in Hands : \/ hand'[g] = hand[g]
                            \/ /\ hand[g].op \notin {"count", "push"}
                               /\ hand'[g].op \notin {"count", "push"}
    BY <1>0, <1>1, <1>2, <2>1
  <2> QED
    BY <1>0, <2>1, <2>2, <2>3, QuietStep
<1>3. ASSUME NEW h \in Hands, NEW users \in SUBSET Users, BeginNotify(h, users)
      PROVE  InboxInv'
  <2> DEFINE request == [op |-> "notify", users |-> users, to |-> users \ muted]
  <2>1. request \in HandCall /\ request.op \notin {"count", "push"}
    BY DEF HandCall
  <2> QED
    BY <1>2, <1>3, <2>1 DEF BeginNotify
<1>4. ASSUME NEW h \in Hands, NEW u \in Users, NEW n \in Notes, NEW kind \in ChangeKinds,
             BeginChange(h, u, n, kind)
      PROVE  InboxInv'
  <2> DEFINE request == [op |-> kind, by |-> u, note |-> n]
  <2>1. request \in HandCall /\ request.op \notin {"count", "push"}
    BY DEF HandCall, ChangeKinds, PortalKinds
  <2> QED
    BY <1>2, <1>4, <2>1 DEF BeginChange
<1>5. ASSUME NEW h \in Hands, hand[h].op = "notify", NEW id \in [hand[h].to -> Notes],
             Notify(h, id)
      PROVE  InboxInv'
  BY <1>5, NotifyStep
<1>6. ASSUME NEW h \in Hands, NEW kind \in ChangeKinds, Present(h, kind)
      PROVE  /\ hand[h].by \in Users /\ hand[h].note \in Notes
             /\ note[hand[h].note] \in NoteRow /\ note[hand[h].note].user # Noone
             /\ hand[h].op \notin {"count", "push"}
  BY <1>0, <1>6, HandByOp DEF Present, ChangeKinds, PortalKinds
<1>7. ASSUME NEW h \in Hands, MarkAsRead(h) \/ RemoveNote(h)
      PROVE  InboxInv'
  <2> DEFINE n == hand[h].note
             by == hand[h].by
             row == IF hand[h].op = "read" THEN [note[n] EXCEPT !.read = TRUE]
                    ELSE [NoNote EXCEPT !.archived = TRUE]
             request == [op |-> "count", users |-> {by}]
  <2>1. /\ by \in Users /\ n \in Notes /\ note[n] \in NoteRow /\ note[n].user # Noone
        /\ hand[h].op \notin {"count", "push"}
    BY <1>6, <1>7 DEF MarkAsRead, RemoveNote, ChangeKinds
  <2>2. row \in NoteRow /\ row.user \in {note[n].user, Noone}
    BY <2>1 DEF NoteRow, NoNote
  <2>3. note' = [note EXCEPT ![n] = row]
    BY <1>7 DEF MarkAsRead, RemoveNote, Present
  <2>4. /\ Blur({note[n].user}, {by}) /\ hand' = [hand EXCEPT ![h] = request]
        /\ UNCHANGED <<muted, badge, hands>>
    BY <1>7 DEF MarkAsRead, RemoveNote, ToCount
  <2>5. request \in HandCall /\ request.op = "count" /\ request.users = {by}
    BY <2>1 DEF HandCall
  <2> HIDE DEF n, by, row, request
  <2> QED
    BY <2>1, <2>2, <2>3, <2>4, <2>5, OneNoteStep
<1>8. ASSUME NEW h \in Hands,
             \/ PortalMarkAsRead(h) \/ PortalRemove(h)
             \/ \E archived \in BOOLEAN : Archive(h, archived)
      PROVE  InboxInv'
  <2> DEFINE n == hand[h].note
  <2>1. PICK kind \in ChangeKinds : Present(h, kind)
    BY <1>8 DEF PortalMarkAsRead, PortalRemove, PortalWrite, Archive, ChangeKinds, PortalKinds
  <2>2. /\ n \in Notes /\ note[n] \in NoteRow /\ note[n].user # Noone
        /\ hand[h].op \notin {"count", "push"}
    BY <1>6, <2>1
  <2>3. PICK row \in NoteRow : /\ note' = [note EXCEPT ![n] = row]
                               /\ row.user \in {note[n].user, Noone}
    <3>1. CASE PortalMarkAsRead(h)
      <4>1. [note[n] EXCEPT !.read = TRUE] \in NoteRow
        BY <2>2 DEF NoteRow
      <4> QED
        BY <2>2, <3>1, <4>1 DEF PortalMarkAsRead, PortalWrite, NoteRow
    <3>2. CASE PortalRemove(h)
      <4>1. /\ [NoNote EXCEPT !.archived = TRUE] \in NoteRow
            /\ [NoNote EXCEPT !.archived = TRUE].user = Noone
        BY DEF NoteRow, NoNote
      <4> QED
        BY <3>2, <4>1 DEF PortalRemove, PortalWrite
    <3>3. ASSUME NEW archived \in BOOLEAN, Archive(h, archived)
          PROVE  \E row \in NoteRow : /\ note' = [note EXCEPT ![n] = row]
                                      /\ row.user \in {note[n].user, Noone}
      <4> DEFINE row == [note[n] EXCEPT !.archived = archived]
      <4>1. row \in NoteRow /\ row.user = note[n].user
        BY <2>2 DEF NoteRow
      <4>2. note' = [note EXCEPT ![n] = row]
        BY <3>3 DEF Archive
      <4> QED
        BY <4>1, <4>2
    <3> QED
      BY <1>8, <3>1, <3>2, <3>3
  <2>4. /\ Blur({note[n].user}, {}) /\ hand' = [hand EXCEPT ![h] = Off]
        /\ UNCHANGED <<muted, badge, hands>>
    BY <1>8 DEF PortalMarkAsRead, PortalRemove, PortalWrite, Archive, Done
  <2> HIDE DEF n
  <2> QED
    BY <1>1, <2>2, <2>3, <2>4, OneNoteStep
<1>9. ASSUME NEW u \in Users, PortalMarkAllAsRead(u)
      PROVE  InboxInv'
  <2> DEFINE marked == {n \in Notes : note[n].user = u}
  <2>1. note' = [n \in Notes |->
          IF n \in marked THEN [note[n] EXCEPT !.read = TRUE] ELSE note[n]]
    BY <1>9 DEF PortalMarkAllAsRead
  <2>2. /\ Blur(IF note' = note THEN {} ELSE {u}, {})
        /\ UNCHANGED <<muted, badge, hand, hands>>
    BY <1>9 DEF PortalMarkAllAsRead
  <2>3. CASE note' = note
    <3>1. UNCHANGED <<note, badge, blurred>>
      BY <2>2, <2>3 DEF Blur
    <3> QED
      BY <1>0, <2>2, <3>1, QuietStep
  <2>4. CASE note' # note
    <3>1. Blur({u}, {})
      BY <2>2, <2>4
    <3>2. marked \in SUBSET Notes /\ {u} \in SUBSET Users
      OBVIOUS
    <3>3. \A n \in marked : note[n].user \in {u} \/ note[n].read
      OBVIOUS
    <3> HIDE DEF marked
    <3> QED
      BY <1>0, <2>1, <2>2, <3>1, <3>2, <3>3, MarkAllStep
  <2> QED
    BY <2>3, <2>4
<1>10. ASSUME NEW h \in Hands, NEW u \in Users, MarkAllAsRead(h, u)
       PROVE  InboxInv'
  <2> DEFINE mine == {n \in Notes : Reaches(u, n) /\ ~note[n].read}
             pushed == IF u \in Admins THEN {} ELSE {u}
             users == {note[n].user : n \in mine}
             request == [op |-> "count", users |-> pushed]
  <2>1. /\ hand[h] = Off
        /\ note' = [n \in Notes |->
             IF n \in mine THEN [note[n] EXCEPT !.read = TRUE] ELSE note[n]]
        /\ IF pushed = {} THEN UNCHANGED hand ELSE hand' = [hand EXCEPT ![h] = request]
        /\ Blur(users, pushed) /\ UNCHANGED <<muted, badge>>
    BY <1>10 DEF MarkAllAsRead, ToCount
  <2>2. hands' \in 0 .. MaxHands
    BY <1>0, <1>10 DEF MarkAllAsRead
  <2>3. mine \in SUBSET Notes /\ users \in SUBSET Users
    BY <1>0 DEF Reaches
  <2>4. \A n \in mine : note[n].user \in users
    OBVIOUS
  <2>5. request \in HandCall /\ request.op = "count" /\ request.users = pushed
    BY DEF HandCall
  <2> HIDE DEF mine, pushed, users, request
  <2>6. /\ hand' \in [Hands -> HandCall]
        /\ \A v \in pushed : \E g \in Hands : hand'[g].op = "count" /\ v \in hand'[g].users
        /\ \A g \in Hands : hand[g].op \in {"count", "push"} => hand'[g] = hand[g]
        /\ \A g \in Hands : hand'[g].op = "push" => hand'[g] = hand[g]
    BY <1>0, <1>1, <2>1, <2>5
  <2> QED
    BY <2>1, <2>2, <2>3, <2>4, <2>6, MarkAllStep
<1>11. ASSUME NEW h \in Hands, CountUnread(h)
       PROVE  InboxInv'
  BY <1>11, CountStep
<1>12. ASSUME NEW h \in Hands, PushBadge(h)
       PROVE  InboxInv'
  BY <1>12, PushStep
<1>13. ASSUME NEW h \in Hands, DropHand(h)
       PROVE  InboxInv'
  BY <1>13, DropStep
<1>14. ASSUME NEW u \in Users, SetMuted(u)
       PROVE  InboxInv'
  BY <1>0, <1>14, QuietStep DEF SetMuted
<1>15. CASE UNCHANGED inboxVars
  BY <1>0, <1>15, QuietStep DEF inboxVars
<1> QED
  BY <1>3, <1>4, <1>5, <1>7, <1>8, <1>9, <1>10, <1>11, <1>12, <1>13, <1>14, <1>15
  DEF InboxNext

LEMMA InboxInitially == InboxInit => InboxInv
<1> SUFFICES ASSUME InboxInit
             PROVE  InboxInv
  OBVIOUS
<1> USE InboxAssumption
<1>1. \A u \in Users : Unread(u) = 0
  <2> TAKE u \in Users
  <2>1. {n \in Notes : note[n].user = u /\ ~note[n].read /\ ~note[n].archived} = {}
    BY DEF InboxInit, NoNote
  <2> QED
    BY <2>1, FS_EmptySet DEF Unread
<1>2. 0 \in 0 .. Cardinality(Notes) /\ 0 \in 0 .. MaxHands
  BY FS_CardinalityType
<1>3. InboxTypes
  BY <1>2 DEF InboxInit, InboxTypes, InboxTypeOK, NoNote, HandCall
<1>4. BadgeIsRight /\ PushesAreRight
  BY <1>1 DEF InboxInit, BadgeIsRight, PushesAreRight, Off
<1> QED
  BY <1>3, <1>4 DEF InboxInv

LEMMA InboxAlways == InboxSpec => []InboxInv
BY InboxInitially, InboxInductive, PTL DEF InboxSpec

\* Every reachable state of the inbox is well typed.
THEOREM InboxTypeCorrect == InboxSpec => []InboxTypeOK
<1>1. InboxInv => InboxTypeOK
  BY DEF InboxInv, InboxTypes
<1> QED
  BY <1>1, InboxAlways, PTL

\* For any number of users, notifications and requests: while nothing is under
\* way for a user the badge shows the number of his unread notifications, but
\* for the cases the property names.
THEOREM BadgeStaysRight == InboxSpec => []BadgeIsRight
<1>1. InboxInv => BadgeIsRight
  BY DEF InboxInv
<1> QED
  BY <1>1, InboxAlways, PTL
=============================================================================
