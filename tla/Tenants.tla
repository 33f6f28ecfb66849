------------------------------ MODULE Tenants ------------------------------
(***************************************************************************)
(* A tenant: who owns the organization, and what its profile says.  The    *)
(* platform transfers the ownership in one transaction, whose first        *)
(* statement sees the owners there are when it starts and whose effects    *)
(* show when it commits; the owners' commands on members and the joining   *)
(* of invited people go on meanwhile.  updateOrganization reads the        *)
(* profile, changes the fields it is given (two of them inside a JSON      *)
(* column) and writes all of them back.                                    *)
(*                                                                         *)
(* Left out: the organization's status, which no other part looks at, its  *)
(* settings and images, departments, and verification (module Accounts):   *)
(* the founder has verified his address.                                   *)
(***************************************************************************)
EXTENDS Integers, FiniteSets

CONSTANTS
  Members,      \* user rows
  Founder,      \* who registered the organization
  Facts,        \* the fields of the profile
  Offices,      \* requests in flight
  MaxActs       \* bound: requests begun

ASSUME TenantsAssumption == Founder \in Members /\ MaxActs \in Nat

VARIABLES
  member,       \* the user rows
  profile,      \* which request's value each field shows
  office,       \* what each request has read and does next
  acts,         \* requests begun so far
  left,         \* an owner was taken away, or the ownership went to someone
                \* who had left
  shared,       \* an owner was appointed beside another one
  told,         \* for the properties: the value last given to each field
  patched       \* two requests that write the profile overlapped

tenantVars == <<member, profile, office, acts, left, shared, told, patched>>

Roles == {"TENANT_OWNER", "SUPPORT_AGENT", "CUSTOMER"}
MemberStatus == {"ACTIVE", "INACTIVE", "SUSPENDED"}

MemberRow == [org : {"absent", "in", "out"}, role : Roles,
              status : MemberStatus, deleted : BOOLEAN]

Joined(role) == [org |-> "in", role |-> role, status |-> "ACTIVE",
                 deleted |-> FALSE]

AtDesk == [op |-> "none"]

Owners == {m \in Members : /\ member[m].org = "in"
                           /\ member[m].role = "TENANT_OWNER"}

\* Some have joined already.
TenantInit ==
  /\ \E joined \in SUBSET (Members \ {Founder}) :
       member = [m \in Members |->
         IF m = Founder THEN Joined("TENANT_OWNER")
         ELSE IF m \in joined THEN Joined("SUPPORT_AGENT")
         ELSE [Joined("CUSTOMER") EXCEPT !.org = "absent"]]
  /\ profile = [f \in Facts |-> 0]
  /\ office = [o \in Offices |-> AtDesk]
  /\ acts = 0
  /\ left = FALSE /\ shared = FALSE
  /\ told = [f \in Facts |-> 0] /\ patched = FALSE
-----------------------------------------------------------------------------
BeginsAct(o, request) ==
  /\ office[o] = AtDesk
  /\ acts < MaxActs
  /\ acts' = acts + 1
  /\ office' = [office EXCEPT ![o] = request]

Owning(row) == row.org = "in" /\ row.role = "TENANT_OWNER"

\* Transfers in progress did not see this appointment.
Appointed(offices) ==
  [p \in Offices |->
     IF offices[p].op = "demote" THEN [offices[p] EXCEPT !.late = TRUE]
                                 ELSE offices[p]]

\* A row is written by its id; offices are the requests after that.
WritesRow(m, row, offices) ==
  LET appoints == Owning(row) /\ ~Owning(member[m])
      takes == Owning(member[m]) /\ (row.status # "ACTIVE" \/ ~Owning(row))
  IN  /\ member' = [member EXCEPT ![m] = row]
      /\ left' = (left \/ takes)
      /\ shared' = (shared \/ appoints)
      /\ office' = IF appoints THEN Appointed(offices) ELSE offices
      /\ UNCHANGED <<profile, told, patched>>

\* An invitation was accepted, or the platform created a user.
Join(m, role) ==
  /\ member[m].org = "absent" /\ acts < MaxActs
  /\ acts' = acts + 1
  /\ WritesRow(m, Joined(role), office)

\* transferOwnership finds members that were deactivated too.
BeginTransfer(o, m) ==
  /\ member[m].org = "in"
  /\ BeginsAct(o, [op |-> "transfer", member |-> m])
  /\ UNCHANGED <<member, profile, left, shared, told, patched>>

\* The transaction's first statement looks for the owners.
StartTransfer(o) ==
  /\ office[o].op = "transfer"
  /\ office' = [office EXCEPT ![o] =
       [op |-> "demote", member |-> @.member, seen |-> Owners, late |-> FALSE]]
  /\ UNCHANGED <<member, profile, acts, left, shared, told, patched>>

\* Mutant of Transferred: the owner there was stays one.
TransferredBeside(o) ==
  [member EXCEPT ![office[o].member].role = "TENANT_OWNER",
                 ![office[o].member].status = "ACTIVE"]

\* Those seen that are owners still when their rows are free are demoted.
\* The target is found by its id, wherever it belongs by now.
Transferred(o) ==
  LET demoted == [m \in Members |->
                    IF m \in office[o].seen \cap Owners
                    THEN [member[m] EXCEPT !.role = "SUPPORT_AGENT"]
                    ELSE member[m]]
  IN  [demoted EXCEPT ![office[o].member].role = "TENANT_OWNER",
                      ![office[o].member].status = "ACTIVE"]

CommitTransfer(o) ==
  /\ office[o].op = "demote"
  /\ member' = Transferred(o)
  /\ office' = Appointed([office EXCEPT ![o] = AtDesk])
  /\ left' = (member[office[o].member].org # "in")
  /\ shared' = office[o].late
  /\ UNCHANGED <<profile, acts, told, patched>>

FindsDeactivated == {"deactivate", "reactivate"}

\* Owners may be the target, the one who asks too.  An update that gives no
\* status writes the one it read.
BeginMember(o, m, op, role, status) ==
  /\ member[m].org = "in"
  /\ member[m].deleted => op \in FindsDeactivated
  /\ BeginsAct(o, [op |-> op, member |-> m, role |-> role, status |-> status])
  /\ UNCHANGED <<member, profile, left, shared, told, patched>>

CommandedRow(row, request) ==
  CASE request.op = "update" ->
         [row EXCEPT !.role = request.role, !.status = request.status]
    [] request.op = "suspend" -> [row EXCEPT !.status = request.status]
    [] request.op = "remove" ->
         [row EXCEPT !.deleted = TRUE, !.status = "INACTIVE", !.org = "out"]
    [] request.op = "deactivate" ->
         [row EXCEPT !.deleted = TRUE, !.status = "INACTIVE"]
    [] request.op = "reactivate" ->
         [row EXCEPT !.deleted = FALSE, !.status = "ACTIVE"]

MemberOps == {"update", "suspend", "remove", "deactivate", "reactivate"}

WriteCommand(o) ==
  /\ office[o].op \in MemberOps
  /\ LET m == office[o].member
     IN WritesRow(m, CommandedRow(member[m], office[o]),
                  [office EXCEPT ![o] = AtDesk])
  /\ UNCHANGED acts

\* The platform's suspendUser and activateUser, deleteUser, and updateUser.
PlatformRows(row) ==
  {[row EXCEPT !.status = status] : status \in {"ACTIVE", "SUSPENDED"}}
  \cup {[row EXCEPT !.deleted = TRUE, !.status = "INACTIVE"]}
  \cup [org : {"in", "out"}, role : Roles, status : {row.status},
        deleted : {row.deleted}]

WriteByPlatform(m, row) ==
  /\ member[m].org # "absent" /\ row # member[m]
  /\ acts < MaxActs
  /\ acts' = acts + 1
  /\ WritesRow(m, row, office)

BeginProfile(o, fields) ==
  /\ BeginsAct(o, [op |-> "profile", fields |-> fields, row |-> profile,
                   value |-> acts + 1])
  /\ patched' = (patched \/ \E p \in Offices : office[p].op = "profile")
  /\ UNCHANGED <<member, profile, left, shared, told>>

WriteProfile(o) ==
  /\ office[o].op = "profile"
  /\ LET Value(f, old) == IF f \in office[o].fields THEN office[o].value
                          ELSE old[f]
     IN /\ profile' = [f \in Facts |-> Value(f, office[o].row)]
        /\ told' = [f \in Facts |-> Value(f, told)]
  /\ office' = [office EXCEPT ![o] = AtDesk]
  /\ UNCHANGED <<member, acts, left, shared, patched>>

\* The write or the transaction fails, or the process dies.
FailOffice(o) ==
  /\ office[o] # AtDesk
  /\ office' = [office EXCEPT ![o] = AtDesk]
  /\ UNCHANGED <<member, profile, acts, left, shared, told, patched>>

TenantNext ==
  \/ \E m \in Members, role \in Roles : Join(m, role)
  \/ \E m \in Members : \E row \in PlatformRows(member[m]) :
       WriteByPlatform(m, row)
  \/ \E o \in Offices :
       \/ \E m \in Members :
            \/ BeginTransfer(o, m)
            \/ \E role \in Roles, status \in {"ACTIVE", "SUSPENDED", member[m].status} :
                 BeginMember(o, m, "update", role, status)
            \/ \E status \in MemberStatus :
                 BeginMember(o, m, "suspend", member[m].role, status)
            \/ \E op \in {"remove", "deactivate", "reactivate"} :
                 BeginMember(o, m, op, member[m].role, member[m].status)
       \/ \E fields \in SUBSET Facts \ {{}} : BeginProfile(o, fields)
       \/ StartTransfer(o) \/ CommitTransfer(o) \/ WriteCommand(o)
       \/ WriteProfile(o) \/ FailOffice(o)

TenantSpec == TenantInit /\ [][TenantNext]_tenantVars
-----------------------------------------------------------------------------
(* Properties. *)

TenantTypeOK ==
  /\ member \in [Members -> MemberRow]
  /\ profile \in [Facts -> 0..MaxActs] /\ told \in [Facts -> 0..MaxActs]
  /\ acts \in 0..MaxActs
  /\ left \in BOOLEAN /\ shared \in BOOLEAN /\ patched \in BOOLEAN

\* A tenant has an active owner, and a transfer leaves it exactly one,
\* whatever requests on members overlap with it.  Only a command on an owner
\* or a transfer to someone removed in between leaves the tenant without
\* one, and only an appointment beside the owner, by updateMember, the
\* platform, or a transfer that overlaps another, gives it two; the next
\* transfer repairs both (transferOwnership, updateMember, removeMember).
OwnerKept ==
  /\ ~left => \E m \in Owners : member[m].status = "ACTIVE"
  /\ ~left /\ ~shared => Cardinality(Owners) = 1

\* The profile shows the value last given to each field, unless two updates
\* of it overlapped (updateOrganization).
ProfileKept == ~patched => profile = told

\* What was decided about a tenant stands.
TenantKept == OwnerKept /\ ProfileKept
=============================================================================
