----------------------------- MODULE MCRecords -----------------------------
(***************************************************************************)
(* Instances of Accounts, Sessions and TicketIntake for TLC.  The three    *)
(* share no row but the account, of which Sessions sees one freely         *)
(* changing bit, so a behaviour explores one of them and leaves the others *)
(* in their initial state.                                                 *)
(***************************************************************************)
EXTENDS Accounts, Sessions, TicketIntake, TLC

VARIABLE part

MCInit ==
  /\ part \in {"accounts", "sessions", "intake"}
  /\ Init /\ SessionInit /\ IntakeInit

MCNext ==
  /\ UNCHANGED part
  /\ \/ part = "accounts" /\ Next /\ UNCHANGED <<sessionVars, intakeVars>>
     \/ part = "sessions" /\ SessionNext /\ UNCHANGED <<vars, intakeVars>>
     \/ part = "intake" /\ IntakeNext /\ UNCHANGED <<vars, sessionVars>>

MCSpec == MCInit /\ [][MCNext]_<<part, vars, sessionVars, intakeVars>>

Symmetry == Permutations(Tokens)

TypesOK == TypeOK /\ SessionTypeOK /\ IntakeTypeOK
=============================================================================
