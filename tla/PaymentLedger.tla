--------------------------- MODULE PaymentLedger ---------------------------
(***************************************************************************)
(* What billing promises of one charge, whatever the interleaving of       *)
(* checkouts, webhooks and verifications: the customer is charged first,   *)
(* the charge then unlocks the subscription, and only an unlocked charge   *)
(* is invoiced.  The stages never run backwards and none is skipped.       *)
(***************************************************************************)
CONSTANT Payments

VARIABLE stage

Stages == {"unpaid", "charged", "unlocked", "invoiced"}

LedgerTypeOK == stage \in [Payments -> Stages]

LedgerInit == stage = [p \in Payments |-> "unpaid"]

Advance(p, from, to) ==
  /\ stage[p] = from
  /\ stage' = [stage EXCEPT ![p] = to]

Charge(p)  == Advance(p, "unpaid", "charged")
Unlock(p)  == Advance(p, "charged", "unlocked")
Invoice(p) == Advance(p, "unlocked", "invoiced")

LedgerNext == \E p \in Payments : Charge(p) \/ Unlock(p) \/ Invoice(p)

LedgerSpec == LedgerInit /\ [][LedgerNext]_stage
=============================================================================
