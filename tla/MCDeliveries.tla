---------------------------- MODULE MCDeliveries ----------------------------
(***************************************************************************)
(* Instances of Payments and Announcements for TLC: what the gateway and   *)
(* what an announcement has to say must arrive although requests die.      *)
(* They share no row, so a behaviour explores one of them and leaves the   *)
(* other in its initial state.  Of the announcements it explores one, with *)
(* all the senders, or all of them, with one sender.  The fairness is that *)
(* of the two: sweeps begin only where there is something to sweep.        *)
(***************************************************************************)
EXTENDS Payments, Announcements

VARIABLE part

OneNews == \E n \in News : \A other \in News \ {n} : ~Stored(other)

OneSender == \E w \in Senders : \A other \in Senders \ {w} : work[other] = Rest

DeliveryInit ==
  /\ part \in {"payments", "announcements"}
  /\ Init /\ NewsInit

DeliveryNext ==
  /\ UNCHANGED part
  /\ \/ part = "payments" /\ Next /\ UNCHANGED newsVars
     \/ /\ part = "announcements"
        /\ NewsNext /\ UNCHANGED vars
        /\ OneNews' \/ OneSender'

FairDeliverySpec ==
  /\ DeliveryInit /\ [][DeliveryNext]_<<part, vars, newsVars>>
  /\ Fairness
  /\ \A w \in Senders : WF_newsVars(Proceeds(w))
  /\ SF_newsVars(part = "announcements" /\ \E w \in Senders : PublishDue(w))
=============================================================================
