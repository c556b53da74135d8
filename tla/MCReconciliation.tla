--------------------------- MODULE MCReconciliation ---------------------------
(* Instances of Reconciliation for TLC.  Deliveries are callbacks; their   *)
(* event ids and payments are what the webhook handler makes of them, and  *)
(* a payment stands for the provider_reference recorded for it.            *)
EXTENDS Reconciliation

CONSTANT t1

C == INSTANCE Callbacks WITH Absent <- Nil

(* One payment, and two callbacks with bodies of their own. *)
TwoDeliveries ==
  {[provider |-> "paystack", event |-> Nil, references |-> <<t1>>, body |-> b] :
     b \in {"b1", "b2"}}

EventsOfTwo == {C!EventId(d) : d \in TwoDeliveries}

MCEventOf == [d \in Deliveries |-> C!EventId(d)]
MCTxnOf == [d \in Deliveries |-> C!Reference(d)]

ASSUME MCAssumption ==
  \A d \in Deliveries :
    d \in C!Callback(Txns \cup {"b1", "b2"}) /\ C!Valid(d)
=============================================================================
