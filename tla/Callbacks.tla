------------------------------ MODULE Callbacks -------------------------------
(***************************************************************************)
(* What WebhookHandler.handle makes of an authenticated provider callback: *)
(* the reference of the payment it speaks of, and the event id that the    *)
(* ledger keeps it under.  Two callbacks with one event id are one event   *)
(* to the ledger, so the id decides what is a redelivery, what another     *)
(* event and what a conflict.                                              *)
(***************************************************************************)
EXTENDS Naturals, Sequences

LOCAL INSTANCE FiniteSetsExt

CONSTANT Absent    \* a field or header that is missing or empty

(* event: the x-paystack-event-id or x-callback-event-id header, or        *)
(* Daraja's MerchantRequestID.  references: the fields that may name the   *)
(* payment, in the order they are tried: Paystack's data.reference;        *)
(* Daraja's CheckoutRequestID; MTN's financialTransactionId, externalId    *)
(* and X-Reference-Id.                                                     *)
Callback(Names) ==
  [provider   : {"paystack", "mpesa", "mtn_momo"},
   event      : Names \cup {Absent},
   references : Seq(Names \cup {Absent}),
   body       : Names]

Present(c) == {n \in DOMAIN c.references : c.references[n] # Absent}

(* A callback that names no payment is refused as invalid. *)
Valid(c) == Present(c) # {}

Reference(c) == c.references[Min(Present(c))]

(* With no event header, Paystack's events are told apart by the hash of   *)
(* their body, the others' by their reference alone.                       *)
EventId(c) ==
  <<c.provider,
    CASE c.event # Absent -> c.event
      [] c.event = Absent /\ c.provider = "paystack" -> c.body
      [] OTHER -> Reference(c)>>

=============================================================================
