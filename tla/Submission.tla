------------------------------ MODULE Submission ------------------------------
(***************************************************************************)
(* ProductionPaymentEngine.initiate and query: how a payment intent gets   *)
(* to a provider, and what its caller is told.  RailRouter selects a rail, *)
(* the engine its capability pack, and the pack's connector authenticates, *)
(* posts the payment and turns the answer into a ConnectorResult.          *)
(*                                                                         *)
(* Several calls of initiate (attempts) may be under way for one intent: a *)
(* caller that was told PENDING, or nothing, tries again, with another     *)
(* health snapshot.  A POST may be lost, answered too late, or arrive after*)
(* its caller gave up.                                                     *)
(*                                                                         *)
(* An operator named Op_Bug, before Op, is Op with a bug somebody might    *)
(* write, as in Reconciliation.                                            *)
(***************************************************************************)
EXTENDS Naturals, FiniteSets

CONSTANTS
  Intents,     \* payment intents, with an idempotency_key_ref and a
               \* merchant_reference of their own
  CorridorOf,  \* the currency and destination country of each
  Attempts,    \* calls of initiate
  Configured,  \* profile.payment_rails
  Outages,     \* sets of rails that a health snapshot may show as down
  Installed,   \* capability packs in the registry
  Nil

Rails == {"mpesa", "paystack", "mtn_momo", "mobile_money", "bank", "ussd"}
Packs == {"ke-payments", "ng-payments", "gh-payments", "ug-payments"}
MTN == {"gh-payments", "ug-payments"}

(* _DEFAULT_ROUTES, in order of preference *)
ROUTES ==
  [KES_KE |-> <<"mpesa", "mobile_money", "bank">>,
   NGN_NG |-> <<"paystack", "bank", "ussd", "mobile_money">>,
   GHS_GH |-> <<"mtn_momo", "paystack", "mobile_money", "bank">>,
   UGX_UG |-> <<"mtn_momo", "mobile_money", "bank">>,
   ZAR_ZA |-> <<"paystack", "bank">>,
   USD_NG |-> <<"paystack", "bank">>,
   USD_KE |-> <<"paystack", "bank">>]

ASSUME SubmissionAssumption ==
  /\ CorridorOf \in [Intents -> DOMAIN ROUTES]
  /\ Configured \subseteq Rails
  /\ Outages \subseteq SUBSET Rails
  /\ Installed \subseteq Packs
  /\ Intents \cap Attempts = {}
  /\ Nil \notin Intents \cup Attempts \cup {"CONFIRMED", "FAILED"}

VARIABLES
  attempt,   \* each call of initiate: where it is and what it returned
  request    \* where the provider has the POST of each attempt

vars == <<attempt, request>>

(* state: the call's progress, then "raised" or the status of its result;  *)
(* ref: the result's provider_reference; verdict: what query has said of   *)
(* that reference, once it is final.                                       *)
Attempt == [intent  : Intents \cup {Nil},
            pack    : Packs \cup {Nil},
            state   : {"new", "auth", "posted", "raised",
                       "SUBMITTED", "PENDING", "FAILED"},
            ref     : Intents \cup Attempts \cup {Nil},
            verdict : {"CONFIRMED", "FAILED", Nil}]

NewAttempt == [intent |-> Nil, pack |-> Nil, state |-> "new",
               ref |-> Nil, verdict |-> Nil]

TypeOK ==
  /\ attempt \in [Attempts -> Attempt]
  /\ request \in [Attempts -> {"unsent", "sent", "duplicate", "rejected",
                               "pending", "success", "failed"}]

Init ==
  /\ attempt = [a \in Attempts |-> NewAttempt]
  /\ request = [a \in Attempts |-> "unsent"]

-----------------------------------------------------------------------------
(* RailRouter.select: the first configured rail of the route that is not   *)
(* known to be down.                                                       *)
Usable(i, down) ==
  {n \in DOMAIN ROUTES[CorridorOf[i]] :
     ROUTES[CorridorOf[i]][n] \in Configured \ down}

Select(i, down) ==
  LET first == CHOOSE n \in Usable(i, down) :
                 \A m \in Usable(i, down) : n <= m
  IN  ROUTES[CorridorOf[i]][first]

(* _ADAPTER_BY_RAIL and the exception for Uganda *)
PackFor(i, rail) ==
  CASE rail = "mpesa" -> "ke-payments"
    [] rail = "paystack" -> "ng-payments"
    [] rail = "mtn_momo" ->
         IF CorridorOf[i] = "UGX_UG" THEN "ug-payments" ELSE "gh-payments"
    [] OTHER -> Nil

(* The one corridor each connector accepts. *)
Corridor(pack) ==
  CASE pack = "ke-payments" -> "KES_KE"
    [] pack = "ng-payments" -> "NGN_NG"
    [] pack = "gh-payments" -> "GHS_GH"
    [] pack = "ug-payments" -> "UGX_UG"

Serves_Rail(pack, i) == pack # Nil /\ pack \in Installed

Serves(pack, i) ==
  pack # Nil /\ pack \in Installed /\ Corridor(pack) = CorridorOf[i]

-----------------------------------------------------------------------------
(* The reference of the payment that an attempt's POST asks for: Paystack  *)
(* gets the merchant_reference and MTN an X-Reference-Id derived from the  *)
(* idempotency key, the same for all attempts of an intent; Daraja returns *)
(* a CheckoutRequestID of its own for each POST.                           *)
Keyed(a) == attempt[a].pack \in Packs \ {"ke-payments"}

PaymentRef_Uuid4(a) == a

PaymentRef(a) == IF Keyed(a) THEN attempt[a].intent ELSE a

(* What a result refers to when the answer names no reference.             *)
Fallback_Uuid4(a) == a

Fallback(a) == attempt[a].intent

Paid(a) == request[a] \in {"pending", "success", "failed"}

SamePayment(a, b) ==
  attempt[a].pack = attempt[b].pack /\ PaymentRef(a) = PaymentRef(b)

-----------------------------------------------------------------------------
(* initiate up to the first request: rail, pack, corridor, limits and      *)
(* recipient.                                                              *)
Raise(a, i, pack) ==
  attempt' = [attempt EXCEPT ![a] = [NewAttempt EXCEPT !.intent = i,
                                     !.pack = pack, !.state = "raised"]]

Unroutable(a, i, down) ==
  /\ attempt[a].state = "new"
  /\ \/ Usable(i, down) = {}
     \/ ~Serves(PackFor(i, Select(i, down)), i)
  /\ Raise(a, i, Nil)
  /\ UNCHANGED request

Route(a, i, down) ==
  /\ attempt[a].state = "new"
  /\ Usable(i, down) # {}
  /\ LET pack == PackFor(i, Select(i, down))
     IN  /\ Serves(pack, i)
         /\ attempt' = [attempt EXCEPT ![a] =
                          [NewAttempt EXCEPT !.intent = i, !.pack = pack,
                                             !.state = "auth"]]
  /\ UNCHANGED request

(* No access token, or no secret: raised before the request that moves     *)
(* money.                                                                  *)
AuthFails(a) ==
  /\ attempt[a].state = "auth"
  /\ Raise(a, attempt[a].intent, attempt[a].pack)
  /\ UNCHANGED request

Post(a) ==
  /\ attempt[a].state = "auth"
  /\ attempt' = [attempt EXCEPT ![a].state = "posted"]
  /\ request' = [request EXCEPT ![a] = "sent"]

-----------------------------------------------------------------------------
(* The provider: a POST arrives, soon, late or never, and is refused,      *)
(* recognised by its reference, or accepted; the payment is settled later. *)
Receive(a, outcome) ==
  /\ request[a] = "sent"
  /\ \/ outcome = "rejected"
     \/ IF \E b \in Attempts : Paid(b) /\ SamePayment(a, b)
        THEN outcome = "duplicate"
        ELSE outcome = "pending"
  /\ request' = [request EXCEPT ![a] = outcome]
  /\ UNCHANGED attempt

SettlePayment(a, outcome) ==
  /\ request[a] = "pending"
  /\ request' = [request EXCEPT ![a] = outcome]
  /\ UNCHANGED attempt

-----------------------------------------------------------------------------
(* The connector turns what it sees of the answer into a result.           *)
Result(a, status, ref) ==
  /\ attempt[a].state = "posted"
  /\ attempt' = [attempt EXCEPT ![a].state = status, ![a].ref = ref]
  /\ UNCHANGED request

(* A transport error, or an ambiguous status that names no reference; MTN  *)
(* answers a duplicate with such a status.                                 *)
Uncertain_Failed(a) == Result(a, "FAILED", Fallback(a))

Uncertain_Unknown(a) == Result(a, "UNKNOWN", Fallback(a))

Uncertain(a) == Result(a, "PENDING", Fallback(a))

(* An ambiguous status whose body names the payment. *)
UncertainNamed(a) == Paid(a) /\ Result(a, "PENDING", PaymentRef(a))

(* The answer of a provider that took the payment; it may still leave the  *)
(* reference out.                                                          *)
Submitted(a) ==
  /\ Paid(a)
  /\ \E ref \in {PaymentRef(a), Fallback(a)} : Result(a, "SUBMITTED", ref)

(* 2xx without a readable body: enough for MTN, a rejection to the others. *)
Unreadable(a) ==
  /\ Paid(a)
  /\ Result(a, IF attempt[a].pack \in MTN THEN "SUBMITTED" ELSE "FAILED",
            Fallback(a))

Rejected(a) ==
  /\ request[a] \in {"rejected", "duplicate"}
  /\ Result(a, "FAILED", Fallback(a))

-----------------------------------------------------------------------------
(* query_transaction_status with the pack and reference of a result: only  *)
(* a status the provider calls final is a verdict; an unknown reference,   *)
(* an open payment and an outage are none.                                 *)
Says_NotOpen(a, verdict) ==
  \/ verdict = "CONFIRMED" /\ request[a] = "success"
  \/ verdict = "FAILED" /\ request[a] # "success"

Says(a, verdict) ==
  \/ verdict = "CONFIRMED" /\ request[a] = "success"
  \/ verdict = "FAILED" /\ request[a] = "failed"

Query(a, verdict) ==
  /\ attempt[a].state \in {"SUBMITTED", "PENDING"}
  /\ attempt[a].verdict = Nil
  /\ \E b \in Attempts :
       /\ Paid(b) /\ attempt[b].pack = attempt[a].pack
       /\ PaymentRef(b) = attempt[a].ref
       /\ Says(b, verdict)
  /\ attempt' = [attempt EXCEPT ![a].verdict = verdict]
  /\ UNCHANGED request

-----------------------------------------------------------------------------
Initiate(a) ==
  \/ \E i \in Intents, down \in Outages :
       Unroutable(a, i, down) \/ Route(a, i, down)
  \/ AuthFails(a) \/ Post(a)
  \/ Uncertain(a) \/ UncertainNamed(a) \/ Submitted(a)
  \/ Unreadable(a) \/ Rejected(a)

Provider(a) ==
  \/ \E outcome \in {"rejected", "duplicate", "pending"} : Receive(a, outcome)
  \/ \E outcome \in {"success", "failed"} : SettlePayment(a, outcome)

Next ==
  \E a \in Attempts :
    \/ Initiate(a) \/ Provider(a)
    \/ \E verdict \in {"CONFIRMED", "FAILED"} : Query(a, verdict)

Spec == Init /\ [][Next]_vars

-----------------------------------------------------------------------------
Of(i) == {a \in Attempts : attempt[a].intent = i}

(* However the health snapshots change between attempts, an intent is      *)
(* never posted to two providers: the rail that failover selects leads to  *)
(* a connector that refuses the corridor.                                  *)
OneProviderPerIntent ==
  \A i \in Intents : \A a, b \in Of(i) :
    request[a] # "unsent" /\ request[b] # "unsent" =>
      attempt[a].pack = attempt[b].pack

(* Where the connector derives the reference from the intent, overlapping  *)
(* attempts, lost answers and POSTs that arrive late pay it at most once.  *)
PaysOnce ==
  \A i \in Intents : \A a, b \in Of(i) :
    Paid(a) /\ Paid(b) /\ Keyed(a) => a = b

(* A POST whose attempt raised or returned FAILED was never sent or has    *)
(* been decided: it is not on its way, to be paid when the caller no       *)
(* longer expects it.  An attempt that raised, and one that MTN's          *)
(* connector failed, pays nothing at all ("explicit initiation rejection", *)
(* provider-connectors-audit.md:50).  Daraja's and Paystack's connectors   *)
(* fail, against that line, also an attempt whose payment was taken and    *)
(* whose 2xx answer they could not read.                                   *)
FailuresAreOver ==
  \A a \in Attempts :
    attempt[a].state \in {"raised", "FAILED"} =>
      /\ request[a] # "sent"
      /\ attempt[a].state = "raised" \/ attempt[a].pack \in MTN => ~Paid(a)

(* Whatever became of the answer and whatever was made of it, the payment  *)
(* that a keyed connector's POST brought about can be asked for under the  *)
(* reference in the result.  Daraja's connector has no such reference: a   *)
(* result names the intent id, which Daraja does not know, when the answer *)
(* was lost or, although SUBMITTED, named no CheckoutRequestID.            *)
Reconcilable ==
  \A a \in Attempts :
    /\ attempt[a].state \in {"SUBMITTED", "PENDING", "FAILED"}
    /\ Keyed(a) /\ Paid(a)
    => attempt[a].ref = PaymentRef(a)

Truth(i) ==
  LET paid == {request[a] : a \in {b \in Of(i) : Paid(b)}}
  IN  IF paid = {} THEN "none"
      ELSE IF "success" \in paid THEN "success"
      ELSE IF "pending" \in paid THEN "pending"
      ELSE "failed"

(* A final verdict is the truth about the intent, not only about one of    *)
(* its attempts, and stays true: nothing that is still under way for a     *)
(* keyed intent can turn a FAILED one into a success.                      *)
VerdictsStand ==
  \A a \in Attempts :
    /\ attempt[a].verdict = "CONFIRMED" => Truth(attempt[a].intent) = "success"
    /\ attempt[a].verdict = "FAILED" /\ Keyed(a) =>
         Truth(attempt[a].intent) = "failed"

(* provider-connectors-audit.md:93: "ambiguous initiation retries preserve *)
(* provider reference identity".                                           *)
RetriesKeepReference ==
  \A i \in Intents : \A a, b \in Of(i) :
    /\ attempt[a].state = "PENDING"
    /\ attempt[b].state \in {"SUBMITTED", "PENDING"}
    => attempt[a].ref = attempt[b].ref

=============================================================================
