--------------------------- MODULE MCWebhookIntake ----------------------------
(* Two payments whose callbacks come through the handler: a Paystack body  *)
(* with a nested customer, Daraja's list of named items, MTN parties that  *)
(* are a phone number and a merchant code, a status no list knows, a phone *)
(* number without digits, a body re-encoded after it was signed, and one   *)
(* event header used for two payments.                                     *)
EXTENDS WebhookIntake, TLC

CONSTANTS t1, t2

MCForms ==
  [key    |-> ("PhoneNumber" :> "phonenumber") @@ ("partyId" :> "partyid"),
   word   |-> ("SUCCESSFUL" :> "successful") @@ ("MSISDN" :> "msisdn"),
   msisdn |-> ("+254 712" :> "254712") @@ ("n/a" :> ""),
   email  |-> ("Ada@Example.com" :> "ada@example.com")]

MCCodes == {"0", "1032"}

Paystack(word, customer) ==
  Pii!Object([event |-> Pii!Scalar("charge.success"),
            data  |-> Pii!Object([status   |-> Pii!Scalar(word),
                                customer |-> customer])])

Daraja(code, items) ==
  Pii!Object([Body |-> Pii!Object([stkCallback |->
    Pii!Object([ResultCode |-> Pii!Scalar(code), Item |-> Pii!List(items)])])])

Momo(word, type, id) ==
  Pii!Object([status |-> Pii!Scalar(word),
            payer  |-> Pii!Object([partyIdType |-> Pii!Scalar(type),
                                 partyId     |-> Pii!Scalar(id)])])

Item(name, value) ==
  Pii!Object([Name |-> Pii!Scalar(name), Value |-> Pii!Scalar(value)])

MCJson ==
  [charge   |-> Paystack("success", Pii!Object([phone |-> Pii!Scalar("+254 712"),
                                    email |-> Pii!Scalar("Ada@Example.com")])),
   queued   |-> Paystack("queued", Pii!Null),
   nodigits |-> Paystack("success", Pii!Object([phone |-> Pii!Scalar("n/a")])),
   stk      |-> Daraja("0", <<Item("Amount", "10"),
                              Item("PhoneNumber", "254712")>>),
   payer    |-> Momo("SUCCESSFUL", "MSISDN", "+254 712"),
   merchant |-> Momo("ongoing", "PARTY_CODE", "254712")]

Ada == {<<"msisdn", "254712">>}

MCSubjects ==
  [charge |-> Ada \cup {<<"email", "ada@example.com">>}, queued |-> {},
   nodigits |-> {}, stk |-> Ada, payer |-> Ada, merchant |-> {}]

From(provider, event, references, body) ==
  [provider |-> provider, event |-> event, references |-> references,
   body |-> body]

MCCallback ==
  [charge    |-> From("paystack", Nil, <<t1>>, "charge"),
   reencoded |-> From("paystack", Nil, <<t1>>, "charge"),
   queued    |-> From("paystack", Nil, <<t1>>, "queued"),
   nodigits  |-> From("paystack", Nil, <<t1>>, "nodigits"),
   stk       |-> From("mpesa", "m1", <<t1>>, "stk"),
   merchant  |-> From("mtn_momo", "h1", <<Nil, Nil, t1>>, "merchant"),
   payer     |-> From("mtn_momo", "h1", <<Nil, Nil, t2>>, "payer"),
   nameless  |-> From("mtn_momo", Nil, <<Nil, Nil, Nil>>, "payer")]

MCProof ==
  [charge |-> "charge", reencoded |-> "charges", queued |-> "queued",
   nodigits |-> "nodigits", stk |-> "spiffe", merchant |-> "token",
   payer |-> "token", nameless |-> "token"]

Requested == DOMAIN MCCallback

MCEventIds ==
  {<<"paystack", "charge">>, <<"paystack", "queued">>,
   <<"paystack", "nodigits">>, <<"mpesa", "m1">>, <<"mtn_momo", "h1">>}

MCDigests ==
  UNION {{<<b>>} \cup {<<b, k>> : k \in KeyIds} : b \in DOMAIN MCJson}

MCDeliveries ==
  [event : MCEventIds, reference : Txns, digest : MCDigests]

MCEventOf == [d \in Deliveries |-> d.event]
MCTxnOf == [d \in Deliveries |-> d.reference]

ASSUME MCAssumption ==
  \A r \in Requested :
    /\ MCCallback[r] \in Id!Callback(Txns \cup DOMAIN MCJson \cup {"m1", "h1"})
    /\ Id!Valid(MCCallback[r]) => Id!EventId(MCCallback[r]) \in EventIds
=============================================================================
