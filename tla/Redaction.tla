------------------------------ MODULE Redaction -------------------------------
(***************************************************************************)
(* WebhookPayloadSanitizer: what is kept of a decoded callback body, and   *)
(* _validate_sanitized_webhook_payload, by which the repository checks the *)
(* same thing with lists of its own.  Of a body the sanitizer keeps one or *)
(* two allowlisted words and a keyed digest of every phone number and      *)
(* e-mail address it finds; it refuses a body with one it cannot read.     *)
(*                                                                         *)
(* Decoded JSON is a tagged record.  What str.lower, isalnum, isdigit and  *)
(* casefold make of the texts in use is the constant Forms; a text with no *)
(* entry is its own form.  A digest is the tuple it is computed from.      *)
(***************************************************************************)
EXTENDS Naturals, Sequences

CONSTANTS
  Forms,   \* form ("key", "word", "msisdn", "email") -> text -> text
  Codes,   \* texts of one to twelve digits
  MaxNesting \* how deep a body nests; bounds the search

Scalar(text) == [type |-> "scalar", text |-> text]
Object(fields) == [type |-> "object", fields |-> fields]
List(items) == [type |-> "list", items |-> items]
Null == [type |-> "null"]

IsScalar(v) == v.type = "scalar"

(* payload.get(key), of a value that may be no object *)
Get(v, key) ==
  IF v.type = "object" /\ key \in DOMAIN v.fields THEN v.fields[key] ELSE Null

Form(form, text) ==
  IF text \in DOMAIN Forms[form] THEN Forms[form][text] ELSE text

-----------------------------------------------------------------------------
(* Personal data *)
PhoneKeys == {"phone", "phonenumber", "mobile", "mobilenumber", "msisdn",
              "partyid"}
EmailKeys == {"email", "emailaddress"}

(* _pii_kind *)
Kind(key) ==
  CASE Form("key", key) \in PhoneKeys -> "msisdn"
    [] Form("key", key) \in EmailKeys -> "email"
    [] OTHER -> "none"

(* Daraja's {"Name": "PhoneNumber", "Value": ...} *)
Named(v) ==
  IF IsScalar(Get(v, "Name")) /\ IsScalar(Get(v, "Value"))
     /\ Kind(Get(v, "Name").text) # "none"
  THEN {<<Kind(Get(v, "Name").text), Get(v, "Value").text>>}
  ELSE {}

(* A partyId is a phone number only in a party whose type says MSISDN, in  *)
(* any case and under either spelling.                                     *)
PartyType(v) ==
  LET type == IF IsScalar(Get(v, "partyIdType")) THEN Get(v, "partyIdType")
              ELSE Get(v, "PartyIdType")
  IN  IF IsScalar(type) THEN Form("word", type.text) ELSE ""

ChildKind_AnyParty(v, key) == Kind(key)

ChildKind(v, key) ==
  IF Form("key", key) = "partyid" /\ PartyType(v) # "msisdn"
  THEN "none"
  ELSE Kind(key)

(* The body and everything nested in it: what visit reaches. *)
Children(v) ==
  CASE v.type = "object" -> {v.fields[k] : k \in DOMAIN v.fields}
    [] v.type = "list" -> {v.items[n] : n \in DOMAIN v.items}
    [] OTHER -> {}

Parts(v) ==
  LET downTo[n \in 0..MaxNesting] ==
        IF n = 0 THEN {v}
        ELSE downTo[n - 1] \cup UNION {Children(p) : p \in downTo[n - 1]}
  IN  downTo[MaxNesting]

(* What visit adds at an object, its nested values apart. *)
FoundAt(v) ==
  Named(v) \cup
  {<<ChildKind(v, k), v.fields[k].text>> :
     k \in {k \in DOMAIN v.fields :
             ChildKind(v, k) # "none" /\ IsScalar(v.fields[k])}}

Found(v) == UNION {FoundAt(p) : p \in {q \in Parts(v) : q.type = "object"}}

(* _normalize_pii; empty is an error *)
Normal(kind, text) == Form(kind, text)

Readable(json) == \A f \in Found(json) : Normal(f[1], f[2]) # ""

Fingerprints(json, key) ==
  {[kind |-> f[1], key_id |-> key,
    digest |-> <<key, f[1], Normal(f[1], f[2])>>] : f \in Found(json)}

-----------------------------------------------------------------------------
(* sanitize *)
PaystackEvents ==
  {"charge.success", "transfer.success", "transfer.failed",
   "transfer.reversed", "refund.processed", "refund.failed"}

PaystackStatuses_Queued ==
  {"success", "failed", "abandoned", "reversed", "pending", "processing",
   "queued"}

PaystackStatuses ==
  {"success", "failed", "abandoned", "reversed", "pending", "processing"}

MtnStatuses ==
  {"successful", "failed", "rejected", "expired", "pending", "ongoing"}

(* _allowlisted_token *)
Word(v, allowed) ==
  IF IsScalar(v) /\ Form("word", v.text) \in allowed
  THEN Form("word", v.text)
  ELSE "unknown"

(* _bounded_code *)
Code(v) == IF IsScalar(v) /\ v.text \in Codes THEN v.text ELSE "unknown"

Projection(provider, json) ==
  CASE provider = "paystack" ->
         [event |-> Word(Get(json, "event"), PaystackEvents),
          provider_status |-> Word(Get(Get(json, "data"), "status"),
                                   PaystackStatuses)]
    [] provider = "mpesa" ->
         [result_code |->
            Code(Get(Get(Get(json, "Body"), "stkCallback"), "ResultCode"))]
    [] provider = "mtn_momo" ->
         [provider_status |-> Word(Get(json, "status"), MtnStatuses)]

Sanitized(provider, json, key) ==
  [provider     |-> provider,
   words        |-> Projection(provider, json),
   fingerprints |-> Fingerprints(json, key)]

-----------------------------------------------------------------------------
(* The repository's lists: which words a provider's payload may hold, and  *)
(* their values.  None of them is missing where it may be.                 *)
AllowedFields ==
  [paystack |-> {"event", "provider_status"},
   mpesa    |-> {"result_code"},
   mtn_momo |-> {"provider_status"}]

SafeValues ==
  [event |-> {"unknown", "charge.success", "transfer.success",
              "transfer.failed", "transfer.reversed", "refund.processed",
              "refund.failed"},
   provider_status |-> {"unknown", "success", "successful", "failed",
                        "abandoned", "reversed", "rejected", "expired",
                        "pending", "processing", "ongoing"},
   result_code |-> {"unknown"} \cup Codes]

Validates(provider, payload) ==
  /\ payload.provider = provider
  /\ DOMAIN payload.words \subseteq AllowedFields[provider]
  /\ \A w \in DOMAIN payload.words : payload.words[w] \in SafeValues[w]
  /\ \A f \in payload.fingerprints : f.kind \in {"msisdn", "email"}

=============================================================================
