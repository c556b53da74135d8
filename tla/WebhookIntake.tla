---------------------------- MODULE WebhookIntake -----------------------------
(***************************************************************************)
(* WebhookHandler.handle in front of the ledger of Reconciliation: a       *)
(* request is authenticated by its provider's verifier, its identity is    *)
(* read (Callbacks), its body minimised (Redaction) under the sanitizer    *)
(* key in use, and what is left is checked and ingested by the repository. *)
(* Any failure on the way raises and leaves no trace.  Keys are rotated    *)
(* while providers deliver again, payments settle and pollers reconcile.   *)
(***************************************************************************)
EXTENDS Reconciliation, Sequences

CONSTANTS
  Requests,   \* what reaches handle; bounds the deliveries
  CallbackOf, \* the callback each request carries
  Proof,      \* and its signature, token or asserted identity
  Json,       \* the decoded body of each callback
  Token,      \* the callback token shared with MTN
  Identities, \* SPIFFE ids the mTLS proxy in front of Daraja may assert
  KeyIds,     \* sanitizer keys the deployment goes through
  Subjects,   \* <<kind, owner's number or address>>s a body speaks of
  Forms, Codes, MaxNesting

VARIABLES
  keyId,        \* key_id of the sanitizer in use
  evidence,     \* payment_webhook_events.payload of each event
  acknowledged  \* requests the handler has answered with 200

intakeVars == <<keyId, evidence, acknowledged>>
allVars == <<vars, intakeVars>>

Id == INSTANCE Callbacks WITH Absent <- Nil
Pii == INSTANCE Redaction

IntakeTypeOK ==
  /\ TypeOK
  /\ keyId \in KeyIds
  /\ \A e \in EventIds : evidence[e] # Nil <=> stored[e] # Nil
  /\ acknowledged \subseteq Requests

IntakeInit ==
  /\ Init
  /\ keyId \in KeyIds
  /\ evidence = [e \in EventIds |-> Nil]
  /\ acknowledged = {}

-----------------------------------------------------------------------------
(* The verifiers.  A Paystack signature is made over a body, exactly.      *)
Authentic(r) ==
  LET c == CallbackOf[r]
  IN  CASE c.provider = "paystack" -> Proof[r] = c.body
        [] c.provider = "mtn_momo" -> Proof[r] = Token
        [] c.provider = "mpesa" -> Proof[r] \in Identities

Body(r) == Json[CallbackOf[r].body]

(* Requests that handle takes as far as the sanitizer and through it.      *)
Readable ==
  {r \in Requests :
     Authentic(r) /\ Id!Valid(CallbackOf[r]) /\ Pii!Readable(Body(r))}

Sanitized ==
  [r \in Requests |->
     [k \in KeyIds |-> Pii!Sanitized(CallbackOf[r].provider, Body(r), k)]]

Kept(r) == Sanitized[r][keyId]

(* payload_sha256, given by what it is computed from: the body, and not    *)
(* what is kept of it.                                                     *)
Digest_OfKept(r, k) == <<CallbackOf[r].body, k>>

Digest(r, k) == <<CallbackOf[r].body>>

(* The WebhookEvent: event id, provider_reference, payload_sha256. *)
EventUnder(r, k) ==
  [event     |-> Id!EventId(CallbackOf[r]),
   reference |-> Id!Reference(CallbackOf[r]),
   digest    |-> Digest(r, k)]

Event(r) == EventUnder(r, keyId)

(* The events of readable requests are deliveries, told apart by their     *)
(* fields; no minimised payload is NULL.                                   *)
ASSUME IntakeAssumption ==
  /\ \A r \in Requests :
       CallbackOf[r].provider \in {"paystack", "mpesa", "mtn_momo"}
  /\ \A r \in Readable, k \in KeyIds :
       EventUnder(r, k) \in Deliveries /\ Sanitized[r][k] # Nil

(* None of the steps before ingest_webhook's transaction raises. *)
Passes(r) ==
  /\ r \in Readable
  /\ Pii!Validates(CallbackOf[r].provider, Kept(r))

(* The payload is written with the event, whether or not the payment is    *)
(* known yet, and not again when the event is.                             *)
Evidence_Matched(r) ==
  [evidence EXCEPT ![EventOf[Event(r)]] =
     IF @ = Nil /\ Hinted(TxnOf[Event(r)]) THEN Kept(r) ELSE @]

Evidence(r) ==
  [evidence EXCEPT ![EventOf[Event(r)]] = IF @ = Nil THEN Kept(r) ELSE @]

Handle(r) ==
  /\ Passes(r)
  /\ IngestWebhook(Event(r))
  /\ evidence' = Evidence(r)
  /\ acknowledged' = acknowledged \cup {r}
  /\ UNCHANGED keyId

(* The deployment restarts with another AGENTBRIDGE_PII_HMAC_KEY. *)
RotateKey(k) ==
  /\ k # keyId
  /\ keyId' = k
  /\ UNCHANGED <<vars, evidence, acknowledged>>

IntakeNext ==
  \/ \E r \in Requests : Handle(r)
  \/ \E k \in KeyIds : RotateKey(k)
  \/ /\ \/ \E t \in Txns : Application(t)
        \/ \E t \in Txns, verdict \in Fsm!HeadEnd : ProviderDecides(t, verdict)
        \/ \E p \in Pollers :
             Reconcile(p) \/ Crash(p) \/ \E t \in Txns : StartPoll(p, t)
     /\ UNCHANGED intakeVars

IntakeSpec == IntakeInit /\ [][IntakeNext]_allVars

-----------------------------------------------------------------------------
(* A provider that has had its 200 and delivers the same request again,    *)
(* after key rotations, other callbacks and settlement, is acknowledged    *)
(* again and not refused as a conflict with itself (docs/webhooks.md:52).  *)
RedeliveryAcknowledged ==
  \A r \in acknowledged :
    Passes(r) /\ SameIdentity(EventOf[Event(r)], Event(r))

(* The handler and the repository keep separate lists of what a minimised  *)
(* payload may hold: whatever an authenticated callback says, what the     *)
(* first keeps of it the second accepts.                                   *)
ProjectionsAccepted ==
  \A r \in Readable : Pii!Validates(CallbackOf[r].provider, Kept(r))

(* The evidence of an event names, under one key, exactly the people its   *)
(* body speaks of, however the provider spells and nests them and whatever *)
(* else is delivered under the same id: each by the digest of its one      *)
(* normal form, so that the same person is recognised in other evidence.   *)
SubjectsRecognised ==
  \A e \in EventIds : evidence[e] # Nil =>
    \E k \in KeyIds :
      {f.digest : f \in evidence[e].fingerprints} =
        {<<k, s[1], s[2]>> : s \in Subjects[Head(stored[e].digest)]}

=============================================================================
