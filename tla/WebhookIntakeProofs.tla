------------------------ MODULE WebhookIntakeProofs --------------------------
(***************************************************************************)
(* Theorems of WebhookIntake, for any requests, bodies, keys, payments and *)
(* pollers.  What the ledger guarantees is taken from ReconciliationProofs *)
(* through the first theorem.                                              *)
(***************************************************************************)
EXTENDS WebhookIntake, ReconciliationProofs

(* What the handler wrote: the event and its evidence are those of one     *)
(* request that was let through, under one key.                            *)
EvidenceInv ==
  \A e \in EventIds : stored[e] # Nil =>
    \E r \in Readable, k \in KeyIds :
      stored[e] = EventUnder(r, k) /\ evidence[e] = Sanitized[r][k]

(* What was acknowledged is stored as it was sent.                         *)
AcknowledgedInv ==
  \A r \in acknowledged :
    r \in Readable /\ stored[EventOf[Event(r)]] = Event(r)

IntakeInv ==
  /\ IntakeTypeOK
  /\ evidence = [e \in EventIds |-> evidence[e]]
  /\ EvidenceInv
  /\ AcknowledgedInv

-----------------------------------------------------------------------------
(* The ledger's steps *)

(* The event of a request does not depend on the sanitizer key.            *)
LEMMA EventsKeepTheirKey ==
  ASSUME NEW r \in Requests, NEW k, NEW l
  PROVE  EventUnder(r, k) = EventUnder(r, l)
BY DEF EventUnder, Digest

(* Every step of the intake is a step of the ledger or leaves it alone.    *)
LEMMA IntakeStep ==
  ASSUME keyId \in KeyIds, [IntakeNext]_allVars
  PROVE  [Next]_vars
<1>1. CASE UNCHANGED allVars
  BY <1>1 DEF allVars
<1>2. ASSUME NEW r \in Requests, Handle(r) PROVE Next
  <2>1. r \in Readable
    BY <1>2 DEF Handle, Passes
  <2>2. Event(r) \in Deliveries
    BY <2>1, IntakeAssumption DEF Event
  <2>3. IngestWebhook(Event(r))
    BY <1>2 DEF Handle
  <2>4. QED
    BY <2>2, <2>3 DEF Next
<1>3. ASSUME NEW k \in KeyIds, RotateKey(k) PROVE UNCHANGED vars
  BY <1>3 DEF RotateKey
<1>4. CASE \E t \in Txns : Application(t)
  BY <1>4 DEF Next
<1>5. CASE \E t \in Txns, verdict \in Fsm!HeadEnd : ProviderDecides(t, verdict)
  BY <1>5 DEF Next
<1>6. ASSUME NEW p \in Pollers,
             Reconcile(p) \/ Crash(p) \/ \E t \in Txns : StartPoll(p, t)
      PROVE  Next
  <2>1. p \in Procs
    BY DEF Procs
  <2>2. QED
    BY <1>6, <2>1 DEF Next
<1>7. QED
  BY <1>1, <1>2, <1>3, <1>4, <1>5, <1>6 DEF IntakeNext

LEMMA KeyInv == IntakeSpec => [](keyId \in KeyIds)
<1>1. IntakeInit => keyId \in KeyIds
  BY DEF IntakeInit
<1>2. keyId \in KeyIds /\ [IntakeNext]_allVars => (keyId \in KeyIds)'
  BY DEF IntakeNext, Handle, RotateKey, allVars, intakeVars
<1>3. QED
  BY <1>1, <1>2, PTL DEF IntakeSpec

(* The intake implements the ledger: verification, minimisation and key    *)
(* rotation never make it do what Reconciliation does not allow, so its    *)
(* theorems hold here too.                                                 *)
THEOREM IntakeImplementsLedger == IntakeSpec => Spec
<1>1. IntakeInit => Init
  BY DEF IntakeInit
<1>2. keyId \in KeyIds /\ [IntakeNext]_allVars => [Next]_vars
  BY IntakeStep
<1>3. QED
  BY <1>1, <1>2, KeyInv, PTL DEF IntakeSpec, Spec

-----------------------------------------------------------------------------
(* Minimised payloads *)

LEMMA WordsAreListed ==
  ASSUME NEW v, NEW allowed
  PROVE  Pii!Word(v, allowed) \in allowed \cup {"unknown"}
BY DEF Pii!Word

LEMMA CodesAreShort ==
  ASSUME NEW v
  PROVE  Pii!Code(v) \in Codes \cup {"unknown"}
BY DEF Pii!Code

(* Only phone numbers and addresses are looked for.                        *)
LEMMA KindsFound ==
  ASSUME NEW json, NEW f \in Pii!Found(json)
  PROVE  f[1] \in {"msisdn", "email"}
<1>1. \A key : Pii!Kind(key) \in {"msisdn", "email", "none"}
  BY DEF Pii!Kind
<1>2. PICK v : f \in Pii!FoundAt(v)
  BY DEF Pii!Found
<1>3. CASE f \in Pii!Named(v)
  <2>1. /\ Pii!Kind(Pii!Get(v, "Name").text) # "none"
        /\ f = <<Pii!Kind(Pii!Get(v, "Name").text), Pii!Get(v, "Value").text>>
    BY <1>3 DEF Pii!Named
  <2>2. QED
    BY <1>1, <2>1
<1>4. ASSUME NEW k \in DOMAIN v.fields, Pii!ChildKind(v, k) # "none",
             f = <<Pii!ChildKind(v, k), v.fields[k].text>>
      PROVE  f[1] \in {"msisdn", "email"}
  BY <1>1, <1>4 DEF Pii!ChildKind
<1>5. QED
  BY <1>2, <1>3, <1>4 DEF Pii!FoundAt

(* Whatever JSON a provider sends, what the sanitizer keeps of it passes   *)
(* the repository's check.                                                 *)
LEMMA SanitizedValidates ==
  ASSUME NEW provider \in {"paystack", "mpesa", "mtn_momo"}, NEW json, NEW key
  PROVE  Pii!Validates(provider, Pii!Sanitized(provider, json, key))
<1> DEFINE payload == Pii!Sanitized(provider, json, key)
<1>1. /\ payload.provider = provider
      /\ payload.words = Pii!Projection(provider, json)
      /\ payload.fingerprints = Pii!Fingerprints(json, key)
  BY DEF Pii!Sanitized
<1>2. \A f \in payload.fingerprints : f.kind \in {"msisdn", "email"}
  BY <1>1, KindsFound DEF Pii!Fingerprints
<1> SUFFICES Pii!Validates(provider, payload)
  OBVIOUS
<1> HIDE DEF payload
<1>3. CASE provider = "paystack"
  <2> DEFINE event == Pii!Word(Pii!Get(json, "event"), Pii!PaystackEvents)
             state == Pii!Word(Pii!Get(Pii!Get(json, "data"), "status"),
                               Pii!PaystackStatuses)
  <2>1. payload.words = [event |-> event, provider_status |-> state]
    BY <1>1, <1>3 DEF Pii!Projection
  <2>2. /\ event \in Pii!PaystackEvents \cup {"unknown"}
        /\ state \in Pii!PaystackStatuses \cup {"unknown"}
    BY WordsAreListed
  <2> HIDE DEF event, state
  <2>3. /\ event \in Pii!SafeValues.event
        /\ state \in Pii!SafeValues.provider_status
    BY <2>2 DEF Pii!PaystackEvents, Pii!PaystackStatuses, Pii!SafeValues
  <2>4. Pii!AllowedFields["paystack"] = {"event", "provider_status"}
    BY DEF Pii!AllowedFields
  <2>5. /\ DOMAIN payload.words = {"event", "provider_status"}
        /\ payload.words["event"] = event
        /\ payload.words["provider_status"] = state
    BY <2>1
  <2>6. \A w \in DOMAIN payload.words :
          payload.words[w] \in Pii!SafeValues[w]
    BY <2>3, <2>5
  <2>7. DOMAIN payload.words \subseteq Pii!AllowedFields[provider]
    BY <1>3, <2>4, <2>5
  <2>8. QED
    BY <1>1, <1>2, <2>6, <2>7 DEF Pii!Validates
<1>4. CASE provider = "mpesa"
  <2> DEFINE code == Pii!Code(Pii!Get(Pii!Get(Pii!Get(json, "Body"),
                                              "stkCallback"), "ResultCode"))
  <2>1. payload.words = [result_code |-> code]
    BY <1>1, <1>4 DEF Pii!Projection
  <2>2. code \in Codes \cup {"unknown"}
    BY CodesAreShort
  <2> HIDE DEF code
  <2>3. code \in Pii!SafeValues.result_code
    BY <2>2 DEF Pii!SafeValues
  <2>4. Pii!AllowedFields["mpesa"] = {"result_code"}
    BY DEF Pii!AllowedFields
  <2>5. /\ DOMAIN payload.words = {"result_code"}
        /\ payload.words["result_code"] = code
    BY <2>1
  <2>6. \A w \in DOMAIN payload.words :
          payload.words[w] \in Pii!SafeValues[w]
    BY <2>3, <2>5
  <2>7. DOMAIN payload.words \subseteq Pii!AllowedFields[provider]
    BY <1>4, <2>4, <2>5
  <2>8. QED
    BY <1>1, <1>2, <2>6, <2>7 DEF Pii!Validates
<1>5. CASE provider = "mtn_momo"
  <2> DEFINE state == Pii!Word(Pii!Get(json, "status"), Pii!MtnStatuses)
  <2>1. payload.words = [provider_status |-> state]
    BY <1>1, <1>5 DEF Pii!Projection
  <2>2. state \in Pii!MtnStatuses \cup {"unknown"}
    BY WordsAreListed
  <2> HIDE DEF state
  <2>3. state \in Pii!SafeValues.provider_status
    BY <2>2 DEF Pii!MtnStatuses, Pii!SafeValues
  <2>4. Pii!AllowedFields["mtn_momo"] = {"provider_status"}
    BY DEF Pii!AllowedFields
  <2>5. /\ DOMAIN payload.words = {"provider_status"}
        /\ payload.words["provider_status"] = state
    BY <2>1
  <2>6. \A w \in DOMAIN payload.words :
          payload.words[w] \in Pii!SafeValues[w]
    BY <2>3, <2>5
  <2>7. DOMAIN payload.words \subseteq Pii!AllowedFields[provider]
    BY <1>5, <2>4, <2>5
  <2>8. QED
    BY <1>1, <1>2, <2>6, <2>7 DEF Pii!Validates
<1>6. QED
  BY <1>3, <1>4, <1>5

(* The repository accepts every projection the handler makes: no           *)
(* authenticated callback is refused for what the sanitizer left of it.    *)
THEOREM ProjectionsPass == IntakeSpec => []ProjectionsAccepted
<1>1. keyId \in KeyIds => ProjectionsAccepted
  <2> SUFFICES ASSUME keyId \in KeyIds, NEW r \in Readable
               PROVE  Pii!Validates(CallbackOf[r].provider, Kept(r))
    BY DEF ProjectionsAccepted
  <2>1. r \in Requests
    BY DEF Readable
  <2>2. Kept(r) = Pii!Sanitized(CallbackOf[r].provider, Body(r), keyId)
    BY <2>1 DEF Kept, Sanitized
  <2>3. CallbackOf[r].provider \in {"paystack", "mpesa", "mtn_momo"}
    BY <2>1, IntakeAssumption
  <2>4. QED
    BY <2>2, <2>3, SanitizedValidates
<1>2. QED
  BY <1>1, KeyInv, PTL

-----------------------------------------------------------------------------
(* Stored evidence *)

LEMMA IntakeInitInv == IntakeInit /\ IInv => IntakeInv
<1> SUFFICES ASSUME IntakeInit, IInv PROVE IntakeInv
  OBVIOUS
<1>1. \A e \in EventIds : stored[e] = Nil /\ evidence[e] = Nil
  BY DEF IntakeInit, Init
<1>2. acknowledged = {}
  BY DEF IntakeInit
<1>3. QED
  BY <1>1, <1>2
  DEF IntakeInit, IInv, IntakeInv, IntakeTypeOK, EvidenceInv, AcknowledgedInv

(* Handling a request writes its event and its evidence together, or finds *)
(* the event as it would write it.                                         *)
LEMMA HandleInv ==
  ASSUME IInv, IInv', IntakeInv, NEW r \in Requests, Handle(r)
  PROVE  IntakeInv'
<1> DEFINE d == Event(r)
           e == EventOf[d]
<1>1. r \in Readable /\ keyId \in KeyIds /\ keyId' = keyId
  BY DEF Handle, Passes, IntakeInv, IntakeTypeOK
<1>2. d = EventUnder(r, keyId) /\ d \in Deliveries
  BY <1>1, IntakeAssumption DEF Event
<1>3. Kept(r) = Sanitized[r][keyId] /\ Kept(r) # Nil
  BY <1>1, IntakeAssumption DEF Kept
<1>4. e \in EventIds /\ d # Nil
  BY <1>2, ConstantsAssumption
<1>5. /\ stored[e] \in {Nil, d}
      /\ stored' = [stored EXCEPT ![e] = IF @ = Nil THEN d ELSE @]
      /\ evidence' = [evidence EXCEPT ![e] = IF @ = Nil THEN Kept(r) ELSE @]
      /\ acknowledged' = acknowledged \cup {r}
  BY DEF Handle, IngestWebhook, Ingested, SameIdentity, Evidence
<1>6. /\ stored \in [EventIds -> Deliveries \cup {Nil}]
      /\ evidence = [x \in EventIds |-> evidence[x]]
      /\ \A x \in EventIds : evidence[x] # Nil <=> stored[x] # Nil
  BY DEF IInv, TypeOK, IntakeInv, IntakeTypeOK
<1> HIDE DEF d, e
<1>7. /\ stored'[e] = d
      /\ evidence'[e] # Nil
      /\ stored[e] = Nil => evidence'[e] = Kept(r)
      /\ stored[e] # Nil => evidence'[e] = evidence[e]
  BY <1>3, <1>4, <1>5, <1>6
<1>8. \A x \in EventIds \ {e} :
        stored'[x] = stored[x] /\ evidence'[x] = evidence[x]
  BY <1>4, <1>5, <1>6
<1>9. IntakeTypeOK'
  <2>1. acknowledged' \subseteq Requests
    BY <1>5 DEF IntakeInv, IntakeTypeOK
  <2>2. \A x \in EventIds : evidence'[x] # Nil <=> stored'[x] # Nil
    BY <1>4, <1>6, <1>7, <1>8
  <2>3. QED
    BY <1>1, <2>1, <2>2 DEF IInv, IntakeTypeOK
<1>10. evidence' = [x \in EventIds |-> evidence'[x]]
  BY <1>5, <1>6
<1>11. EvidenceInv'
  <2> SUFFICES ASSUME NEW x \in EventIds, stored'[x] # Nil
               PROVE  \E q \in Readable, k \in KeyIds :
                        stored'[x] = EventUnder(q, k)
                          /\ evidence'[x] = Sanitized[q][k]
    BY DEF EvidenceInv
  <2>1. CASE x = e /\ stored[e] = Nil
    BY <1>1, <1>2, <1>3, <1>7, <2>1
  <2>2. CASE stored[x] # Nil
    <3>1. stored'[x] = stored[x] /\ evidence'[x] = evidence[x]
      BY <1>5, <1>7, <1>8, <2>2
    <3>2. QED
      BY <2>2, <3>1 DEF IntakeInv, EvidenceInv
  <2>3. QED
    BY <1>8, <2>1, <2>2
<1>12. AcknowledgedInv'
  <2> SUFFICES ASSUME NEW q \in acknowledged'
               PROVE  q \in Readable /\ stored'[EventOf[Event(q)]] = Event(q)
    BY <1>1 DEF AcknowledgedInv, Event
  <2>1. CASE q = r
    BY <1>1, <1>7, <2>1 DEF d, e
  <2>2. CASE q \in acknowledged
    <3>1. q \in Readable /\ stored[EventOf[Event(q)]] = Event(q)
      BY <2>2 DEF IntakeInv, AcknowledgedInv
    <3>2. Event(q) \in Deliveries
      BY <1>1, <3>1, IntakeAssumption DEF Event
    <3>3. EventOf[Event(q)] \in EventIds /\ Event(q) # Nil
      BY <3>2, ConstantsAssumption
    <3>4. stored'[EventOf[Event(q)]] = stored[EventOf[Event(q)]]
      BY <1>5, <1>7, <1>8, <3>1, <3>3
    <3>5. QED
      BY <3>1, <3>4
  <2>3. QED
    BY <1>5, <2>1, <2>2
<1>13. QED
  BY <1>9, <1>10, <1>11, <1>12 DEF IntakeInv

(* A rotation changes neither what is stored nor the event of any request. *)
LEMMA RotateInv ==
  ASSUME IInv, IInv', IntakeInv, NEW k \in KeyIds, RotateKey(k)
  PROVE  IntakeInv'
<1>1. /\ keyId' = k
      /\ UNCHANGED <<stored, evidence, acknowledged>>
  BY DEF RotateKey, vars
<1>2. \A r \in acknowledged : Event(r)' = Event(r)
  <2> SUFFICES ASSUME NEW r \in acknowledged PROVE Event(r)' = Event(r)
    OBVIOUS
  <2>1. r \in Requests
    BY DEF IntakeInv, IntakeTypeOK
  <2>2. QED
    BY <1>1, <2>1, EventsKeepTheirKey DEF Event
<1>3. IntakeTypeOK'
  BY <1>1 DEF IInv, IntakeInv, IntakeTypeOK
<1>4. EvidenceInv'
  BY <1>1 DEF IntakeInv, EvidenceInv
<1>5. AcknowledgedInv'
  BY <1>1, <1>2 DEF IntakeInv, AcknowledgedInv
<1>6. QED
  BY <1>1, <1>3, <1>4, <1>5 DEF IntakeInv

(* No other step touches the events or what the handler keeps.             *)
LEMMA OtherStepsInv ==
  ASSUME IInv, IInv', IntakeInv,
         UNCHANGED <<stored, keyId, evidence, acknowledged>>
  PROVE  IntakeInv'
BY DEF IInv, IntakeInv, IntakeTypeOK, EvidenceInv, AcknowledgedInv, Event

LEMMA IntakeNextInv ==
  ASSUME IInv, IInv', IntakeInv, [IntakeNext]_allVars
  PROVE  IntakeInv'
<1>1. CASE UNCHANGED allVars
  BY <1>1, OtherStepsInv DEF allVars, vars, intakeVars
<1>2. CASE \E r \in Requests : Handle(r)
  BY <1>2, HandleInv
<1>3. CASE \E k \in KeyIds : RotateKey(k)
  BY <1>3, RotateInv
<1>4. ASSUME NEW t \in Txns,
             Application(t)
               \/ \E verdict \in Fsm!HeadEnd : ProviderDecides(t, verdict)
      PROVE  UNCHANGED stored
  BY <1>4 DEF Application, RequestApproval, Abandon, RecordSubmission,
              ProviderDecides
<1>5. ASSUME NEW p \in Pollers,
             Reconcile(p) \/ Crash(p) \/ \E t \in Txns : StartPoll(p, t)
      PROVE  UNCHANGED stored
  BY <1>5 DEF Reconcile, QueryFinal, QueryUncertain, QueryRaises, Finalize,
              FinalizeFails, Crash, StartPoll, ledgerVars
<1>6. QED
  BY <1>1, <1>2, <1>3, <1>4, <1>5, OtherStepsInv DEF IntakeNext, intakeVars

-----------------------------------------------------------------------------
(* Theorems *)

LEMMA LedgerInv == IntakeSpec => []IInv
BY IntakeImplementsLedger, InductiveInvariant, PTL

(* The intake's inductive invariant: what is stored, kept as evidence and  *)
(* acknowledged fits together, whatever is delivered in which order.       *)
THEOREM IntakeInvariant == IntakeSpec => []IntakeInv
<1>1. IntakeInit /\ IInv => IntakeInv
  BY IntakeInitInv
<1>2. IInv /\ IInv' /\ IntakeInv /\ [IntakeNext]_allVars => IntakeInv'
  BY IntakeNextInv
<1>3. QED
  BY <1>1, <1>2, LedgerInv, PTL DEF IntakeSpec

(* An event has evidence exactly when it is stored, matched or not.        *)
THEOREM IntakeTypeCorrect == IntakeSpec => []IntakeTypeOK
<1>1. IntakeInv => IntakeTypeOK
  BY DEF IntakeInv
<1>2. QED
  BY <1>1, IntakeInvariant, PTL

(* A payment moved by a callback that came through verification and        *)
(* minimisation has a job that stands for it.                              *)
THEOREM IntakeCallbacksTracked == IntakeSpec => []CallbackTracked
BY IntakeImplementsLedger, CallbacksTracked, PTL

(* A request that had its 200 is never refused later: neither as invalid,  *)
(* nor as a conflict with itself, under any later key.                     *)
THEOREM RedeliveriesAccepted == IntakeSpec => []RedeliveryAcknowledged
<1>1. IntakeInv /\ ProjectionsAccepted => RedeliveryAcknowledged
  <2> SUFFICES ASSUME IntakeInv, ProjectionsAccepted, NEW r \in acknowledged
               PROVE  Passes(r) /\ SameIdentity(EventOf[Event(r)], Event(r))
    BY DEF RedeliveryAcknowledged
  <2>1. r \in Readable /\ stored[EventOf[Event(r)]] = Event(r)
    BY DEF IntakeInv, AcknowledgedInv
  <2>2. Passes(r)
    BY <2>1 DEF Passes, ProjectionsAccepted
  <2>3. QED
    BY <2>1, <2>2 DEF SameIdentity
<1>2. QED
  BY <1>1, IntakeInvariant, ProjectionsPass, PTL

(* Evidence names the people of the body it is stored with, under one key: *)
(* given that the search finds in each body those it speaks of, no other   *)
(* body delivered under the event id, before or after a rotation, can add, *)
(* drop or mix them.                                                       *)
THEOREM EvidenceNamesItsPeople ==
  ASSUME \A b \in DOMAIN Json :
           Subjects[b] = {<<f[1], Pii!Normal(f[1], f[2])>> :
                            f \in Pii!Found(Json[b])},
         \A r \in Requests : CallbackOf[r].body \in DOMAIN Json
  PROVE  IntakeSpec => []SubjectsRecognised
<1>1. IntakeInv => SubjectsRecognised
  <2> SUFFICES ASSUME IntakeInv, NEW e \in EventIds, evidence[e] # Nil
               PROVE  \E k \in KeyIds :
                        {f.digest : f \in evidence[e].fingerprints} =
                          {<<k, s[1], s[2]>> :
                             s \in Subjects[Head(stored[e].digest)]}
    BY DEF SubjectsRecognised
  <2>1. stored[e] # Nil
    BY DEF IntakeInv, IntakeTypeOK
  <2>2. PICK r \in Readable, k \in KeyIds :
          stored[e] = EventUnder(r, k) /\ evidence[e] = Sanitized[r][k]
    BY <2>1 DEF IntakeInv, EvidenceInv
  <2> DEFINE b == CallbackOf[r].body
  <2>3. r \in Requests /\ b \in DOMAIN Json
    BY DEF Readable
  <2>4. Head(stored[e].digest) = b
    BY <2>2 DEF EventUnder, Digest
  <2>5. evidence[e].fingerprints = Pii!Fingerprints(Json[b], k)
    BY <2>2, <2>3 DEF Sanitized, Body, Pii!Sanitized
  <2> DEFINE digest(f) == <<k, f[1], Pii!Normal(f[1], f[2])>>
             print(f) == [kind |-> f[1], key_id |-> k, digest |-> digest(f)]
  <2>6. {x.digest : x \in Pii!Fingerprints(Json[b], k)} =
          {digest(f) : f \in Pii!Found(Json[b])}
    <3>1. Pii!Fingerprints(Json[b], k) = {print(f) : f \in Pii!Found(Json[b])}
      BY DEF Pii!Fingerprints
    <3>2. \A f : print(f).digest = digest(f)
      OBVIOUS
    <3> HIDE DEF digest, print
    <3>3. QED
      BY <3>1, <3>2
  <2>7. {<<k, s[1], s[2]>> : s \in Subjects[b]} =
          {digest(f) : f \in Pii!Found(Json[b])}
    <3> DEFINE person(f) == <<f[1], Pii!Normal(f[1], f[2])>>
               keyed(s) == <<k, s[1], s[2]>>
    <3>1. Subjects[b] = {person(f) : f \in Pii!Found(Json[b])}
      BY <2>3
    <3>2. \A f : keyed(person(f)) = digest(f)
      OBVIOUS
    <3> HIDE DEF digest, person, keyed
    <3>3. {keyed(s) : s \in Subjects[b]} = {digest(f) : f \in Pii!Found(Json[b])}
      BY <3>1, <3>2
    <3>4. QED
      BY <3>3 DEF keyed
  <2> HIDE DEF digest, print
  <2>8. QED
    BY <2>4, <2>5, <2>6, <2>7
<1>2. QED
  BY <1>1, IntakeInvariant, PTL

=============================================================================
