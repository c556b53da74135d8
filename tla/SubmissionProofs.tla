---------------------------- MODULE SubmissionProofs ----------------------------
(***************************************************************************)
(* Payment initiation, for any intents, attempts, corridors, outages,      *)
(* configured rails and installed packs.  An intent's corridor leaves one  *)
(* pack that will serve it, so all its attempts go to one provider and,    *)
(* where the reference is derived from the intent, name one payment; the   *)
(* provider recognises it, and so no order of late POSTs and retries pays  *)
(* twice or changes a verdict.                                             *)
(***************************************************************************)
EXTENDS Submission, TLAPS

Intent(a) == attempt[a].intent
Pack(a) == attempt[a].pack
State(a) == attempt[a].state

(* The calls of initiate that have found a connector. *)
Routed(a) == State(a) \in {"auth", "posted", "SUBMITTED", "PENDING", "FAILED"}

(* The POST leaves with "posted", not before, and once. *)
PostedOnce(a) ==
  /\ Routed(a) => /\ Intent(a) \in Intents /\ Pack(a) \in Packs
                  /\ Corridor(Pack(a)) = CorridorOf[Intent(a)]
  /\ request[a] = "unsent" <=> State(a) \in {"new", "auth", "raised"}

(* What a connector says of a payment, the provider has decided before. *)
ResultTrue(a) ==
  /\ State(a) \in {"SUBMITTED", "PENDING", "FAILED"} =>
       attempt[a].ref \in {Intent(a), PaymentRef(a)}
  /\ State(a) = "FAILED" =>
       \/ request[a] \in {"rejected", "duplicate"}
       \/ Pack(a) \notin MTN /\ Paid(a)

(* A verdict is a settled payment's, with the reference that was asked for. *)
Settled(a, b, verdict) ==
  /\ Pack(b) = Pack(a) /\ Paid(b) /\ PaymentRef(b) = attempt[a].ref
  /\ Says(b, verdict)

VerdictKnown(a) ==
  attempt[a].verdict # Nil =>
    /\ State(a) \in {"SUBMITTED", "PENDING"}
    /\ \E b \in Attempts : Settled(a, b, attempt[a].verdict)

IInv ==
  /\ TypeOK
  /\ \A a \in Attempts : PostedOnce(a) /\ ResultTrue(a) /\ VerdictKnown(a)
  /\ PaysOnce

-----------------------------------------------------------------------------
(* Each connector accepts a corridor of its own. *)
LEMMA OnePackPerCorridor ==
  ASSUME NEW p \in Packs, NEW q \in Packs, Corridor(p) = Corridor(q)
  PROVE  p = q
  BY DEF Packs, Corridor

(* Attempts of one intent that have found a connector share it, and so     *)
(* share the reference of the payment where it is derived from the intent. *)
LEMMA SameIntent ==
  ASSUME NEW a \in Attempts, NEW b \in Attempts, PostedOnce(a), PostedOnce(b),
         Routed(a), Routed(b), Intent(a) = Intent(b)
  PROVE  /\ Pack(a) = Pack(b)
         /\ Keyed(a) => SamePayment(a, b)
<1>1. Pack(a) = Pack(b)
  BY OnePackPerCorridor DEF PostedOnce
<1>2. Keyed(a) => SamePayment(a, b)
  BY <1>1 DEF Keyed, SamePayment, PaymentRef, Pack, Intent
<1>3. QED
  BY <1>1, <1>2

LEMMA PaidIsRouted ==
  ASSUME NEW a \in Attempts, TypeOK, PostedOnce(a), request[a] # "unsent"
  PROVE  Routed(a) /\ Intent(a) \in Intents /\ Pack(a) \in Packs
<1>1. State(a) \in {"new", "auth", "posted", "raised", "SUBMITTED", "PENDING",
                    "FAILED"}
  BY DEF TypeOK, Attempt, State
<1>2. QED
  BY <1>1 DEF PostedOnce, Routed

LEMMA InitInv == Init => IInv
<1> SUFFICES ASSUME Init
             PROVE  IInv
  OBVIOUS
<1>1. NewAttempt \in Attempt
  BY DEF NewAttempt, Attempt
<1>2. TypeOK
  BY <1>1 DEF Init, TypeOK
<1>3. ASSUME NEW a \in Attempts
      PROVE  PostedOnce(a) /\ ResultTrue(a) /\ VerdictKnown(a)
  <2>1. /\ State(a) = "new" /\ attempt[a].verdict = Nil /\ request[a] = "unsent"
    BY DEF Init, NewAttempt, State
  <2>2. QED
    BY <2>1 DEF PostedOnce, Routed, ResultTrue, VerdictKnown
<1>4. PaysOnce
  BY DEF Init, PaysOnce, Of, Paid
<1>5. QED
  BY <1>2, <1>3, <1>4 DEF IInv

-----------------------------------------------------------------------------
(* A step of one call of initiate or query.  The provider does nothing;    *)
(* what it has of the other attempts, and what they are, stays.            *)
OnlyAttempt(a) ==
  /\ attempt' = [attempt EXCEPT ![a] = attempt'[a]] /\ attempt'[a] \in Attempt
  /\ UNCHANGED request

LEMMA OthersKept ==
  ASSUME IInv, NEW a \in Attempts, OnlyAttempt(a),
         State(a) \notin {"new", "auth"} =>
           attempt'[a].intent = attempt[a].intent /\ attempt'[a].pack = attempt[a].pack
  PROVE  /\ TypeOK'
         /\ \A b \in Attempts \ {a} : attempt'[b] = attempt[b]
         /\ \A b \in Attempts : Paid(b)' <=> Paid(b)
         /\ \A b \in Attempts : request[b] # "unsent" =>
              /\ attempt'[b].intent = attempt[b].intent
              /\ attempt'[b].pack = attempt[b].pack
              /\ PaymentRef(b)' = PaymentRef(b)
              /\ Keyed(b)' <=> Keyed(b)
         /\ PaysOnce'
         /\ \A b \in Attempts \ {a} :
              PostedOnce(b)' /\ ResultTrue(b)' /\ VerdictKnown(b)'
<1>1. /\ attempt \in [Attempts -> Attempt]
      /\ request \in [Attempts -> {"unsent", "sent", "duplicate", "rejected",
                                   "pending", "success", "failed"}]
  BY DEF IInv, TypeOK
<1>2. /\ attempt' = [attempt EXCEPT ![a] = attempt'[a]]
      /\ attempt'[a] \in Attempt /\ UNCHANGED request
  BY DEF OnlyAttempt
<1>3. attempt' \in [Attempts -> Attempt]
  BY <1>1, <1>2
<1>4. \A b \in Attempts \ {a} : attempt'[b] = attempt[b]
  BY <1>1, <1>2
<1>5. TypeOK'
  BY <1>1, <1>2, <1>3 DEF TypeOK
<1>6. \A b \in Attempts : Paid(b)' <=> Paid(b)
  BY <1>2 DEF Paid
<1>7. ASSUME NEW b \in Attempts, request[b] # "unsent"
      PROVE  /\ attempt'[b].intent = attempt[b].intent
             /\ attempt'[b].pack = attempt[b].pack
             /\ PaymentRef(b)' = PaymentRef(b)
             /\ Keyed(b)' <=> Keyed(b)
  <2>1. State(b) \notin {"new", "auth"}
    BY <1>7 DEF IInv, PostedOnce
  <2>2. attempt'[b].intent = attempt[b].intent /\ attempt'[b].pack = attempt[b].pack
    BY <1>4, <2>1
  <2>3. QED
    BY <2>2 DEF Keyed, PaymentRef
<1>8. PaysOnce'
  <2>1. ASSUME NEW i \in Intents, NEW b \in Attempts, NEW c \in Attempts,
               attempt'[b].intent = i, attempt'[c].intent = i,
               Paid(b)', Paid(c)', Keyed(b)'
        PROVE  b = c
    <3>1. request[b] # "unsent" /\ request[c] # "unsent" /\ Paid(b) /\ Paid(c)
      BY <1>6, <2>1 DEF Paid
    <3>2. attempt[b].intent = i /\ attempt[c].intent = i /\ Keyed(b)
      BY <1>7, <2>1, <3>1
    <3>3. QED
      BY <3>1, <3>2 DEF IInv, PaysOnce, Of
  <2>2. QED
    BY <2>1 DEF PaysOnce, Of
<1>9. ASSUME NEW b \in Attempts \ {a}
      PROVE  PostedOnce(b)' /\ ResultTrue(b)' /\ VerdictKnown(b)'
  <2>1. attempt'[b] = attempt[b] /\ request'[b] = request[b]
    BY <1>2, <1>4
  <2>2. PostedOnce(b) /\ ResultTrue(b) /\ VerdictKnown(b)
    BY DEF IInv
  <2>3. PostedOnce(b)'
    BY <2>1, <2>2 DEF PostedOnce, Routed, State, Intent, Pack
  <2>4. ResultTrue(b)'
    BY <2>1, <2>2 DEF ResultTrue, State, Intent, Pack, PaymentRef, Keyed, Paid
  <2>5. ASSUME attempt[b].verdict # Nil
        PROVE  \E c \in Attempts : Settled(b, c, attempt[b].verdict)'
    <3>1. PICK c \in Attempts : Settled(b, c, attempt[b].verdict)
      BY <2>2, <2>5 DEF VerdictKnown
    <3>2. request[c] # "unsent"
      BY <3>1 DEF Settled, Paid
    <3>3. Settled(b, c, attempt[b].verdict)'
      BY <1>2, <1>6, <1>7, <2>1, <3>1, <3>2 DEF Settled, Says, Pack
    <3>4. QED
      BY <3>3
  <2>6. VerdictKnown(b)'
    BY <2>1, <2>2, <2>5 DEF VerdictKnown, State
  <2>7. QED
    BY <2>3, <2>4, <2>6
<1>10. QED
  BY <1>4, <1>5, <1>6, <1>7, <1>8, <1>9

LEMMA OnlyAttemptKeeps ==
  ASSUME IInv, NEW a \in Attempts, OnlyAttempt(a),
         State(a) \notin {"new", "auth"} =>
           attempt'[a].intent = attempt[a].intent /\ attempt'[a].pack = attempt[a].pack,
         PostedOnce(a)', ResultTrue(a)', VerdictKnown(a)'
  PROVE  IInv'
  BY OthersKept DEF IInv

-----------------------------------------------------------------------------
(* initiate up to its POST. *)
LEMMA RouteInv ==
  ASSUME IInv, NEW a \in Attempts, NEW i \in Intents, NEW down \in Outages,
         Unroutable(a, i, down) \/ Route(a, i, down)
  PROVE  IInv'
<1> DEFINE pack == PackFor(i, Select(i, down))
<1>1. State(a) = "new" /\ request[a] = "unsent" /\ UNCHANGED request
  BY DEF Unroutable, Route, State, IInv, PostedOnce
<1>2. attempt \in [Attempts -> Attempt]
  BY DEF IInv, TypeOK
<1>3. CASE Unroutable(a, i, down)
  <2> DEFINE new == [NewAttempt EXCEPT !.intent = i, !.pack = Nil, !.state = "raised"]
  <2>1. attempt' = [attempt EXCEPT ![a] = new]
    BY <1>3 DEF Unroutable, Raise
  <2>2. new \in Attempt /\ new.state = "raised" /\ new.verdict = Nil
    BY DEF NewAttempt, Attempt
  <2> HIDE DEF new
  <2>3. attempt'[a] = new /\ OnlyAttempt(a)
    BY <1>1, <1>2, <2>1, <2>2 DEF OnlyAttempt
  <2>4. PostedOnce(a)' /\ ResultTrue(a)' /\ VerdictKnown(a)'
    BY <1>1, <2>2, <2>3 DEF PostedOnce, Routed, ResultTrue, VerdictKnown, State
  <2>5. QED
    BY <1>1, <2>3, <2>4, OnlyAttemptKeeps
<1>4. CASE Route(a, i, down)
  <2>1. Serves(pack, i)
    BY <1>4 DEF Route
  <2> HIDE DEF pack
  <2> DEFINE new == [NewAttempt EXCEPT !.intent = i, !.pack = pack, !.state = "auth"]
  <2>2. attempt' = [attempt EXCEPT ![a] = new]
    BY <1>4 DEF Route, pack
  <2>3. pack \in Packs /\ Corridor(pack) = CorridorOf[i]
    BY <2>1, SubmissionAssumption DEF Serves
  <2>4. /\ new \in Attempt /\ new.state = "auth" /\ new.verdict = Nil
        /\ new.intent = i /\ new.pack = pack
    BY <2>3 DEF NewAttempt, Attempt
  <2> HIDE DEF new
  <2>5. attempt'[a] = new /\ OnlyAttempt(a)
    BY <1>1, <1>2, <2>2, <2>4 DEF OnlyAttempt
  <2>6. PostedOnce(a)' /\ ResultTrue(a)' /\ VerdictKnown(a)'
    BY <1>1, <2>3, <2>4, <2>5
    DEF PostedOnce, Routed, ResultTrue, VerdictKnown, State, Intent, Pack
  <2>7. QED
    BY <1>1, <2>5, <2>6, OnlyAttemptKeeps
<1>5. QED
  BY <1>3, <1>4

LEMMA AuthFailsInv ==
  ASSUME IInv, NEW a \in Attempts, AuthFails(a)
  PROVE  IInv'
<1> DEFINE new == [NewAttempt EXCEPT !.intent = attempt[a].intent,
                                     !.pack = attempt[a].pack, !.state = "raised"]
<1>1. /\ State(a) = "auth" /\ request[a] = "unsent" /\ UNCHANGED request
      /\ attempt' = [attempt EXCEPT ![a] = new]
  BY DEF AuthFails, Raise, State, IInv, PostedOnce
<1>2. attempt \in [Attempts -> Attempt] /\ attempt[a] \in Attempt
  BY DEF IInv, TypeOK
<1>3. new \in Attempt /\ new.state = "raised" /\ new.verdict = Nil
  BY <1>2 DEF NewAttempt, Attempt
<1> HIDE DEF new
<1>4. attempt'[a] = new /\ OnlyAttempt(a)
  BY <1>1, <1>2, <1>3 DEF OnlyAttempt
<1>5. PostedOnce(a)' /\ ResultTrue(a)' /\ VerdictKnown(a)'
  BY <1>1, <1>3, <1>4 DEF PostedOnce, Routed, ResultTrue, VerdictKnown, State
<1>6. QED
  BY <1>1, <1>4, <1>5, OnlyAttemptKeeps

(* The POST leaves: the provider may have it from now on. *)
LEMMA PostInv ==
  ASSUME IInv, NEW a \in Attempts, Post(a)
  PROVE  IInv'
<1> DEFINE new == [attempt[a] EXCEPT !.state = "posted"]
<1>1. /\ State(a) = "auth" /\ request[a] = "unsent"
      /\ attempt' = [attempt EXCEPT ![a] = new]
      /\ request' = [request EXCEPT ![a] = "sent"]
  BY DEF Post, State, IInv, PostedOnce, TypeOK
<1>2. /\ attempt \in [Attempts -> Attempt] /\ attempt[a] \in Attempt
      /\ request \in [Attempts -> {"unsent", "sent", "duplicate", "rejected",
                                   "pending", "success", "failed"}]
  BY DEF IInv, TypeOK
<1>3. /\ new \in Attempt /\ new.state = "posted" /\ new.intent = Intent(a)
      /\ new.pack = Pack(a) /\ new.verdict = attempt[a].verdict
  BY <1>2 DEF Attempt, Intent, Pack
<1> HIDE DEF new
<1>4. attempt' \in [Attempts -> Attempt] /\ attempt'[a] = new
  BY <1>1, <1>2, <1>3
<1>5. /\ request' \in [Attempts -> {"unsent", "sent", "duplicate", "rejected",
                                    "pending", "success", "failed"}]
      /\ request'[a] = "sent"
      /\ \A b \in Attempts \ {a} :
           attempt'[b] = attempt[b] /\ request'[b] = request[b]
  BY <1>1, <1>2
<1>6. TypeOK'
  BY <1>4, <1>5 DEF TypeOK
<1>7. /\ \A b \in Attempts : /\ Paid(b)' <=> Paid(b)
                             /\ Intent(b)' = Intent(b) /\ Pack(b)' = Pack(b)
                             /\ PaymentRef(b)' = PaymentRef(b)
                             /\ Keyed(b)' <=> Keyed(b)
      /\ ~Paid(a) /\ attempt[a].verdict = Nil
  <2>1. ~Paid(a) /\ ~Paid(a)'
    BY <1>1, <1>5 DEF Paid
  <2>2. attempt[a].verdict = Nil
    BY <1>1 DEF IInv, VerdictKnown
  <2>3. \A b \in Attempts : Intent(b)' = Intent(b) /\ Pack(b)' = Pack(b)
    BY <1>3, <1>4, <1>5 DEF Intent, Pack
  <2>4. \A b \in Attempts : Paid(b)' <=> Paid(b)
    BY <1>5, <2>1 DEF Paid
  <2>5. QED
    BY <2>1, <2>2, <2>3, <2>4 DEF PaymentRef, Keyed, Intent, Pack
<1>8. PaysOnce'
  BY <1>7 DEF IInv, PaysOnce, Of, Intent
<1>9. PostedOnce(a)' /\ ResultTrue(a)' /\ VerdictKnown(a)'
  <2>1. PostedOnce(a)
    BY DEF IInv
  <2>2. Routed(a) /\ State(a)' = "posted" /\ attempt'[a].verdict = Nil
    BY <1>1, <1>3, <1>4, <1>7 DEF Routed, State
  <2>3. QED
    BY <1>5, <1>7, <2>1, <2>2
    DEF PostedOnce, Routed, ResultTrue, VerdictKnown
<1>10. ASSUME NEW b \in Attempts \ {a}
       PROVE  PostedOnce(b)' /\ ResultTrue(b)' /\ VerdictKnown(b)'
  <2>1. PostedOnce(b) /\ ResultTrue(b) /\ VerdictKnown(b)
    BY DEF IInv
  <2>2. attempt'[b] = attempt[b] /\ request'[b] = request[b]
    BY <1>5
  <2>3. PostedOnce(b)' /\ ResultTrue(b)'
    BY <1>7, <2>1, <2>2 DEF PostedOnce, Routed, ResultTrue, State
  <2>4. ASSUME NEW c \in Attempts, Settled(b, c, attempt[b].verdict)
        PROVE  Settled(b, c, attempt[b].verdict)'
    <3>1. request'[c] = request[c]
      BY <1>5, <1>7, <2>4 DEF Settled
    <3>2. QED
      BY <1>7, <2>2, <2>4, <3>1 DEF Settled, Says
  <2>5. VerdictKnown(b)'
    BY <2>1, <2>2, <2>4 DEF VerdictKnown, State
  <2>6. QED
    BY <2>3, <2>5
<1>11. QED
  BY <1>6, <1>8, <1>9, <1>10 DEF IInv

-----------------------------------------------------------------------------
(* The connector's result names the intent or the payment, and FAILED      *)
(* follows a refusal or an unreadable 2xx.                                 *)
LEMMA ResultInv ==
  ASSUME IInv, NEW a \in Attempts,
         NEW st \in {"SUBMITTED", "PENDING", "FAILED"},
         NEW ref \in {Intent(a), PaymentRef(a)}, Result(a, st, ref),
         st = "FAILED" => \/ request[a] \in {"rejected", "duplicate"}
                          \/ Pack(a) \notin MTN /\ Paid(a)
  PROVE  IInv'
<1> DEFINE new == [attempt[a] EXCEPT !.state = st, !.ref = ref]
<1>1. /\ State(a) = "posted" /\ UNCHANGED request
      /\ attempt' = [attempt EXCEPT ![a].state = st, ![a].ref = ref]
  BY DEF Result, State
<1>2. /\ attempt \in [Attempts -> Attempt] /\ attempt[a] \in Attempt
      /\ PostedOnce(a) /\ VerdictKnown(a)
  BY DEF IInv, TypeOK
<1>3. Routed(a) /\ request[a] # "unsent" /\ attempt[a].verdict = Nil
  BY <1>1, <1>2 DEF Routed, PostedOnce, VerdictKnown
<1>4. ref \in Intents \cup Attempts \cup {Nil}
  BY <1>2, <1>3 DEF PostedOnce, PaymentRef, Intent
<1>5. attempt' = [attempt EXCEPT ![a] = new]
  BY <1>1, <1>2
<1>6. /\ new \in Attempt /\ new.state = st /\ new.ref = ref
      /\ new.intent = Intent(a) /\ new.pack = Pack(a) /\ new.verdict = Nil
  BY <1>2, <1>3, <1>4 DEF Attempt, Intent, Pack
<1> HIDE DEF new
<1>7. attempt'[a] = new /\ OnlyAttempt(a)
  BY <1>1, <1>2, <1>5, <1>6 DEF OnlyAttempt
<1>8. /\ PaymentRef(a)' = PaymentRef(a) /\ Intent(a)' = Intent(a)
      /\ Pack(a)' = Pack(a) /\ State(a)' = st
      /\ Paid(a)' <=> Paid(a)
  BY <1>1, <1>6, <1>7 DEF PaymentRef, Keyed, Intent, Pack, State, Paid
<1>9. PostedOnce(a)'
  BY <1>1, <1>2, <1>3, <1>8 DEF PostedOnce, Routed
<1>10. ResultTrue(a)'
  BY <1>1, <1>6, <1>7, <1>8 DEF ResultTrue
<1>11. VerdictKnown(a)'
  BY <1>6, <1>7 DEF VerdictKnown
<1>12. QED
  BY <1>1, <1>7, <1>8, <1>9, <1>10, <1>11, OnlyAttemptKeeps DEF Intent, Pack

LEMMA ConnectorInv ==
  ASSUME IInv, NEW a \in Attempts,
         \/ Uncertain(a) \/ UncertainNamed(a) \/ Submitted(a)
         \/ Unreadable(a) \/ Rejected(a)
  PROVE  IInv'
<1>1. Fallback(a) = Intent(a)
  BY DEF Fallback, Intent
<1>2. CASE Uncertain(a)
  BY <1>1, <1>2, ResultInv DEF Uncertain
<1>3. CASE UncertainNamed(a)
  BY <1>3, ResultInv DEF UncertainNamed
<1>4. CASE Submitted(a)
  BY <1>1, <1>4, ResultInv DEF Submitted
<1>5. CASE Rejected(a)
  BY <1>1, <1>5, ResultInv DEF Rejected
<1>6. CASE Unreadable(a) /\ Pack(a) \in MTN
  BY <1>1, <1>6, ResultInv DEF Unreadable, Pack
<1>7. CASE Unreadable(a) /\ Pack(a) \notin MTN
  BY <1>1, <1>7, ResultInv DEF Unreadable, Pack
<1>8. QED
  BY <1>2, <1>3, <1>4, <1>5, <1>6, <1>7

(* A query is answered with what the provider has settled. *)
LEMMA QueryInv ==
  ASSUME IInv, NEW a \in Attempts, NEW verdict \in {"CONFIRMED", "FAILED"},
         Query(a, verdict)
  PROVE  IInv'
<1> DEFINE new == [attempt[a] EXCEPT !.verdict = verdict]
<1>1. /\ State(a) \in {"SUBMITTED", "PENDING"} /\ UNCHANGED request
      /\ attempt' = [attempt EXCEPT ![a].verdict = verdict]
  BY DEF Query, State
<1>2. PICK b \in Attempts : Settled(a, b, verdict)
  BY DEF Query, Settled, Pack
<1>3. /\ attempt \in [Attempts -> Attempt] /\ attempt[a] \in Attempt
      /\ PostedOnce(a) /\ ResultTrue(a)
  BY DEF IInv, TypeOK
<1>4. attempt' = [attempt EXCEPT ![a] = new]
  BY <1>1, <1>3
<1>5. /\ new \in Attempt /\ new.state = State(a) /\ new.ref = attempt[a].ref
      /\ new.intent = Intent(a) /\ new.pack = Pack(a) /\ new.verdict = verdict
  BY <1>3 DEF Attempt, Intent, Pack, State
<1> HIDE DEF new
<1>6. attempt'[a] = new /\ OnlyAttempt(a)
  BY <1>1, <1>3, <1>4, <1>5 DEF OnlyAttempt
<1>7. /\ PaymentRef(a)' = PaymentRef(a) /\ Intent(a)' = Intent(a)
      /\ Pack(a)' = Pack(a) /\ State(a)' = State(a)
      /\ Paid(a)' <=> Paid(a)
  BY <1>1, <1>5, <1>6 DEF PaymentRef, Keyed, Intent, Pack, State, Paid
<1>8. PostedOnce(a)' /\ ResultTrue(a)'
  BY <1>1, <1>3, <1>5, <1>6, <1>7 DEF PostedOnce, ResultTrue, Routed
<1>9. VerdictKnown(a)'
  <2>1. request[b] # "unsent"
    BY <1>2 DEF Settled, Paid
  <2>2. /\ Pack(b)' = Pack(b) /\ PaymentRef(b)' = PaymentRef(b)
        /\ Paid(b)' <=> Paid(b)
    BY <1>1, <1>5, <1>6, <2>1, OthersKept DEF Pack, Intent
  <2>3. Settled(a, b, verdict)'
    BY <1>1, <1>2, <1>5, <1>6, <1>7, <2>2 DEF Settled, Says
  <2>4. QED
    BY <1>1, <1>5, <1>6, <1>7, <2>3 DEF VerdictKnown
<1>10. QED
  BY <1>1, <1>5, <1>6, <1>8, <1>9, OnlyAttemptKeeps DEF Intent, Pack

-----------------------------------------------------------------------------
(* The provider: a payment is accepted once under its reference, and what  *)
(* is settled stays.                                                       *)
LEMMA ProviderInv ==
  ASSUME IInv, NEW a \in Attempts, Provider(a)
  PROVE  IInv'
<1> DEFINE Requests == {"unsent", "sent", "duplicate", "rejected",
                        "pending", "success", "failed"}
<1>1. PICK outcome \in Requests :
        /\ request' = [request EXCEPT ![a] = outcome] /\ UNCHANGED attempt
        /\ \/ /\ request[a] = "sent" /\ outcome \in {"rejected", "duplicate", "pending"}
              /\ outcome = "pending" =>
                   ~\E b \in Attempts : Paid(b) /\ SamePayment(a, b)
           \/ request[a] = "pending" /\ outcome \in {"success", "failed"}
  BY DEF Provider, Receive, SettlePayment
<1>2. request \in [Attempts -> Requests] /\ TypeOK
      /\ \A b \in Attempts : PostedOnce(b) /\ ResultTrue(b) /\ VerdictKnown(b)
  BY DEF IInv, TypeOK
<1>3. /\ request' \in [Attempts -> Requests] /\ request'[a] = outcome
      /\ \A b \in Attempts \ {a} : request'[b] = request[b]
  BY <1>1, <1>2
<1>4. TypeOK'
  BY <1>1, <1>2, <1>3 DEF TypeOK
<1>5. \A b \in Attempts : /\ Intent(b)' = Intent(b) /\ Pack(b)' = Pack(b)
                          /\ State(b)' = State(b)
                          /\ PaymentRef(b)' = PaymentRef(b)
                          /\ Keyed(b)' <=> Keyed(b)
                          /\ Routed(b)' <=> Routed(b)
  BY <1>1 DEF Intent, Pack, State, PaymentRef, Keyed, Routed
<1>6. \A b \in Attempts : /\ request'[b] = "unsent" <=> request[b] = "unsent"
                          /\ Paid(b) => Paid(b)'
                          /\ \A v : Says(b, v) => Says(b, v)'
                          /\ request[b] \in {"rejected", "duplicate"} =>
                               request'[b] = request[b]
                          /\ b # a => (Paid(b)' <=> Paid(b))
  BY <1>1, <1>3 DEF Paid, Says
<1>7. ASSUME NEW b \in Attempts
      PROVE  PostedOnce(b)' /\ ResultTrue(b)' /\ VerdictKnown(b)'
  <2>1. PostedOnce(b)'
    BY <1>2, <1>5, <1>6 DEF PostedOnce
  <2>2. ResultTrue(b)'
    BY <1>1, <1>2, <1>5, <1>6 DEF ResultTrue
  <2>3. VerdictKnown(b)'
    BY <1>1, <1>2, <1>5, <1>6 DEF VerdictKnown, Settled
  <2>4. QED
    BY <2>1, <2>2, <2>3
<1>8. ASSUME NEW b \in Attempts \ {a}, Paid(a)', Paid(b), Intent(b) = Intent(a),
             Keyed(a) \/ Keyed(b)
      PROVE  FALSE
  <2>1. request[a] # "unsent" /\ request[b] # "unsent"
    BY <1>1, <1>8 DEF Paid
  <2>2. Routed(a) /\ Routed(b) /\ Intent(a) \in Intents
    BY <1>2, <2>1, PaidIsRouted
  <2>3. Pack(a) = Pack(b) /\ (Keyed(a) => SamePayment(a, b))
    BY <1>2, <1>8, <2>2, SameIntent
  <2>4. Keyed(a) /\ Keyed(b)
    BY <1>8, <2>3 DEF Keyed, Pack
  <2>5. Paid(a)
    BY <1>1, <1>3, <1>8, <2>3, <2>4 DEF Paid
  <2>6. QED
    BY <1>8, <2>2, <2>4, <2>5 DEF IInv, PaysOnce, Of, Intent
<1>9. PaysOnce'
  <2>1. ASSUME NEW i \in Intents, NEW b \in Attempts, NEW c \in Attempts,
               Intent(b) = i, Intent(c) = i, Paid(b)', Paid(c)', Keyed(b), b # c
        PROVE  FALSE
    <3>1. CASE b = a
      BY <1>6, <1>8, <2>1, <3>1
    <3>2. CASE c = a
      BY <1>6, <1>8, <2>1, <3>2
    <3>3. CASE b # a /\ c # a
      BY <1>6, <2>1, <3>3 DEF IInv, PaysOnce, Of, Intent
    <3>4. QED
      BY <3>1, <3>2, <3>3
  <2>2. QED
    BY <1>5, <2>1 DEF PaysOnce, Of, Intent
<1>10. QED
  BY <1>4, <1>7, <1>9 DEF IInv

-----------------------------------------------------------------------------
LEMMA NextInv == IInv /\ [Next]_vars => IInv'
<1> SUFFICES ASSUME IInv, [Next]_vars
             PROVE  IInv'
  OBVIOUS
<1>1. ASSUME NEW a \in Attempts, Initiate(a)
      PROVE  IInv'
  BY <1>1, RouteInv, AuthFailsInv, PostInv, ConnectorInv DEF Initiate
<1>2. ASSUME NEW a \in Attempts, Provider(a)
      PROVE  IInv'
  BY <1>2, ProviderInv
<1>3. ASSUME NEW a \in Attempts, NEW verdict \in {"CONFIRMED", "FAILED"},
             Query(a, verdict)
      PROVE  IInv'
  BY <1>3, QueryInv
<1>4. CASE UNCHANGED vars
  <2>1. UNCHANGED <<attempt, request>>
    BY <1>4 DEF vars
  <2>2. TypeOK' /\ PaysOnce'
    BY <2>1 DEF IInv, TypeOK, PaysOnce, Of, Paid, Keyed
  <2>3. ASSUME NEW a \in Attempts
        PROVE  PostedOnce(a)' /\ ResultTrue(a)' /\ VerdictKnown(a)'
    BY <2>1 DEF IInv, PostedOnce, ResultTrue, VerdictKnown, Settled, Says,
                Routed, State, Intent, Pack, PaymentRef, Keyed, Paid
  <2>4. QED
    BY <2>2, <2>3 DEF IInv
<1>5. QED
  BY <1>1, <1>2, <1>3, <1>4 DEF Next

(* Every reachable state of the initiations satisfies IInv.                *)
THEOREM InductiveInvariant == Spec => []IInv
  BY InitInv, NextInv, PTL DEF Spec

(* Attempts and requests keep their type.                                  *)
THEOREM TypeCorrect == Spec => []TypeOK
<1>1. IInv => TypeOK
  BY DEF IInv
<1>2. QED
  BY <1>1, InductiveInvariant, PTL

(* However outages change which rails are usable, all attempts of an       *)
(* intent that reach a provider reach the same one.                        *)
THEOREM OneProvider == Spec => []OneProviderPerIntent
<1>1. ASSUME IInv, NEW a \in Attempts, NEW b \in Attempts,
             attempt[a].intent = attempt[b].intent,
             request[a] # "unsent", request[b] # "unsent"
      PROVE  attempt[a].pack = attempt[b].pack
  <2>1. PostedOnce(a) /\ PostedOnce(b) /\ Routed(a) /\ Routed(b)
    BY <1>1, PaidIsRouted DEF IInv
  <2>2. QED
    BY <1>1, <2>1, SameIntent DEF Intent, Pack
<1>2. IInv => OneProviderPerIntent
  BY <1>1 DEF OneProviderPerIntent, Of
<1>3. QED
  BY <1>2, InductiveInvariant, PTL

(* A keyed intent is paid at most once, for any number of overlapping      *)
(* attempts, late POSTs and lost answers.                                  *)
THEOREM PaidOnce == Spec => []PaysOnce
<1>1. IInv => PaysOnce
  BY DEF IInv
<1>2. QED
  BY <1>1, InductiveInvariant, PTL

(* No POST is on its way behind a call that raised or returned FAILED, and *)
(* one that raised, or that MTN's connector failed, has paid nothing.      *)
THEOREM FailuresLeaveNothing == Spec => []FailuresAreOver
<1>1. ASSUME IInv, NEW a \in Attempts, State(a) = "raised"
      PROVE  request[a] = "unsent"
  BY <1>1 DEF IInv, PostedOnce
<1>2. ASSUME IInv, NEW a \in Attempts, State(a) = "FAILED"
      PROVE  \/ request[a] \in {"rejected", "duplicate"}
             \/ Pack(a) \notin MTN /\ Paid(a)
  BY <1>2 DEF IInv, ResultTrue
<1>3. IInv => FailuresAreOver
  BY <1>1, <1>2 DEF FailuresAreOver, Paid, State, Pack
<1>4. QED
  BY <1>3, InductiveInvariant, PTL

(* Whatever a keyed connector makes of an answer, lost, unreadable or      *)
(* without a reference, its result names the payment.                      *)
THEOREM ResultsReconcile == Spec => []Reconcilable
<1>1. ASSUME IInv, NEW a \in Attempts, Keyed(a),
             attempt[a].state \in {"SUBMITTED", "PENDING", "FAILED"}
      PROVE  attempt[a].ref = PaymentRef(a)
  <2>1. ResultTrue(a)
    BY <1>1 DEF IInv
  <2>2. QED
    BY <1>1, <2>1 DEF ResultTrue, State, Intent, PaymentRef
<1>2. IInv => Reconcilable
  BY <1>1 DEF Reconcilable
<1>3. QED
  BY <1>2, InductiveInvariant, PTL

(* The payment that a verdict is about is the attempt's intent's.          *)
LEMMA VerdictIsOfIntent ==
  ASSUME IInv, NEW a \in Attempts, NEW b \in Attempts,
         State(a) \in {"SUBMITTED", "PENDING"},
         Settled(a, b, attempt[a].verdict)
  PROVE  Intent(b) = Intent(a) /\ (Keyed(a) => Keyed(b))
<1>1. PostedOnce(a) /\ ResultTrue(a) /\ PostedOnce(b) /\ TypeOK
  BY DEF IInv
<1>2. /\ Pack(b) = Pack(a) /\ PaymentRef(b) = attempt[a].ref
      /\ request[b] # "unsent"
  BY DEF Settled, Paid
<1>3. Intent(a) \in Intents /\ Intent(b) \in Intents
  BY <1>1, <1>2, PaidIsRouted DEF PostedOnce, Routed
<1>4. Keyed(a) <=> Keyed(b)
  BY <1>2 DEF Keyed, Pack
<1>5. attempt[a].ref \in {Intent(a), PaymentRef(a)}
  BY <1>1 DEF ResultTrue
<1>6. CASE Keyed(a)
  BY <1>2, <1>4, <1>5, <1>6 DEF PaymentRef, Intent
<1>7. CASE ~Keyed(a)
  BY <1>2, <1>3, <1>4, <1>5, <1>7, SubmissionAssumption DEF PaymentRef, Intent
<1>8. QED
  BY <1>4, <1>6, <1>7

(* A verdict is the truth about its intent, and no retry that is still     *)
(* under way makes it false.                                               *)
THEOREM VerdictsAreFinal == Spec => []VerdictsStand
<1>1. ASSUME IInv, NEW a \in Attempts, attempt[a].verdict # Nil
      PROVE  \E b \in Attempts : /\ Intent(b) = Intent(a) /\ Paid(b)
                                 /\ Says(b, attempt[a].verdict)
                                 /\ Keyed(a) => Keyed(b)
  <2>1. /\ State(a) \in {"SUBMITTED", "PENDING"}
        /\ \E b \in Attempts : Settled(a, b, attempt[a].verdict)
    BY <1>1 DEF IInv, VerdictKnown
  <2>2. QED
    BY <1>1, <2>1, VerdictIsOfIntent DEF Settled
<1>2. ASSUME IInv, NEW a \in Attempts, attempt[a].verdict = "CONFIRMED"
      PROVE  Truth(attempt[a].intent) = "success"
  <2>1. PICK b \in Attempts : Intent(b) = Intent(a) /\ Paid(b) /\ request[b] = "success"
    BY <1>1, <1>2, SubmissionAssumption DEF Says
  <2>2. b \in {c \in Of(attempt[a].intent) : Paid(c)}
    BY <2>1 DEF Of, Intent
  <2>3. QED
    BY <2>1, <2>2 DEF Truth
<1>3. ASSUME IInv, NEW a \in Attempts, attempt[a].verdict = "FAILED", Keyed(a)
      PROVE  Truth(attempt[a].intent) = "failed"
  <2>1. PICK b \in Attempts : /\ Intent(b) = Intent(a) /\ Paid(b)
                              /\ request[b] = "failed" /\ Keyed(b)
    BY <1>1, <1>3, SubmissionAssumption DEF Says
  <2>2. Intent(a) \in Intents /\ PaysOnce
    BY <1>3, <2>1, PaidIsRouted DEF IInv, Paid
  <2>3. ASSUME NEW c \in Of(attempt[a].intent), Paid(c)
        PROVE  c = b
    <3>1. b \in Of(Intent(a)) /\ c \in Of(Intent(a))
      BY <2>1, <2>3 DEF Of, Intent
    <3>2. QED
      BY <2>1, <2>2, <2>3, <3>1 DEF PaysOnce
  <2>4. {c \in Of(attempt[a].intent) : Paid(c)} = {b}
    BY <2>1, <2>3 DEF Of, Intent
  <2>5. QED
    BY <2>1, <2>4 DEF Truth
<1>4. IInv => VerdictsStand
  BY <1>2, <1>3 DEF VerdictsStand
<1>5. QED
  BY <1>4, InductiveInvariant, PTL
=============================================================================
