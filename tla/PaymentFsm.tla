------------------------------ MODULE PaymentFsm ------------------------------
(***************************************************************************)
(* What the payment ledger promises, without the callbacks, the outbox and *)
(* the workers that keep the promise: the status of a transaction moves    *)
(* only along ALLOWED_TRANSITIONS, and only to a final status the provider *)
(* head-end supports.                                                      *)
(***************************************************************************)
CONSTANT Txns

VARIABLES
  status,    \* payment_transactions.status of each transaction
  headEnd    \* what the provider itself would say of each payment

Status == {"DRAFT", "PENDING_APPROVAL", "SUBMITTED", "CALLBACK_RECEIVED",
           "CONFIRMED", "FAILED"}

Final == {"CONFIRMED", "FAILED"}

ALLOWED_TRANSITIONS ==
  [DRAFT             |-> {"PENDING_APPROVAL", "FAILED"},
   PENDING_APPROVAL  |-> {"SUBMITTED", "FAILED"},
   SUBMITTED         |-> {"CALLBACK_RECEIVED", "CONFIRMED", "FAILED"},
   CALLBACK_RECEIVED |-> {"CONFIRMED", "FAILED"},
   CONFIRMED         |-> {},
   FAILED            |-> {}]

(* none: the provider has not seen the payment; rejected: it refused the   *)
(* initiation; pending, success, failed: it accepted it and this is where  *)
(* the payment stands.                                                     *)
HeadEnd == {"none", "rejected", "pending", "success", "failed"}

Moves ==
  [none     |-> {"rejected", "pending"},
   rejected |-> {},
   pending  |-> {"success", "failed"},
   success  |-> {},
   failed   |-> {}]

(* The final statuses that agree with the head-end.  A payment the         *)
(* provider never saw may be failed only before it is submitted.           *)
Supports(st, truth) ==
  \/ st = "CONFIRMED" /\ truth = "success"
  \/ st = "FAILED" /\ truth \in {"failed", "rejected", "none"}

TypeOK ==
  /\ status \in [Txns -> Status]
  /\ headEnd \in [Txns -> HeadEnd]

Init ==
  /\ status = [t \in Txns |-> "DRAFT"]
  /\ headEnd = [t \in Txns |-> "none"]

Advance(t, to) ==
  /\ to \in ALLOWED_TRANSITIONS[status[t]]
  /\ to \in Final => Supports(to, headEnd[t])
  /\ headEnd[t] = "none" /\ to = "FAILED" =>
       status[t] \in {"DRAFT", "PENDING_APPROVAL"}
  /\ status' = [status EXCEPT ![t] = to]
  /\ UNCHANGED headEnd

HeadEndMoves(t, to) ==
  /\ to \in Moves[headEnd[t]]
  /\ status[t] \notin Final
  /\ headEnd' = [headEnd EXCEPT ![t] = to]
  /\ UNCHANGED status

Next ==
  \E t \in Txns :
    \/ \E to \in Status : Advance(t, to)
    \/ \E to \in HeadEnd : HeadEndMoves(t, to)

Spec == Init /\ [][Next]_<<status, headEnd>>
=============================================================================
