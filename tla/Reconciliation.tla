---------------------------- MODULE Reconciliation ----------------------------
(***************************************************************************)
(* The payment ledger and everyone who writes to it: the application that  *)
(* prepares and submits a payment, the webhook handler that ingests        *)
(* provider callbacks, the outbox workers that lease reconciliation jobs   *)
(* and poll the provider head-end, and other callers of                    *)
(* PaymentReconciler.reconcile (the SUBMITTED sweeper of docs/webhooks.md, *)
(* which shares the method with the workers but holds no job).             *)
(*                                                                         *)
(* A repository method is one database transaction and so one action.      *)
(* Everything a worker remembers between two of them (its batch, the       *)
(* transaction row it read, the provider's answer) is state of its own     *)
(* that may be stale when used.  Each call may also fail, before or after  *)
(* its transaction commits, and a worker may crash between any two.        *)
(*                                                                         *)
(* An operator named Op_Bug, before Op, is Op with a bug somebody might    *)
(* write; a property is of use if the module with Op_Bug violates it.      *)
(***************************************************************************)
EXTENDS Naturals, FiniteSets

CONSTANTS
  Txns,         \* payment transactions
  EventIds,     \* (provider, event_id) pairs: the webhook deduplication key
  Deliveries,   \* distinct callback bodies: (event id, reference, sha256)
  EventOf,      \* the event id a delivery carries
  TxnOf,        \* the transaction whose provider_reference it carries
  Workers,      \* worker_id values, each running run_once over and over
  Pollers,      \* other callers of PaymentReconciler.reconcile
  Limit,        \* claim_reconciliation_jobs(limit)
  MaxAttempts,  \* payment_reconciliation_outbox.max_attempts
  Nil           \* NULL

ASSUME ConstantsAssumption ==
  /\ EventOf \in [Deliveries -> EventIds]
  /\ TxnOf \in [Deliveries -> Txns]
  /\ Workers \cap Pollers = {}
  /\ MaxAttempts \in Nat \ {0}
  /\ Limit \in Nat \ {0}
  /\ Nil \notin Txns \cup EventIds \cup Deliveries \cup Workers

VARIABLES
  status,      \* payment_transactions.status
  referenced,  \* transactions whose provider_reference is recorded
  headEnd,     \* the provider's own record of each payment
  stored,      \* payment_webhook_events: the delivery kept for an event id
  job,         \* payment_reconciliation_outbox, by its unique webhook event
  pc,          \* where each worker and poller is
  batch,       \* leased jobs a worker has not reached yet
  frame        \* the locals of its current iteration or reconcile call

ledgerVars == <<status, referenced, headEnd, stored>>
procVars == <<pc, batch, frame>>
vars == <<status, referenced, headEnd, stored, job, pc, batch, frame>>

Fsm == INSTANCE PaymentFsm

Procs == Workers \cup Pollers
Open == {"SUBMITTED", "CALLBACK_RECEIVED"}
JobStates == {"NONE", "PENDING", "PROCESSING", "COMPLETED", "DEAD"}

(* expired: locked_at is more than lease_seconds ago; available:           *)
(* available_at has passed.                                                *)
Job == [state     : JobStates,
        attempts  : 0..MaxAttempts,
        owner     : Workers \cup {Nil},
        expired   : BOOLEAN,
        available : BOOLEAN]

NoJob == [state |-> "NONE", attempts |-> 0, owner |-> Nil,
          expired |-> FALSE, available |-> FALSE]

NewJob == [state |-> "PENDING", attempts |-> 0, owner |-> Nil,
           expired |-> FALSE, available |-> TRUE]

(* job: the leased job; txn, seen: the transaction row as it was read;     *)
(* answer: the final status the provider's answer calls for.  When         *)
(* reconcile has returned, seen is what it returned.                       *)
Frame == [job    : EventIds \cup {Nil},
          txn    : Txns \cup {Nil},
          seen   : Fsm!Status \cup {Nil},
          answer : Fsm!Final \cup {Nil}]

NoFrame == [job |-> Nil, txn |-> Nil, seen |-> Nil, answer |-> Nil]

TypeOK ==
  /\ status \in [Txns -> Fsm!Status]
  /\ referenced \in SUBSET Txns
  /\ headEnd \in [Txns -> Fsm!HeadEnd]
  /\ stored \in [EventIds -> Deliveries \cup {Nil}]
  /\ job \in [EventIds -> Job]
  /\ pc \in [Procs -> {"idle", "loop", "query", "transition", "settle",
                       "except"}]
  /\ batch \in [Workers -> SUBSET EventIds]
  /\ frame \in [Procs -> Frame]

Init ==
  /\ Fsm!Init
  /\ referenced = {}
  /\ stored = [e \in EventIds |-> Nil]
  /\ job = [e \in EventIds |-> NoJob]
  /\ pc = [p \in Procs |-> "idle"]
  /\ batch = [w \in Workers |-> {}]
  /\ frame = [p \in Procs |-> NoFrame]

-----------------------------------------------------------------------------
(* PostgresPaymentRepository.transition: under the row lock the update     *)
(* happens only if the status is still the one the caller started from.    *)
CanTransition_AnyRow(t, from, to) == to \in Fsm!ALLOWED_TRANSITIONS[from]

CanTransition(t, from, to) ==
  status[t] = from /\ to \in Fsm!ALLOWED_TRANSITIONS[from]

SetStatus(t, to) == status' = [status EXCEPT ![t] = to]

-----------------------------------------------------------------------------
(* The application drives a payment up to SUBMITTED through transition;    *)
(* the provider accepts or refuses the initiation and later settles it.    *)

RequestApproval(t) ==
  /\ CanTransition(t, "DRAFT", "PENDING_APPROVAL")
  /\ SetStatus(t, "PENDING_APPROVAL")
  /\ UNCHANGED <<referenced, headEnd, stored, job, procVars>>

(* Abandoned before initiation, or the provider refused the initiation.    *)
Abandon(t) ==
  /\ headEnd[t] \in {"none", "rejected"}
  /\ \E from \in {"DRAFT", "PENDING_APPROVAL"} :
       CanTransition(t, from, "FAILED")
  /\ SetStatus(t, "FAILED")
  /\ UNCHANGED <<referenced, headEnd, stored, job, procVars>>

(* initiate_payment returned SUBMITTED or an uncertain outcome: the        *)
(* reference is recorded although the provider may not have the payment.   *)
RecordSubmission(t) ==
  /\ headEnd[t] # "rejected"
  /\ CanTransition(t, "PENDING_APPROVAL", "SUBMITTED")
  /\ SetStatus(t, "SUBMITTED")
  /\ referenced' = referenced \cup {t}
  /\ UNCHANGED <<headEnd, stored, job, procVars>>

(* An initiation whose answer was lost may reach the provider late.        *)
ProviderDecides(t, verdict) ==
  /\ \/ headEnd[t] = "none" /\ verdict = "pending"
        /\ status[t] \in {"PENDING_APPROVAL", "SUBMITTED"}
     \/ headEnd[t] = "none" /\ verdict = "rejected"
        /\ status[t] = "PENDING_APPROVAL"
     \/ headEnd[t] = "pending" /\ verdict \in {"success", "failed"}
  /\ headEnd' = [headEnd EXCEPT ![t] = verdict]
  /\ UNCHANGED <<status, referenced, stored, job, procVars>>

-----------------------------------------------------------------------------
(* ingest_webhook: keep the event unless its id is known, refuse another   *)
(* body under a known id, and for a recorded reference move SUBMITTED to   *)
(* CALLBACK_RECEIVED and enqueue one job per event.  The provider may      *)
(* deliver at any time after it has the payment, repeatedly, out of order. *)
SameIdentity_Any(e, d) == TRUE

SameIdentity(e, d) == stored[e] \in {Nil, d}

Hinted_Final(t) == t \in referenced

Hinted(t) == t \in referenced /\ status[t] \in Open

Enqueue_FirstSeen(e) ==
  IF job[e].state = "NONE" /\ stored[e] = Nil
  THEN [job EXCEPT ![e] = NewJob]
  ELSE job

Enqueue(e) ==
  IF job[e].state = "NONE"
  THEN [job EXCEPT ![e] = NewJob]
  ELSE job

Ingested(d) ==
  LET e == EventOf[d]
      t == TxnOf[d]
  IN  /\ SameIdentity(e, d)
      /\ stored' = [stored EXCEPT ![e] = IF @ = Nil THEN d ELSE @]
      /\ IF Hinted(t)
         THEN /\ SetStatus(t, "CALLBACK_RECEIVED")
              /\ job' = Enqueue(e)
         ELSE UNCHANGED <<status, job>>
      /\ UNCHANGED referenced

IngestWebhook(d) ==
  /\ headEnd[TxnOf[d]] \notin {"none", "rejected"}
  /\ Ingested(d)
  /\ UNCHANGED <<headEnd, procVars>>

-----------------------------------------------------------------------------
(* claim_reconciliation_jobs *)
Exhausted_Pending(e) ==
  job[e].attempts >= MaxAttempts /\ job[e].state = "PENDING"

Exhausted(e) ==
  /\ job[e].attempts >= MaxAttempts
  /\ \/ job[e].state = "PENDING"
     \/ job[e].state = "PROCESSING" /\ job[e].expired

Due(e) ==
  /\ job[e].attempts < MaxAttempts
  /\ \/ job[e].state = "PENDING" /\ job[e].available
     \/ job[e].state = "PROCESSING" /\ job[e].expired

Buried_Failed(e) ==
  [job[e] EXCEPT !.state = "FAILED", !.owner = Nil, !.expired = FALSE]

Buried(e) == [job[e] EXCEPT !.state = "DEAD", !.owner = Nil, !.expired = FALSE]

Leased_Free(e, w) ==
  [job[e] EXCEPT !.state = "PROCESSING", !.owner = w, !.expired = FALSE]

Leased(e, w) ==
  [job[e] EXCEPT !.state = "PROCESSING", !.attempts = @ + 1,
                 !.owner = w, !.expired = FALSE]

(* SKIP LOCKED lets a claim pass over jobs another claim has locked, so    *)
(* any small enough set of due jobs may be returned.                       *)
Claimed(w, buried, claimed) ==
  /\ \A e \in buried : Exhausted(e)
  /\ \A e \in claimed : Due(e)
  /\ Cardinality(claimed) <= Limit
  /\ job' = [e \in EventIds |-> IF e \in buried THEN Buried(e)
                                ELSE IF e \in claimed THEN Leased(e, w)
                                ELSE job[e]]

Claim(w, claimed) ==
  /\ pc[w] = "idle"
  /\ Claimed(w, {e \in EventIds : Exhausted(e)}, claimed)
  /\ job' # job
  /\ batch' = [batch EXCEPT ![w] = claimed]
  /\ pc' = [pc EXCEPT ![w] = IF claimed = {} THEN "idle" ELSE "loop"]
  /\ UNCHANGED <<ledgerVars, frame>>

(* The repository guards both ways of ending a lease with                  *)
(* status = 'PROCESSING' AND locked_by = worker_id.                        *)
Owns_Anyone(w, e) == job[e].state = "PROCESSING"

Owns(w, e) == job[e].state = "PROCESSING" /\ job[e].owner = w

Completed(e) ==
  [job[e] EXCEPT !.state = "COMPLETED", !.owner = Nil, !.expired = FALSE]

Rescheduled(e) ==
  [job[e] EXCEPT !.state = IF job[e].attempts >= MaxAttempts THEN "DEAD"
                           ELSE "PENDING",
                 !.owner = Nil, !.expired = FALSE, !.available = FALSE]

EndLease(w, e, outcome) ==
  job' = IF Owns(w, e) THEN [job EXCEPT ![e] = outcome] ELSE job

-----------------------------------------------------------------------------
(* reconcile up to its first await: a transaction that is not open is      *)
(* returned with the status it was read with.                              *)
Begin(p, e, t) ==
  /\ frame' = [frame EXCEPT ![p] = [job |-> e, txn |-> t,
                                    seen |-> status[t], answer |-> Nil]]
  /\ pc' = [pc EXCEPT ![p] = IF status[t] \in Open THEN "query"
                             ELSE "settle"]

(* What becomes of the caller when reconcile returns st, or raises: a      *)
(* worker settles the job or enters its except clause, a poller is done.   *)
Return(p, st) ==
  IF p \in Workers
  THEN /\ pc' = [pc EXCEPT ![p] = "settle"]
       /\ frame' = [frame EXCEPT ![p].seen = st, ![p].answer = Nil]
  ELSE /\ pc' = [pc EXCEPT ![p] = "idle"]
       /\ frame' = [frame EXCEPT ![p] = NoFrame]

Raise(p) ==
  /\ pc' = [pc EXCEPT ![p] = IF p \in Workers THEN "except" ELSE "idle"]
  /\ frame' = [frame EXCEPT ![p] = [NoFrame EXCEPT !.job = frame[p].job]]

(* The head of run_once's loop: get_by_provider_reference, then reconcile. *)
NextJob(w, e) ==
  /\ pc[w] = "loop" /\ e \in batch[w]
  /\ batch' = [batch EXCEPT ![w] = @ \ {e}]
  /\ Begin(w, e, TxnOf[stored[e]])
  /\ UNCHANGED <<ledgerVars, job>>

NextJobFails(w, e) ==
  /\ pc[w] = "loop" /\ e \in batch[w]
  /\ batch' = [batch EXCEPT ![w] = @ \ {e}]
  /\ pc' = [pc EXCEPT ![w] = "except"]
  /\ frame' = [frame EXCEPT ![w] = [NoFrame EXCEPT !.job = e]]
  /\ UNCHANGED <<ledgerVars, job>>

(* Another caller of reconcile starts from a row it has read.              *)
StartPoll(p, t) ==
  /\ p \in Pollers /\ pc[p] = "idle"
  /\ t \in referenced /\ status[t] \in Open
  /\ Begin(p, Nil, t)
  /\ UNCHANGED <<ledgerVars, job, batch>>

(* A final answer is believed; every other status, and an outage reported  *)
(* as an uncertain result, leaves the payment open.                        *)
HeadEndSays_NotSuccess(t, verdict) ==
  \/ verdict = "CONFIRMED" /\ headEnd[t] = "success"
  \/ verdict = "FAILED" /\ headEnd[t] # "success"

HeadEndSays(t, verdict) ==
  \/ verdict = "CONFIRMED" /\ headEnd[t] = "success"
  \/ verdict = "FAILED" /\ headEnd[t] = "failed"

QueryFinal(p, verdict) ==
  /\ pc[p] = "query"
  /\ HeadEndSays(frame[p].txn, verdict)
  /\ frame' = [frame EXCEPT ![p].answer = verdict]
  /\ pc' = [pc EXCEPT ![p] = "transition"]
  /\ UNCHANGED <<ledgerVars, job, batch>>

QueryUncertain(p) ==
  /\ pc[p] = "query"
  /\ Return(p, frame[p].seen)
  /\ UNCHANGED <<ledgerVars, job, batch>>

QueryRaises(p) ==
  /\ pc[p] = "query"
  /\ Raise(p)
  /\ UNCHANGED <<ledgerVars, job, batch>>

(* The transition starts from the status read before the query; if a       *)
(* callback or another caller moved the row in between, it is dropped and  *)
(* reconcile returns the status it had read.                               *)
Changes(p) == CanTransition(frame[p].txn, frame[p].seen, frame[p].answer)

Finalize(p) ==
  /\ pc[p] = "transition"
  /\ IF Changes(p)
     THEN /\ SetStatus(frame[p].txn, frame[p].answer)
          /\ Return(p, frame[p].answer)
     ELSE /\ UNCHANGED status
          /\ Return(p, frame[p].seen)
  /\ UNCHANGED <<referenced, headEnd, stored, job, batch>>

FinalizeFails(p, committed) ==
  /\ pc[p] = "transition"
  /\ IF committed /\ Changes(p)
     THEN SetStatus(frame[p].txn, frame[p].answer)
     ELSE UNCHANGED status
  /\ Raise(p)
  /\ UNCHANGED <<referenced, headEnd, stored, job, batch>>

-----------------------------------------------------------------------------
(* The rest of the loop body.  An exception from the call that ends the    *)
(* lease is caught and ends it again; one from that second call leaves     *)
(* run_once and drops the rest of the batch.                               *)
Continue(w, rest) ==
  /\ batch' = [batch EXCEPT ![w] = rest]
  /\ pc' = [pc EXCEPT ![w] = IF rest = {} THEN "idle" ELSE "loop"]
  /\ frame' = [frame EXCEPT ![w] = NoFrame]

EndByStatus_Returned(w) ==
  EndLease(w, frame[w].job, Completed(frame[w].job))

EndByStatus(w) ==
  LET e == frame[w].job
  IN  EndLease(w, e, IF frame[w].seen \in Fsm!Final THEN Completed(e)
                     ELSE Rescheduled(e))

EndByError(w) == EndLease(w, frame[w].job, Rescheduled(frame[w].job))

Settle(w) ==
  /\ pc[w] = "settle"
  /\ EndByStatus(w)
  /\ Continue(w, batch[w])
  /\ UNCHANGED ledgerVars

SettleFails(w, committed) ==
  /\ pc[w] = "settle"
  /\ IF committed THEN EndByStatus(w) ELSE UNCHANGED job
  /\ Raise(w)
  /\ UNCHANGED <<ledgerVars, batch>>

Recover(w) ==
  /\ pc[w] = "except"
  /\ EndByError(w)
  /\ Continue(w, batch[w])
  /\ UNCHANGED ledgerVars

RecoverFails(w, committed) ==
  /\ pc[w] = "except"
  /\ IF committed THEN EndByError(w) ELSE UNCHANGED job
  /\ Continue(w, {})
  /\ UNCHANGED ledgerVars

Crash(p) ==
  /\ pc[p] # "idle"
  /\ pc' = [pc EXCEPT ![p] = "idle"]
  /\ batch' = [w \in Workers |-> IF w = p THEN {} ELSE batch[w]]
  /\ frame' = [frame EXCEPT ![p] = NoFrame]
  /\ UNCHANGED <<ledgerVars, job>>

-----------------------------------------------------------------------------
(* Time passes: a lease outlives lease_seconds, a backoff its delay.       *)
LeaseExpires(e) ==
  /\ job[e].state = "PROCESSING" /\ ~job[e].expired
  /\ job' = [job EXCEPT ![e].expired = TRUE]
  /\ UNCHANGED <<ledgerVars, procVars>>

BackoffElapses(e) ==
  /\ job[e].state = "PENDING" /\ ~job[e].available
  /\ job' = [job EXCEPT ![e].available = TRUE]
  /\ UNCHANGED <<ledgerVars, procVars>>

-----------------------------------------------------------------------------
Application(t) == RequestApproval(t) \/ Abandon(t) \/ RecordSubmission(t)

Reconcile(p) ==
  \/ \E verdict \in Fsm!Final : QueryFinal(p, verdict)
  \/ QueryUncertain(p)
  \/ QueryRaises(p)
  \/ Finalize(p)
  \/ \E committed \in BOOLEAN : FinalizeFails(p, committed)

RunOnce(w) ==
  \/ \E claimed \in SUBSET EventIds : Claim(w, claimed)
  \/ \E e \in EventIds : NextJob(w, e) \/ NextJobFails(w, e)
  \/ Reconcile(w)
  \/ Settle(w) \/ Recover(w)
  \/ \E committed \in BOOLEAN :
       SettleFails(w, committed) \/ RecoverFails(w, committed)

Next ==
  \/ \E t \in Txns : Application(t)
  \/ \E t \in Txns, verdict \in Fsm!HeadEnd : ProviderDecides(t, verdict)
  \/ \E d \in Deliveries : IngestWebhook(d)
  \/ \E w \in Workers : RunOnce(w)
  \/ \E p \in Pollers : Reconcile(p) \/ \E t \in Txns : StartPoll(p, t)
  \/ \E p \in Procs : Crash(p)
  \/ \E e \in EventIds : LeaseExpires(e) \/ BackoffElapses(e)

Spec == Init /\ [][Next]_vars

(* A worker's loop keeps calling run_once and finishes the calls it makes; *)
(* the clock runs.  Nothing is assumed of the provider, the application,   *)
(* the callbacks or the pollers, and calls may fail or crash every time.   *)
Fairness ==
  /\ \A w \in Workers : WF_vars(RunOnce(w))
  /\ \A e \in EventIds : WF_vars(LeaseExpires(e)) /\ WF_vars(BackoffElapses(e))

FairSpec == Spec /\ Fairness

-----------------------------------------------------------------------------
(* Finality comes from the head-end alone, whatever callbacks, retries,    *)
(* stale reads and half-failed calls happened on the way                   *)
(* (payment_lifecycle.py:3, "Only a provider head-end query may transition *)
(* a transaction to a final financial state"): a CONFIRMED payment         *)
(* succeeded at the provider, and one FAILED after submission failed there.*)
FinalityFromHeadEnd ==
  \A t \in Txns :
    /\ status[t] = "CONFIRMED" => headEnd[t] = "success"
    /\ status[t] = "FAILED" /\ t \in referenced => headEnd[t] = "failed"
    /\ status[t] = "FAILED" /\ t \notin referenced =>
         headEnd[t] \in {"none", "rejected"}

(* The final transition and the completion of the job are two              *)
(* transactions, possibly of two workers: a job is closed as COMPLETED     *)
(* only when its payment has reached a final status.                       *)
CompletedImpliesFinal ==
  \A e \in EventIds :
    job[e].state = "COMPLETED" => status[TxnOf[stored[e]]] \in Fsm!Final

(* ingest_webhook is atomic and repairs on redelivery: a payment in        *)
(* CALLBACK_RECEIVED always has a job that is still open, or one that used *)
(* up its attempts and is DEAD; it is never left without any.              *)
CallbackTracked ==
  \A t \in Txns :
    status[t] = "CALLBACK_RECEIVED" =>
      \E e \in EventIds :
        /\ stored[e] \in Deliveries /\ TxnOf[stored[e]] = t
        /\ job[e].state \in {"PENDING", "PROCESSING", "DEAD"}

Held(e) == job[e].state = "PROCESSING" /\ ~job[e].expired

(* A lease that has not expired is ended by the worker that holds it, and  *)
(* by no one else: not by the sweep for exhausted jobs of another claim,   *)
(* nor by a slow worker that lost the same job to it.                      *)
LeaseRespected ==
  [][\A e \in EventIds :
       Held(e) /\ job'[e].owner # job[e].owner =>
           /\ pc[job[e].owner] \in {"settle", "except"}
           /\ frame[job[e].owner].job = e
           /\ pc'[job[e].owner] # pc[job[e].owner]]_vars

(* Retries are bounded: every lease of a job costs one of its attempts, so *)
(* it is leased at most max_attempts times over all workers and restarts,  *)
(* and a job that is COMPLETED or DEAD is never leased again.              *)
LeasesBounded ==
  [][\A e \in EventIds :
       /\ Held(e)' /\ ~Held(e) =>
            /\ job'[e].attempts = job[e].attempts + 1
            /\ job'[e].attempts <= MaxAttempts
       /\ job[e].state \in {"COMPLETED", "DEAD"} => job'[e] = job[e]]_vars

(* The ledger implements the payment FSM: no step of any actor moves a     *)
(* status off ALLOWED_TRANSITIONS, reopens a final payment, or finalises   *)
(* one against the head-end.                                               *)
LedgerImplementsFsm == Fsm!Spec

(* "must not remain permanently claimable or stranded in PROCESSING"       *)
(* (payment_lifecycle.py:256): with workers that keep calling run_once,    *)
(* every job is COMPLETED or DEAD in the end, even if every call fails and *)
(* every worker keeps crashing.                                            *)
JobsResolve ==
  \A e \in EventIds :
    job[e].state # "NONE" ~> job[e].state \in {"COMPLETED", "DEAD"}

(* docs/webhooks.md:52, "unmatched sanitized evidence is retained for      *)
(* delayed matching": a callback kept before its reference was recorded is *)
(* matched once the reference is there.                                    *)
OrphansAreMatched ==
  \A e \in EventIds, t \in Txns :
    stored[e] \in Deliveries /\ TxnOf[stored[e]] = t /\ t \in referenced
      ~> status[t] # "SUBMITTED"
=============================================================================
