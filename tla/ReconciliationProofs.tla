------------------------ MODULE ReconciliationProofs ------------------------
(***************************************************************************)
(* Theorems of Reconciliation, for every set of transactions, events,      *)
(* deliveries, workers and pollers and every bound.                        *)
(***************************************************************************)
EXTENDS Reconciliation, TLAPS

(* A reference is recorded by the submission and never lost.               *)
ReferenceInv ==
  \A t \in Txns :
    /\ status[t] \in Open \cup {"CONFIRMED"} => t \in referenced
    /\ t \in referenced => status[t] \notin {"DRAFT", "PENDING_APPROVAL"}

(* A job belongs to a stored event whose reference is recorded.            *)
JobInv ==
  \A e \in EventIds :
    job[e].state # "NONE" =>
      stored[e] \in Deliveries /\ TxnOf[stored[e]] \in referenced

(* What a process may still rely on of what it read: the status it starts  *)
(* a transition from was open, the answer it holds is the head-end's last  *)
(* word, and a final status reconcile returned is the payment's.           *)
ReadInv ==
  \A p \in Procs :
    /\ pc[p] \in {"query", "transition", "settle"} =>
         frame[p].txn \in referenced /\ frame[p].seen \in Fsm!Status
    /\ pc[p] \in {"query", "transition"} => frame[p].seen \in Open
    /\ pc[p] = "transition" =>
         frame[p].answer \in Fsm!Final
           /\ HeadEndSays(frame[p].txn, frame[p].answer)
    /\ pc[p] = "settle" /\ frame[p].seen \in Fsm!Final =>
         status[frame[p].txn] = frame[p].seen

(* A worker holds only jobs that exist, and reconciles their payment.      *)
WorkerInv ==
  /\ \A w \in Workers :
       /\ \A e \in batch[w] : job[e].state # "NONE"
       /\ pc[w] \in {"query", "transition", "settle", "except"} =>
            frame[w].job \in EventIds /\ job[frame[w].job].state # "NONE"
       /\ pc[w] \in {"query", "transition", "settle"} =>
            frame[w].txn = TxnOf[stored[frame[w].job]]
  /\ \A p \in Pollers : pc[p] \in {"idle", "query", "transition"}

IInv ==
  /\ TypeOK
  /\ ReferenceInv
  /\ JobInv
  /\ ReadInv
  /\ WorkerInv
  /\ FinalityFromHeadEnd
  /\ CompletedImpliesFinal
  /\ CallbackTracked

-----------------------------------------------------------------------------
USE DEF Fsm!Status, Fsm!Final, Fsm!HeadEnd, Procs, Open

LEMMA InitInv == Init => IInv
<1> SUFFICES ASSUME Init PROVE IInv
  OBVIOUS
<1>1. TypeOK
  BY ConstantsAssumption
  DEF Init, Fsm!Init, TypeOK, Job, NoJob, Frame, NoFrame, JobStates
<1>2. ReferenceInv /\ FinalityFromHeadEnd /\ CallbackTracked
  BY DEF Init, Fsm!Init, ReferenceInv, FinalityFromHeadEnd, CallbackTracked
<1>3. JobInv /\ CompletedImpliesFinal
  BY DEF Init, NoJob, JobInv, CompletedImpliesFinal
<1>4. ReadInv /\ WorkerInv
  BY DEF Init, ReadInv, WorkerInv
<1>5. QED
  BY <1>1, <1>2, <1>3, <1>4 DEF IInv

(* The application and the provider move only the ledger row and the       *)
(* head-end of one payment that no process can be reconciling towards a    *)
(* different outcome.                                                      *)
LEMMA ApplicationInv ==
  ASSUME IInv, NEW t \in Txns, Application(t)
  PROVE  IInv'
<1>1. /\ status[t] \in {"DRAFT", "PENDING_APPROVAL"}
      /\ \/ status' = [status EXCEPT ![t] = "PENDING_APPROVAL"]
            /\ referenced' = referenced
         \/ status' = [status EXCEPT ![t] = "SUBMITTED"]
            /\ referenced' = referenced \cup {t}
         \/ status' = [status EXCEPT ![t] = "FAILED"]
            /\ referenced' = referenced /\ headEnd[t] \in {"none", "rejected"}
      /\ UNCHANGED <<headEnd, stored, job, pc, batch, frame>>
  BY DEF Application, RequestApproval, Abandon, RecordSubmission, SetStatus,
         CanTransition, procVars
<1>2. TypeOK'
  BY <1>1 DEF IInv, TypeOK
<1>3. t \notin referenced
  BY <1>1 DEF IInv, ReferenceInv
<1>4. ReferenceInv' /\ FinalityFromHeadEnd'
  BY <1>1, <1>3 DEF IInv, TypeOK, ReferenceInv, FinalityFromHeadEnd
<1>5. JobInv'
  BY <1>1 DEF IInv, JobInv
<1>6. ReadInv'
  BY <1>1, <1>3 DEF IInv, TypeOK, ReadInv, HeadEndSays
<1>7. WorkerInv'
  BY <1>1 DEF IInv, WorkerInv
<1>8. CompletedImpliesFinal' /\ CallbackTracked'
  BY <1>1, <1>3, ConstantsAssumption
  DEF IInv, TypeOK, JobInv, CompletedImpliesFinal, CallbackTracked
<1>9. QED
  BY <1>2, <1>4, <1>5, <1>6, <1>7, <1>8 DEF IInv

LEMMA ProviderInv ==
  ASSUME IInv, NEW t \in Txns, NEW verdict \in Fsm!HeadEnd,
         ProviderDecides(t, verdict)
  PROVE  IInv'
<1>1. /\ headEnd' = [headEnd EXCEPT ![t] = verdict]
      /\ UNCHANGED <<status, referenced, stored, job, pc, batch, frame>>
      /\ headEnd[t] \in {"none", "pending"}
      /\ headEnd[t] = "none" =>
           status[t] \in {"PENDING_APPROVAL", "SUBMITTED"}
      /\ verdict = "rejected" => status[t] = "PENDING_APPROVAL"
  BY DEF ProviderDecides, procVars
<1>2. TypeOK'
  BY <1>1 DEF IInv, TypeOK
<1>3. FinalityFromHeadEnd'
  BY <1>1 DEF IInv, TypeOK, FinalityFromHeadEnd
<1>4. ReadInv'
  BY <1>1 DEF IInv, TypeOK, ReadInv, HeadEndSays
<1>5. ReferenceInv' /\ JobInv' /\ WorkerInv' /\ CompletedImpliesFinal'
        /\ CallbackTracked'
  BY <1>1 DEF IInv, ReferenceInv, JobInv, WorkerInv, CompletedImpliesFinal,
              CallbackTracked
<1>6. QED
  BY <1>2, <1>3, <1>4, <1>5 DEF IInv

LEMMA IngestInv ==
  ASSUME IInv, NEW d \in Deliveries, IngestWebhook(d)
  PROVE  IInv'
<1> DEFINE e == EventOf[d]
           t == TxnOf[d]
<1>1. e \in EventIds /\ t \in Txns /\ d # Nil
  BY ConstantsAssumption
<1>2. /\ stored' = [stored EXCEPT ![e] = d]
      /\ stored[e] \in {Nil, d}
      /\ UNCHANGED <<referenced, headEnd, pc, batch, frame>>
  BY <1>1 DEF IngestWebhook, Ingested, SameIdentity, procVars, IInv, TypeOK
<1>3. \/ /\ t \in referenced /\ status[t] \in Open
         /\ status' = [status EXCEPT ![t] = "CALLBACK_RECEIVED"]
         /\ job' = IF job[e].state = "NONE" THEN [job EXCEPT ![e] = NewJob]
                   ELSE job
      \/ UNCHANGED <<status, job>>
  BY DEF IngestWebhook, Ingested, Hinted, SetStatus, Enqueue
<1> HIDE DEF e, t
<1>4. NewJob \in Job /\ NewJob.state = "PENDING"
  BY ConstantsAssumption DEF NewJob, Job, JobStates
<1>5. TypeOK'
  <2>1. job' \in [EventIds -> Job]
    BY <1>1, <1>3, <1>4 DEF IInv, TypeOK
  <2>2. QED
    BY <1>1, <1>2, <1>3, <2>1 DEF IInv, TypeOK
<1>6. \A f \in EventIds : job[f].state # "NONE" =>
        stored'[f] = stored[f] /\ job'[f] = job[f]
  BY <1>1, <1>2, <1>3, ConstantsAssumption DEF IInv, TypeOK, JobInv
<1>7. ReferenceInv' /\ FinalityFromHeadEnd'
  BY <1>1, <1>2, <1>3 DEF IInv, TypeOK, ReferenceInv, FinalityFromHeadEnd
<1>8. JobInv'
  BY <1>1, <1>2, <1>3, <1>6 DEF IInv, TypeOK, JobInv, e, t
<1>9. ReadInv'
  BY <1>1, <1>2, <1>3 DEF IInv, TypeOK, ReadInv, HeadEndSays
<1>10. WorkerInv'
  BY <1>2, <1>6 DEF IInv, TypeOK, WorkerInv
<1>11. CompletedImpliesFinal'
  BY <1>1, <1>2, <1>3, <1>4, <1>6, ConstantsAssumption
  DEF IInv, TypeOK, JobInv, CompletedImpliesFinal
<1>12. CallbackTracked'
  <2> SUFFICES ASSUME NEW u \in Txns, status'[u] = "CALLBACK_RECEIVED"
               PROVE  \E f \in EventIds :
                        /\ stored'[f] \in Deliveries /\ TxnOf[stored'[f]] = u
                        /\ job'[f].state \in {"PENDING", "PROCESSING", "DEAD"}
    BY DEF CallbackTracked
  <2>1. CASE status[u] = "CALLBACK_RECEIVED"
    <3>1. PICK f \in EventIds :
            /\ stored[f] \in Deliveries /\ TxnOf[stored[f]] = u
            /\ job[f].state \in {"PENDING", "PROCESSING", "DEAD"}
      BY <2>1 DEF IInv, CallbackTracked
    <3>2. QED
      BY <1>6, <3>1
  <2>2. CASE status[u] # "CALLBACK_RECEIVED"
    <3>1. u = t /\ t \in referenced /\ status[t] \in Open
      BY <1>1, <1>3, <2>2 DEF IInv, TypeOK
    <3>2. stored'[e] = d /\ TxnOf[d] = u
      BY <1>1, <1>2, <3>1 DEF IInv, TypeOK, t
    <3>3. job[e].state \in JobStates
      BY <1>1 DEF IInv, TypeOK, Job
    <3>4. job[e].state # "NONE" => job[e].state # "COMPLETED"
      BY <1>1, <1>2, <3>1, <3>2, ConstantsAssumption
      DEF IInv, JobInv, CompletedImpliesFinal
    <3>5. job'[e].state \in {"PENDING", "PROCESSING", "DEAD"}
      BY <1>1, <1>3, <1>4, <2>2, <3>1, <3>3, <3>4
      DEF IInv, TypeOK, JobStates
    <3>6. QED
      BY <1>1, <3>2, <3>5
  <2>3. QED
    BY <2>1, <2>2
<1>13. QED
  BY <1>5, <1>7, <1>8, <1>9, <1>10, <1>11, <1>12 DEF IInv

-----------------------------------------------------------------------------
(* A claim and the ways of ending a lease change jobs only in ways the     *)
(* other processes can live with: a job stays a job, of the same event,    *)
(* and none becomes COMPLETED but by a worker that saw its payment final.  *)
LEMMA JobValues ==
  ASSUME IInv, NEW e \in EventIds
  PROVE  /\ Buried(e) \in Job /\ Buried(e).state = "DEAD"
         /\ Completed(e) \in Job /\ Completed(e).state = "COMPLETED"
         /\ Rescheduled(e) \in Job
         /\ Rescheduled(e).state \in {"PENDING", "DEAD"}
         /\ \A w \in Workers : Due(e) =>
              Leased(e, w) \in Job /\ Leased(e, w).state = "PROCESSING"
<1>1. job[e] \in Job
  BY DEF IInv, TypeOK
<1>2. ASSUME NEW w \in Workers, Due(e)
      PROVE  Leased(e, w) \in Job /\ Leased(e, w).state = "PROCESSING"
  <2>1. job[e].attempts + 1 \in 0..MaxAttempts
    BY <1>1, <1>2, ConstantsAssumption DEF Due, Job
  <2>2. QED
    BY <1>1, <2>1 DEF Leased, Job, JobStates
<1>3. QED
  BY <1>1, <1>2, ConstantsAssumption
  DEF Buried, Completed, Rescheduled, Job, JobStates

(* Whatever happens to the jobs alone keeps the invariant of the ledger.   *)
LEMMA JobStepInv ==
  ASSUME IInv, job' \in [EventIds -> Job],
         UNCHANGED <<status, referenced, headEnd, stored>>,
         \A e \in EventIds :
           /\ job[e].state = "NONE" <=> job'[e].state = "NONE"
           /\ job'[e].state = "COMPLETED" =>
                status[TxnOf[stored[e]]] \in Fsm!Final
  PROVE  /\ ReferenceInv' /\ JobInv' /\ FinalityFromHeadEnd'
         /\ CompletedImpliesFinal' /\ CallbackTracked'
<1>1. ReferenceInv' /\ FinalityFromHeadEnd' /\ JobInv'
        /\ CompletedImpliesFinal'
  BY DEF IInv, ReferenceInv, FinalityFromHeadEnd, JobInv,
         CompletedImpliesFinal
<1>2. CallbackTracked'
  <2> SUFFICES ASSUME NEW t \in Txns, status[t] = "CALLBACK_RECEIVED"
               PROVE  \E e \in EventIds :
                        /\ stored[e] \in Deliveries /\ TxnOf[stored[e]] = t
                        /\ job'[e].state \in {"PENDING", "PROCESSING", "DEAD"}
    BY DEF CallbackTracked
  <2>1. PICK e \in EventIds :
          /\ stored[e] \in Deliveries /\ TxnOf[stored[e]] = t
          /\ job[e].state \in {"PENDING", "PROCESSING", "DEAD"}
    BY DEF IInv, CallbackTracked
  <2>2. job'[e].state \in JobStates
    BY DEF Job
  <2>3. QED
    BY <2>1, <2>2 DEF JobStates
<1>3. QED
  BY <1>1, <1>2

LEMMA ClaimInv ==
  ASSUME IInv, NEW w \in Workers, NEW claimed \in SUBSET EventIds,
         Claim(w, claimed)
  PROVE  IInv'
<1>1. /\ \A e \in claimed : Due(e)
      /\ job' = [e \in EventIds |-> IF Exhausted(e) THEN Buried(e)
                                    ELSE IF e \in claimed THEN Leased(e, w)
                                    ELSE job[e]]
      /\ pc[w] = "idle"
      /\ pc' = [pc EXCEPT ![w] = IF claimed = {} THEN "idle" ELSE "loop"]
      /\ batch' = [batch EXCEPT ![w] = claimed]
      /\ UNCHANGED <<status, referenced, headEnd, stored, frame>>
  BY DEF Claim, Claimed, ledgerVars
<1>2. \A e \in EventIds :
        /\ job'[e] \in Job
        /\ job[e].state = "NONE" <=> job'[e].state = "NONE"
        /\ job'[e].state = "COMPLETED" => job[e].state = "COMPLETED"
        /\ Due(e) => job[e].state # "NONE"
  BY <1>1, JobValues DEF Exhausted, Due, IInv, TypeOK
<1>3. job' \in [EventIds -> Job]
  BY <1>1, <1>2
<1>4. TypeOK'
  BY <1>1, <1>3 DEF IInv, TypeOK
<1>5. /\ ReferenceInv' /\ JobInv' /\ FinalityFromHeadEnd'
      /\ CompletedImpliesFinal' /\ CallbackTracked'
  BY <1>1, <1>2, <1>3, JobStepInv DEF IInv, CompletedImpliesFinal
<1>6. ReadInv'
  BY <1>1 DEF IInv, TypeOK, ReadInv, HeadEndSays
<1>7. WorkerInv'
  BY <1>1, <1>2, ConstantsAssumption DEF IInv, TypeOK, WorkerInv
<1>8. QED
  BY <1>4, <1>5, <1>6, <1>7 DEF IInv

LEMMA EndLeaseInv ==
  ASSUME IInv, NEW w \in Workers,
         pc[w] \in {"settle", "except"},
         UNCHANGED <<status, referenced, headEnd, stored>>,
         \/ UNCHANGED job
         \/ pc[w] = "settle" /\ EndByStatus(w)
         \/ EndByError(w)
  PROVE  /\ job' \in [EventIds -> Job]
         /\ \A e \in EventIds : job[e].state = "NONE" <=> job'[e].state = "NONE"
         /\ ReferenceInv' /\ JobInv' /\ FinalityFromHeadEnd'
         /\ CompletedImpliesFinal' /\ CallbackTracked'
<1> DEFINE e == frame[w].job
<1>1. e \in EventIds /\ job[e].state # "NONE"
  BY DEF IInv, WorkerInv
<1>2. \/ UNCHANGED job
      \/ job' = [job EXCEPT ![e] = Rescheduled(e)]
      \/ /\ job' = [job EXCEPT ![e] = Completed(e)]
         /\ pc[w] = "settle" /\ frame[w].seen \in Fsm!Final
  BY DEF EndByStatus, EndByError, EndLease
<1>3. pc[w] = "settle" /\ frame[w].seen \in Fsm!Final =>
        status[TxnOf[stored[e]]] \in Fsm!Final
  BY DEF IInv, ReadInv, WorkerInv
<1> HIDE DEF e
<1>4. job' \in [EventIds -> Job]
  BY <1>1, <1>2, JobValues DEF IInv, TypeOK
<1>5. \A f \in EventIds :
        /\ job[f].state = "NONE" <=> job'[f].state = "NONE"
        /\ job'[f].state = "COMPLETED" =>
             status[TxnOf[stored[f]]] \in Fsm!Final
  BY <1>1, <1>2, <1>3, JobValues DEF IInv, TypeOK, CompletedImpliesFinal
<1>6. QED
  BY <1>4, <1>5, JobStepInv

LEMMA SettleInv ==
  ASSUME IInv, NEW w \in Workers,
         \/ Settle(w) \/ Recover(w)
         \/ \E committed \in BOOLEAN :
              SettleFails(w, committed) \/ RecoverFails(w, committed)
  PROVE  IInv'
<1>1. /\ pc[w] \in {"settle", "except"}
      /\ UNCHANGED <<status, referenced, headEnd, stored>>
      /\ \/ UNCHANGED job
         \/ pc[w] = "settle" /\ EndByStatus(w)
         \/ EndByError(w)
  BY DEF Settle, Recover, SettleFails, RecoverFails, ledgerVars
<1>2. \/ /\ pc' = [pc EXCEPT ![w] = "except"]
         /\ frame' = [frame EXCEPT ![w] = [NoFrame EXCEPT !.job = frame[w].job]]
         /\ UNCHANGED batch
      \/ \E rest \in {{}, batch[w]} :
           /\ pc' = [pc EXCEPT ![w] = IF rest = {} THEN "idle" ELSE "loop"]
           /\ frame' = [frame EXCEPT ![w] = NoFrame]
           /\ batch' = [batch EXCEPT ![w] = rest]
  BY DEF Settle, Recover, SettleFails, RecoverFails, Continue, Raise
<1>3. /\ job' \in [EventIds -> Job]
      /\ \A e \in EventIds : job[e].state = "NONE" <=> job'[e].state = "NONE"
      /\ ReferenceInv' /\ JobInv' /\ FinalityFromHeadEnd'
      /\ CompletedImpliesFinal' /\ CallbackTracked'
  BY <1>1, EndLeaseInv
<1>4. frame[w].job \in EventIds /\ job[frame[w].job].state # "NONE"
  BY <1>1 DEF IInv, WorkerInv
<1>5. /\ w \in Procs /\ frame \in [Procs -> Frame] /\ frame[w] \in Frame
      /\ pc \in [Procs -> {"idle", "loop", "query", "transition", "settle",
                           "except"}]
      /\ batch \in [Workers -> SUBSET EventIds]
  BY DEF IInv, TypeOK, Procs
<1>6. /\ pc' \in [Procs -> {"idle", "loop", "query", "transition", "settle",
                            "except"}]
      /\ pc'[w] \in {"idle", "loop", "except"}
      /\ \A q \in Procs \ {w} : pc'[q] = pc[q]
  BY <1>2, <1>5
<1>7. /\ batch' \in [Workers -> SUBSET EventIds]
      /\ \A v \in Workers : batch'[v] \subseteq batch[v]
  BY <1>2, <1>5
<1>8. /\ frame' \in [Procs -> Frame]
      /\ pc'[w] = "except" => frame'[w].job = frame[w].job
      /\ \A q \in Procs \ {w} : frame'[q] = frame[q]
  <2>1. NoFrame \in Frame /\ [NoFrame EXCEPT !.job = frame[w].job] \in Frame
    BY <1>5 DEF Frame, NoFrame
  <2>2. [NoFrame EXCEPT !.job = frame[w].job].job = frame[w].job
    BY DEF NoFrame
  <2>3. CASE frame' = [frame EXCEPT ![w] = [NoFrame EXCEPT !.job = frame[w].job]]
    BY <1>5, <2>1, <2>2, <2>3
  <2>4. CASE pc'[w] # "except" /\ frame' = [frame EXCEPT ![w] = NoFrame]
    BY <1>5, <2>1, <2>4
  <2>5. QED
    BY <1>2, <1>5, <2>3, <2>4
<1>9. TypeOK'
  BY <1>1, <1>3, <1>6, <1>7, <1>8 DEF IInv, TypeOK
<1>10. ReadInv'
  BY <1>1, <1>6, <1>8 DEF IInv, ReadInv, HeadEndSays
<1>11. WorkerInv'
  <2>1. ASSUME NEW v \in Workers
        PROVE  \A e \in batch'[v] : job'[e].state # "NONE"
    BY <1>3, <1>5, <1>7 DEF IInv, WorkerInv
  <2>2. ASSUME NEW v \in Workers,
               pc'[v] \in {"query", "transition", "settle", "except"}
        PROVE  /\ frame'[v].job \in EventIds
               /\ job'[frame'[v].job].state # "NONE"
    BY <1>3, <1>4, <1>6, <1>8, <2>2 DEF IInv, WorkerInv, Procs
  <2>3. ASSUME NEW v \in Workers, pc'[v] \in {"query", "transition", "settle"}
        PROVE  frame'[v].txn = TxnOf[stored'[frame'[v].job]]
    BY <1>1, <1>6, <1>8, <2>3 DEF IInv, WorkerInv, Procs
  <2>4. \A q \in Pollers : pc'[q] \in {"idle", "query", "transition"}
    BY <1>6, ConstantsAssumption DEF IInv, WorkerInv, Procs
  <2>5. QED
    BY <2>1, <2>2, <2>3, <2>4 DEF WorkerInv
<1>12. QED
  BY <1>3, <1>9, <1>10, <1>11 DEF IInv

-----------------------------------------------------------------------------
(* Steps of a process on its own locals: reading the row, asking the       *)
(* head-end, giving up.  What it remembers was true when it was read.      *)
LEMMA NextJobInv ==
  ASSUME IInv, NEW w \in Workers, NEW e \in EventIds,
         NextJob(w, e) \/ NextJobFails(w, e)
  PROVE  IInv'
<1>1. /\ e \in batch[w]
      /\ batch' = [batch EXCEPT ![w] = @ \ {e}]
      /\ UNCHANGED <<status, referenced, headEnd, stored, job>>
      /\ \/ /\ pc' = [pc EXCEPT ![w] = "except"]
            /\ frame' = [frame EXCEPT ![w] = [NoFrame EXCEPT !.job = e]]
         \/ /\ pc' = [pc EXCEPT ![w] = IF status[TxnOf[stored[e]]] \in Open
                                       THEN "query" ELSE "settle"]
            /\ frame' = [frame EXCEPT ![w] =
                           [job |-> e, txn |-> TxnOf[stored[e]],
                            seen |-> status[TxnOf[stored[e]]],
                            answer |-> Nil]]
  BY DEF NextJob, NextJobFails, Begin, ledgerVars
<1>2. job[e].state # "NONE" /\ TxnOf[stored[e]] \in referenced
  BY <1>1 DEF IInv, WorkerInv, JobInv
<1>3. TxnOf[stored[e]] \in Txns
  BY <1>2 DEF IInv, TypeOK
<1>4. status[TxnOf[stored[e]]] \in Fsm!Status
  BY <1>3 DEF IInv, TypeOK
<1>5. TypeOK'
  <2>1. [NoFrame EXCEPT !.job = e] \in Frame
    BY DEF NoFrame, Frame
  <2>2. [job |-> e, txn |-> TxnOf[stored[e]],
         seen |-> status[TxnOf[stored[e]]], answer |-> Nil] \in Frame
    BY <1>3, <1>4 DEF Frame
  <2>3. QED
    BY <1>1, <2>1, <2>2 DEF IInv, TypeOK
<1>6. ReadInv'
  BY <1>1, <1>2, <1>4 DEF IInv, TypeOK, ReadInv, HeadEndSays
<1>7. WorkerInv'
  BY <1>1, <1>2, ConstantsAssumption DEF IInv, TypeOK, WorkerInv, NoFrame
<1>8. ReferenceInv' /\ JobInv' /\ FinalityFromHeadEnd'
        /\ CompletedImpliesFinal' /\ CallbackTracked'
  BY <1>1 DEF IInv, ReferenceInv, JobInv, FinalityFromHeadEnd,
              CompletedImpliesFinal, CallbackTracked
<1>9. QED
  BY <1>5, <1>6, <1>7, <1>8 DEF IInv

LEMMA PollerInv ==
  ASSUME IInv, NEW p \in Pollers, NEW t \in Txns, StartPoll(p, t)
  PROVE  IInv'
<1>1. /\ t \in referenced /\ status[t] \in Open
      /\ pc' = [pc EXCEPT ![p] = "query"]
      /\ frame' = [frame EXCEPT ![p] = [job |-> Nil, txn |-> t,
                                        seen |-> status[t], answer |-> Nil]]
      /\ UNCHANGED <<status, referenced, headEnd, stored, job, batch>>
  BY DEF StartPoll, Begin, ledgerVars
<1>2. TypeOK'
  BY <1>1 DEF IInv, TypeOK, Frame
<1>3. ReadInv'
  BY <1>1 DEF IInv, TypeOK, ReadInv, HeadEndSays
<1>4. WorkerInv'
  BY <1>1, ConstantsAssumption DEF IInv, TypeOK, WorkerInv
<1>5. ReferenceInv' /\ JobInv' /\ FinalityFromHeadEnd'
        /\ CompletedImpliesFinal' /\ CallbackTracked'
  BY <1>1 DEF IInv, ReferenceInv, JobInv, FinalityFromHeadEnd,
              CompletedImpliesFinal, CallbackTracked
<1>6. QED
  BY <1>2, <1>3, <1>4, <1>5 DEF IInv

(* Returning and raising leave well-formed locals behind.                  *)
LEMMA ReconcileEndsTyped ==
  ASSUME NEW p \in Procs, NEW st \in Fsm!Status,
         frame \in [Procs -> Frame],
         pc \in [Procs -> {"idle", "loop", "query", "transition", "settle",
                           "except"}],
         Return(p, st) \/ Raise(p)
  PROVE  /\ frame' \in [Procs -> Frame]
         /\ pc' \in [Procs -> {"idle", "loop", "query", "transition",
                               "settle", "except"}]
<1>1. frame[p] \in Frame
  OBVIOUS
<1>2. CASE Return(p, st) /\ p \in Workers
  <2>1. /\ frame' = [frame EXCEPT ![p].seen = st, ![p].answer = Nil]
        /\ pc' = [pc EXCEPT ![p] = "settle"]
    BY <1>2 DEF Return
  <2>2. QED
    BY <1>1, <2>1 DEF Frame
<1>3. CASE Return(p, st) /\ p \notin Workers
  <2>1. frame' = [frame EXCEPT ![p] = NoFrame] /\ pc' = [pc EXCEPT ![p] = "idle"]
    BY <1>3 DEF Return
  <2>2. NoFrame \in Frame
    BY DEF NoFrame, Frame
  <2>3. QED
    BY <2>1, <2>2
<1>4. CASE Raise(p)
  <2>1. [NoFrame EXCEPT !.job = frame[p].job] \in Frame
    BY <1>1 DEF NoFrame, Frame
  <2>2. QED
    BY <1>4, <2>1 DEF Raise
<1>5. QED
  BY <1>2, <1>3, <1>4

(* A worker whose call of reconcile returns or raises keeps its job and,   *)
(* unless it raised, the payment it reconciled; a poller forgets both.     *)
LEMMA ReconcileEnds ==
  ASSUME TypeOK, WorkerInv, NEW p \in Procs, NEW st,
         pc[p] \in {"query", "transition"},
         Return(p, st) \/ Raise(p), UNCHANGED <<stored, job, batch>>
  PROVE  WorkerInv'
<1>1. /\ p \in Workers =>
           /\ pc'[p] \in {"settle", "except"}
           /\ frame'[p].job = frame[p].job
           /\ pc'[p] = "settle" => frame'[p].txn = frame[p].txn
      /\ p \notin Workers => pc'[p] = "idle"
      /\ \A q \in Procs \ {p} : pc'[q] = pc[q] /\ frame'[q] = frame[q]
  <2>1. /\ pc \in [Procs -> {"idle", "loop", "query", "transition", "settle",
                             "except"}]
        /\ frame \in [Procs -> Frame] /\ frame[p] \in Frame
    BY DEF TypeOK
  <2>2. CASE Return(p, st)
    BY <2>1, <2>2 DEF Return, Frame
  <2>3. CASE Raise(p)
    BY <2>1, <2>3 DEF Raise, NoFrame
  <2>4. QED
    BY <2>2, <2>3
<1>2. \A w \in Workers : \A e \in batch'[w] : job'[e].state # "NONE"
  BY DEF WorkerInv
<1>3. ASSUME NEW w \in Workers,
             pc'[w] \in {"query", "transition", "settle", "except"}
      PROVE  /\ frame'[w].job \in EventIds
             /\ job'[frame'[w].job].state # "NONE"
             /\ pc'[w] # "except" =>
                  frame'[w].txn = TxnOf[stored'[frame'[w].job]]
  <2>1. w \in Procs /\ UNCHANGED <<job, stored>>
    BY DEF Procs
  <2>2. /\ pc[w] \in {"query", "transition", "settle", "except"}
        /\ pc'[w] # "except" => pc[w] # "except"
        /\ frame'[w].job = frame[w].job
        /\ pc'[w] # "except" => frame'[w].txn = frame[w].txn
    <3>1. CASE w = p
      <4>1. /\ p \in Workers /\ pc[p] \in {"query", "transition"}
            /\ pc'[p] \in {"settle", "except"}
            /\ frame'[p].job = frame[p].job
            /\ pc'[p] = "settle" => frame'[p].txn = frame[p].txn
        BY <1>1, <3>1
      <4>2. QED
        BY <3>1, <4>1
    <3>2. CASE w # p
      <4>1. pc'[w] = pc[w] /\ frame'[w] = frame[w]
        BY <1>1, <2>1, <3>2
      <4>2. QED
        BY <1>3, <4>1
    <3>3. QED
      BY <3>1, <3>2
  <2>3. /\ frame[w].job \in EventIds
        /\ job[frame[w].job].state # "NONE"
        /\ pc[w] # "except" => frame[w].txn = TxnOf[stored[frame[w].job]]
    BY <2>2 DEF WorkerInv
  <2>4. QED
    BY <2>1, <2>2, <2>3
<1>4. \A q \in Pollers : pc'[q] \in {"idle", "query", "transition"}
  BY <1>1, ConstantsAssumption DEF WorkerInv, Procs
<1>5. QED
  BY <1>2, <1>3, <1>4 DEF WorkerInv

LEMMA QueryInv ==
  ASSUME IInv, NEW p \in Procs,
         \/ \E verdict \in Fsm!Final : QueryFinal(p, verdict)
         \/ QueryUncertain(p) \/ QueryRaises(p)
  PROVE  IInv'
<1>1. pc[p] = "query" /\ UNCHANGED <<status, referenced, headEnd, stored, job, batch>>
  BY DEF QueryFinal, QueryUncertain, QueryRaises, ledgerVars
<1>2. \/ \E verdict \in Fsm!Final :
           /\ HeadEndSays(frame[p].txn, verdict)
           /\ frame' = [frame EXCEPT ![p].answer = verdict]
           /\ pc' = [pc EXCEPT ![p] = "transition"]
      \/ Return(p, frame[p].seen)
      \/ Raise(p)
  BY DEF QueryFinal, QueryUncertain, QueryRaises
<1>3. frame[p].seen \in Open
  BY <1>1 DEF IInv, ReadInv
<1>4. TypeOK'
  <2>1. /\ UNCHANGED <<status, referenced, headEnd, stored, job, batch>>
        /\ frame[p] \in Frame /\ p \in Procs
        /\ pc \in [Procs -> {"idle", "loop", "query", "transition", "settle",
                             "except"}]
        /\ frame \in [Procs -> Frame]
    BY <1>1 DEF IInv, TypeOK
  <2>2. frame' \in [Procs -> Frame]
    <3>1. CASE \E verdict \in Fsm!Final :
                 frame' = [frame EXCEPT ![p].answer = verdict]
      BY <2>1, <3>1 DEF Frame
    <3>2. CASE Return(p, frame[p].seen) \/ Raise(p)
      <4>1. frame[p].seen \in Fsm!Status
        BY <1>3 DEF Open, Fsm!Status
      <4>2. QED
        BY <2>1, <3>2, <4>1, ReconcileEndsTyped
    <3>3. QED
      BY <1>2, <3>1, <3>2
  <2>3. pc' \in [Procs -> {"idle", "loop", "query", "transition", "settle",
                          "except"}]
    BY <1>2, <2>1 DEF Return, Raise
  <2>4. QED
    BY <2>1, <2>2, <2>3 DEF IInv, TypeOK
<1>5. ReadInv'
  <2>1. CASE \E verdict \in Fsm!Final :
               /\ HeadEndSays(frame[p].txn, verdict)
               /\ frame' = [frame EXCEPT ![p].answer = verdict]
               /\ pc' = [pc EXCEPT ![p] = "transition"]
    BY <1>1, <1>3, <2>1 DEF IInv, TypeOK, ReadInv, HeadEndSays, Frame
  <2>2. CASE Return(p, frame[p].seen)
    <3>1. frame[p].seen \notin Fsm!Final
      BY <1>3 DEF Open, Fsm!Final
    <3>2. QED
      BY <1>1, <2>2, <3>1 DEF IInv, TypeOK, ReadInv, HeadEndSays, Return, Frame
  <2>3. CASE Raise(p)
    BY <1>1, <2>3 DEF IInv, TypeOK, ReadInv, HeadEndSays, Raise, Frame
  <2>4. QED
    BY <1>2, <2>1, <2>2, <2>3
<1>6. WorkerInv'
  <2>1. CASE \E verdict \in Fsm!Final :
               /\ frame' = [frame EXCEPT ![p].answer = verdict]
               /\ pc' = [pc EXCEPT ![p] = "transition"]
    <3>1. /\ frame \in [Procs -> Frame] /\ frame[p] \in Frame
          /\ pc \in [Procs -> {"idle", "loop", "query", "transition", "settle",
                               "except"}]
      BY DEF IInv, TypeOK
    <3>2. /\ pc'[p] = "transition"
          /\ \A q \in Procs :
               /\ frame'[q].job = frame[q].job
               /\ frame'[q].txn = frame[q].txn
               /\ q # p => pc'[q] = pc[q]
      BY <2>1, <3>1 DEF Frame
    <3>3. \A w \in Workers : \A e \in batch'[w] : job'[e].state # "NONE"
      BY <1>1 DEF IInv, WorkerInv
    <3>4. ASSUME NEW w \in Workers,
                 pc'[w] \in {"query", "transition", "settle", "except"}
          PROVE  /\ frame'[w].job \in EventIds
                 /\ job'[frame'[w].job].state # "NONE"
                 /\ pc'[w] # "except" =>
                      frame'[w].txn = TxnOf[stored'[frame'[w].job]]
      <4>1. /\ pc[w] \in {"query", "transition", "settle", "except"}
            /\ pc'[w] # "except" => pc[w] # "except"
            /\ frame'[w].job = frame[w].job /\ frame'[w].txn = frame[w].txn
        <5>1. w \in Procs
          BY DEF Procs
        <5>2. frame'[w].job = frame[w].job /\ frame'[w].txn = frame[w].txn
          BY <3>2, <5>1
        <5>3. CASE w = p
          BY <1>1, <5>2, <5>3
        <5>4. CASE w # p
          <6>1. pc'[w] = pc[w]
            BY <3>2, <5>1, <5>4
          <6>2. QED
            BY <3>4, <5>2, <6>1
        <5>5. QED
          BY <5>3, <5>4
      <4>2. /\ frame[w].job \in EventIds
            /\ job[frame[w].job].state # "NONE"
            /\ pc[w] # "except" => frame[w].txn = TxnOf[stored[frame[w].job]]
        BY <4>1 DEF IInv, WorkerInv
      <4>3. QED
        BY <1>1, <4>1, <4>2
    <3>5. ASSUME NEW q \in Pollers
          PROVE  pc'[q] \in {"idle", "query", "transition"}
      <4>1. q \in Procs /\ pc[q] \in {"idle", "query", "transition"}
        BY DEF Procs, IInv, WorkerInv
      <4>2. pc'[q] = "transition" \/ pc'[q] = pc[q]
        BY <3>2, <4>1
      <4>3. QED
        BY <4>1, <4>2
    <3>6. QED
      BY <3>3, <3>4, <3>5 DEF WorkerInv
  <2>2. QED
    BY <1>1, <1>2, <2>1, ReconcileEnds DEF IInv
<1>7. ReferenceInv' /\ JobInv' /\ FinalityFromHeadEnd'
        /\ CompletedImpliesFinal' /\ CallbackTracked'
  BY <1>1 DEF IInv, ReferenceInv, JobInv, FinalityFromHeadEnd,
              CompletedImpliesFinal, CallbackTracked
<1>8. QED
  BY <1>4, <1>5, <1>6, <1>7 DEF IInv

(* The final transition: its verdict is still the head-end's, because a    *)
(* settled payment does not change; and the row lock keeps it off a row    *)
(* that has moved since it was read.                                       *)
LEMMA FinalizeInv ==
  ASSUME IInv, NEW p \in Procs,
         Finalize(p) \/ \E committed \in BOOLEAN : FinalizeFails(p, committed)
  PROVE  IInv'
<1> DEFINE t == frame[p].txn
           verdict == frame[p].answer
<1>1. /\ pc[p] = "transition"
      /\ UNCHANGED <<referenced, headEnd, stored, job, batch>>
  BY DEF Finalize, FinalizeFails
<1>2. \/ /\ status' = [status EXCEPT ![t] = verdict]
         /\ status[t] = frame[p].seen
         /\ Return(p, verdict) \/ Raise(p)
      \/ /\ UNCHANGED status
         /\ Return(p, frame[p].seen) \/ Raise(p)
  BY DEF Finalize, FinalizeFails, SetStatus, Changes, CanTransition
<1>3. /\ t \in referenced /\ t \in Txns
      /\ frame[p].seen \in Open
      /\ verdict \in Fsm!Final /\ HeadEndSays(t, verdict)
  BY <1>1 DEF IInv, TypeOK, ReadInv
<1>4. status' \in [Txns -> Fsm!Status]
  BY <1>2, <1>3 DEF IInv, TypeOK
<1>5. TypeOK'
  <2>1. frame[p].seen \in Fsm!Status /\ verdict \in Fsm!Status
    BY <1>3 DEF Open, Fsm!Final, Fsm!Status
  <2>2. PICK st \in Fsm!Status : Return(p, st) \/ Raise(p)
    BY <1>2, <2>1
  <2>3. /\ frame' \in [Procs -> Frame]
        /\ pc' \in [Procs -> {"idle", "loop", "query", "transition", "settle",
                              "except"}]
    BY <2>2, ReconcileEndsTyped DEF IInv, TypeOK
  <2>4. QED
    BY <1>1, <1>4, <2>3 DEF IInv, TypeOK
<1>6. ReferenceInv' /\ FinalityFromHeadEnd'
  BY <1>1, <1>2, <1>3
  DEF IInv, TypeOK, ReferenceInv, FinalityFromHeadEnd, HeadEndSays
<1>7. JobInv'
  BY <1>1 DEF IInv, JobInv
<1>8. \A u \in Txns : status[u] \in Fsm!Final => status'[u] = status[u]
  BY <1>2, <1>3 DEF IInv, TypeOK
<1>9. ReadInv'
  <2>1. ASSUME NEW q \in Procs, q # p
        PROVE  pc'[q] = pc[q] /\ frame'[q] = frame[q]
    BY <1>2, <2>1 DEF IInv, TypeOK, Return, Raise
  <2>2. pc'[p] \in {"settle", "except", "idle"}
    BY <1>2 DEF IInv, TypeOK, Return, Raise
  <2>3. pc'[p] = "settle" =>
          /\ frame'[p].txn = t
          /\ frame'[p].seen \in Fsm!Status
          /\ frame'[p].seen \in Fsm!Final => status'[t] = frame'[p].seen
    BY <1>2, <1>3 DEF IInv, TypeOK, Return, Raise, Frame
  <2>4. ASSUME NEW q \in Procs, q # p, pc[q] = "settle"
        PROVE  frame[q].txn \in Txns
    BY <2>4 DEF IInv, TypeOK, ReadInv
  <2> HIDE DEF t
  <2>5. QED
    BY <1>1, <1>3, <1>8, <2>1, <2>2, <2>3, <2>4
    DEF IInv, ReadInv, HeadEndSays
<1>10. WorkerInv'
  BY <1>1, <1>2, ReconcileEnds DEF IInv
<1>11. CompletedImpliesFinal' /\ CallbackTracked'
  BY <1>1, <1>2, <1>3, <1>8, ConstantsAssumption
  DEF IInv, TypeOK, JobInv, CompletedImpliesFinal, CallbackTracked
<1>12. QED
  BY <1>5, <1>6, <1>7, <1>9, <1>10, <1>11 DEF IInv

LEMMA CrashInv ==
  ASSUME IInv, NEW p \in Procs, Crash(p)
  PROVE  IInv'
<1>1. /\ pc' = [pc EXCEPT ![p] = "idle"]
      /\ batch' = [w \in Workers |-> IF w = p THEN {} ELSE batch[w]]
      /\ frame' = [frame EXCEPT ![p] = NoFrame]
      /\ UNCHANGED <<status, referenced, headEnd, stored, job>>
  BY DEF Crash, ledgerVars
<1>2. TypeOK'
  BY <1>1 DEF IInv, TypeOK, Frame, NoFrame
<1>3. ReadInv' /\ WorkerInv'
  BY <1>1 DEF IInv, TypeOK, ReadInv, WorkerInv, HeadEndSays
<1>4. ReferenceInv' /\ JobInv' /\ FinalityFromHeadEnd'
        /\ CompletedImpliesFinal' /\ CallbackTracked'
  BY <1>1 DEF IInv, ReferenceInv, JobInv, FinalityFromHeadEnd,
              CompletedImpliesFinal, CallbackTracked
<1>5. QED
  BY <1>2, <1>3, <1>4 DEF IInv

LEMMA ClockInv ==
  ASSUME IInv, NEW e \in EventIds, LeaseExpires(e) \/ BackoffElapses(e)
  PROVE  IInv'
<1>1. /\ job[e].state \in {"PROCESSING", "PENDING"}
      /\ \/ job' = [job EXCEPT ![e].expired = TRUE]
         \/ job' = [job EXCEPT ![e].available = TRUE]
      /\ UNCHANGED <<status, referenced, headEnd, stored, pc, batch, frame>>
  BY DEF LeaseExpires, BackoffElapses, ledgerVars, procVars
<1>2. job' \in [EventIds -> Job]
  <2>1. job \in [EventIds -> Job] /\ job[e] \in Job
    BY DEF IInv, TypeOK
  <2>2. /\ [job[e] EXCEPT !.expired = TRUE] \in Job
        /\ [job[e] EXCEPT !.available = TRUE] \in Job
    BY <2>1 DEF Job
  <2>3. QED
    BY <1>1, <2>1, <2>2
<1>3. \A f \in EventIds : job'[f].state = job[f].state
  <2>1. job \in [EventIds -> Job] /\ job[e] \in Job
    BY DEF IInv, TypeOK
  <2>2. job'[e].state = job[e].state
    BY <1>1, <2>1 DEF Job
  <2>3. QED
    BY <1>1, <2>1, <2>2
<1>4. TypeOK'
  BY <1>1, <1>2 DEF IInv, TypeOK
<1>5. ReferenceInv' /\ JobInv' /\ FinalityFromHeadEnd'
        /\ CompletedImpliesFinal' /\ CallbackTracked'
  BY <1>1, <1>2, <1>3, JobStepInv DEF IInv, CompletedImpliesFinal
<1>6. ReadInv' /\ WorkerInv'
  BY <1>1, <1>3 DEF IInv, TypeOK, ReadInv, WorkerInv, HeadEndSays
<1>7. QED
  BY <1>4, <1>5, <1>6 DEF IInv

-----------------------------------------------------------------------------
LEMMA NextInv == IInv /\ [Next]_vars => IInv'
<1> SUFFICES ASSUME IInv, [Next]_vars PROVE IInv'
  OBVIOUS
<1>1. ASSUME NEW t \in Txns, Application(t) PROVE IInv'
  BY <1>1, ApplicationInv
<1>2. ASSUME NEW t \in Txns, NEW verdict \in Fsm!HeadEnd,
             ProviderDecides(t, verdict)
      PROVE  IInv'
  BY <1>2, ProviderInv
<1>3. ASSUME NEW d \in Deliveries, IngestWebhook(d) PROVE IInv'
  BY <1>3, IngestInv
<1>4. ASSUME NEW p \in Procs, Reconcile(p) PROVE IInv'
  BY <1>4, QueryInv, FinalizeInv DEF Reconcile
<1>5. ASSUME NEW w \in Workers, RunOnce(w) PROVE IInv'
  <2>1. w \in Procs
    OBVIOUS
  <2>2. ASSUME NEW claimed \in SUBSET EventIds, Claim(w, claimed) PROVE IInv'
    BY <2>2, ClaimInv
  <2>3. ASSUME NEW e \in EventIds, NextJob(w, e) \/ NextJobFails(w, e)
        PROVE  IInv'
    BY <2>3, NextJobInv
  <2>4. ASSUME \/ Settle(w) \/ Recover(w)
               \/ \E committed \in BOOLEAN :
                    SettleFails(w, committed) \/ RecoverFails(w, committed)
        PROVE  IInv'
    BY <2>4, SettleInv
  <2>5. QED
    BY <1>4, <1>5, <2>1, <2>2, <2>3, <2>4 DEF RunOnce
<1>6. ASSUME NEW p \in Pollers, Reconcile(p) \/ \E t \in Txns : StartPoll(p, t)
      PROVE  IInv'
  BY <1>4, <1>6, PollerInv
<1>7. ASSUME NEW p \in Procs, Crash(p) PROVE IInv'
  BY <1>7, CrashInv
<1>8. ASSUME NEW e \in EventIds, LeaseExpires(e) \/ BackoffElapses(e)
      PROVE  IInv'
  BY <1>8, ClockInv
<1>9. CASE UNCHANGED vars
  BY <1>9 DEF vars, IInv, TypeOK, ReferenceInv, JobInv, ReadInv, WorkerInv,
              FinalityFromHeadEnd, CompletedImpliesFinal, CallbackTracked,
              HeadEndSays
<1>10. QED
  BY <1>1, <1>2, <1>3, <1>5, <1>6, <1>7, <1>8, <1>9 DEF Next

(* The inductive invariant: every variable keeps its type and everything a *)
(* process still holds of an earlier read can still be relied on.          *)
THEOREM InductiveInvariant == Spec => []IInv
  BY InitInv, NextInv, PTL DEF Spec

(* Every variable keeps its type; attempts never pass max_attempts.        *)
THEOREM TypeCorrect == Spec => []TypeOK
<1>1. IInv => TypeOK
  BY DEF IInv
<1>2. QED
  BY <1>1, InductiveInvariant, PTL

(* Finality comes from the head-end alone.                                 *)
THEOREM Finality == Spec => []FinalityFromHeadEnd
<1>1. IInv => FinalityFromHeadEnd
  BY DEF IInv
<1>2. QED
  BY <1>1, InductiveInvariant, PTL

(* A COMPLETED job's payment is final.                                     *)
THEOREM OutboxSound == Spec => []CompletedImpliesFinal
<1>1. IInv => CompletedImpliesFinal
  BY DEF IInv
<1>2. QED
  BY <1>1, InductiveInvariant, PTL

(* A payment that a callback moved has a job that still stands for it, or  *)
(* that died with its attempts: none is forgotten.                         *)
THEOREM CallbacksTracked == Spec => []CallbackTracked
<1>1. IInv => CallbackTracked
  BY DEF IInv
<1>2. QED
  BY <1>1, InductiveInvariant, PTL

-----------------------------------------------------------------------------
(* Every step of the ledger is a step of the payment FSM or leaves status  *)
(* and head-end alone.                                                     *)
LEMMA FsmStep == IInv /\ [Next]_vars => [Fsm!Next]_<<status, headEnd>>
<1> SUFFICES ASSUME IInv, [Next]_vars, ~UNCHANGED <<status, headEnd>>
             PROVE  Fsm!Next
  OBVIOUS
<1> USE DEF Fsm!Next, Fsm!Advance, Fsm!HeadEndMoves, Fsm!Supports,
            Fsm!ALLOWED_TRANSITIONS, Fsm!Moves
<1>1. ASSUME NEW t \in Txns, Application(t) PROVE Fsm!Next
  <2>1. CASE RequestApproval(t)
    <3>1. Fsm!Advance(t, "PENDING_APPROVAL")
      BY <2>1 DEF RequestApproval, CanTransition, SetStatus
    <3>2. QED
      BY <3>1
  <2>2. CASE Abandon(t)
    <3>1. Fsm!Advance(t, "FAILED")
      BY <2>2 DEF Abandon, CanTransition, SetStatus
    <3>2. QED
      BY <3>1
  <2>3. CASE RecordSubmission(t)
    <3>1. Fsm!Advance(t, "SUBMITTED")
      BY <2>3 DEF RecordSubmission, CanTransition, SetStatus
    <3>2. QED
      BY <3>1
  <2>4. QED
    BY <1>1, <2>1, <2>2, <2>3 DEF Application
<1>2. ASSUME NEW t \in Txns, NEW verdict \in Fsm!HeadEnd,
             ProviderDecides(t, verdict)
      PROVE  Fsm!Next
  <2>1. /\ UNCHANGED status
        /\ headEnd' = [headEnd EXCEPT ![t] = verdict]
        /\ verdict \in Fsm!Moves[headEnd[t]]
    BY <1>2 DEF ProviderDecides
  <2>2. status[t] \notin Fsm!Final
    BY <1>2 DEF ProviderDecides, IInv, FinalityFromHeadEnd
  <2>3. QED
    BY <2>1, <2>2
<1>3. ASSUME NEW d \in Deliveries, IngestWebhook(d) PROVE Fsm!Next
  <2>1. TxnOf[d] \in Txns
    BY ConstantsAssumption
  <2>2. /\ UNCHANGED headEnd
        /\ \/ UNCHANGED status
           \/ /\ status[TxnOf[d]] \in Open
              /\ status' = [status EXCEPT ![TxnOf[d]] = "CALLBACK_RECEIVED"]
    BY <1>3 DEF IngestWebhook, Ingested, Hinted, SetStatus
  <2>3. status[TxnOf[d]] = "CALLBACK_RECEIVED" => UNCHANGED status \/
          status' # [status EXCEPT ![TxnOf[d]] = "CALLBACK_RECEIVED"]
    BY <2>1 DEF IInv, TypeOK
  <2>4. QED
    BY <2>1, <2>2, <2>3
<1>4. ASSUME NEW p \in Procs, Reconcile(p) PROVE Fsm!Next
  <2>1. /\ UNCHANGED headEnd
        /\ \/ UNCHANGED status
           \/ /\ pc[p] = "transition"
              /\ Changes(p)
              /\ status' = [status EXCEPT ![frame[p].txn] = frame[p].answer]
    BY <1>4 DEF Reconcile, QueryFinal, QueryUncertain, QueryRaises, Finalize,
                FinalizeFails, SetStatus, ledgerVars
  <2>2. pc[p] = "transition" =>
          /\ frame[p].txn \in Txns
          /\ frame[p].answer \in Fsm!Final
          /\ HeadEndSays(frame[p].txn, frame[p].answer)
    BY DEF IInv, TypeOK, ReadInv
  <2>3. Changes(p) =>
          frame[p].answer \in Fsm!ALLOWED_TRANSITIONS[status[frame[p].txn]]
    BY DEF Changes, CanTransition
  <2>4. QED
    BY <2>1, <2>2, <2>3 DEF HeadEndSays
<1>5. ASSUME NEW w \in Workers, RunOnce(w), ~Reconcile(w)
      PROVE UNCHANGED <<status, headEnd>>
  BY <1>5 DEF RunOnce, Claim, Claimed, NextJob, NextJobFails, Settle, SettleFails,
              Recover, RecoverFails, ledgerVars
<1>6. ASSUME \/ \E p \in Pollers, t \in Txns : StartPoll(p, t)
             \/ \E p \in Procs : Crash(p)
             \/ \E e \in EventIds : LeaseExpires(e) \/ BackoffElapses(e)
             \/ UNCHANGED vars
      PROVE  UNCHANGED <<status, headEnd>>
  BY <1>6 DEF StartPoll, Crash, LeaseExpires, BackoffElapses, ledgerVars, vars
<1>7. QED
  BY <1>1, <1>2, <1>3, <1>4, <1>5, <1>6 DEF Next

(* The ledger, its callbacks and its workers implement the payment FSM.    *)
THEOREM Refinement == Spec => LedgerImplementsFsm
<1>1. Init => Fsm!Init
  BY DEF Init
<1>2. QED
  BY <1>1, FsmStep, InductiveInvariant, PTL
  DEF Spec, LedgerImplementsFsm, Fsm!Spec

-----------------------------------------------------------------------------
(* What one step may do to one job: nothing, take it into use, lease it,   *)
(* bury it, end its lease by its owner, or let time pass on it.            *)
LEMMA JobSteps ==
  ASSUME IInv, [Next]_vars, NEW e \in EventIds, job'[e] # job[e]
  PROVE  \/ job[e].state = "NONE" /\ job'[e] = NewJob
         \/ \E w \in Workers : Due(e) /\ job'[e] = Leased(e, w)
         \/ Exhausted(e) /\ job'[e] = Buried(e)
         \/ \E w \in Workers :
              /\ Owns(w, e) /\ frame[w].job = e
              /\ job'[e] \in {Completed(e), Rescheduled(e)}
              /\ pc[w] \in {"settle", "except"} /\ pc'[w] # pc[w]
         \/ job[e].state = "PROCESSING" /\ ~job[e].expired
              /\ job'[e] = [job[e] EXCEPT !.expired = TRUE]
         \/ job[e].state = "PENDING"
              /\ job'[e] = [job[e] EXCEPT !.available = TRUE]
<1> USE DEF IInv, TypeOK
<1>1. ASSUME NEW d \in Deliveries, IngestWebhook(d)
      PROVE  job[e].state = "NONE" /\ job'[e] = NewJob
  BY <1>1 DEF IngestWebhook, Ingested, Enqueue
<1>2. ASSUME NEW w \in Workers, NEW claimed \in SUBSET EventIds,
             Claim(w, claimed)
      PROVE  \/ Due(e) /\ job'[e] = Leased(e, w)
             \/ Exhausted(e) /\ job'[e] = Buried(e)
  BY <1>2 DEF Claim, Claimed
<1>3. ASSUME NEW w \in Workers,
             \/ Settle(w) \/ Recover(w)
             \/ \E committed \in BOOLEAN :
                  SettleFails(w, committed) \/ RecoverFails(w, committed)
      PROVE  /\ Owns(w, e) /\ frame[w].job = e
             /\ job'[e] \in {Completed(e), Rescheduled(e)}
             /\ pc[w] \in {"settle", "except"} /\ pc'[w] # pc[w]
  <2>1. pc[w] \in {"settle", "except"} /\ pc'[w] # pc[w]
    BY <1>3 DEF Settle, Recover, SettleFails, RecoverFails, Continue, Raise,
                EndByStatus, EndByError, EndLease
  <2>2. frame[w].job \in EventIds
    BY <2>1 DEF WorkerInv
  <2>3. EndByStatus(w) \/ EndByError(w)
    BY <1>3 DEF Settle, Recover, SettleFails, RecoverFails
  <2>4. frame[w].job = e /\ Owns(w, e)
    BY <2>2, <2>3 DEF EndByStatus, EndByError, EndLease
  <2>5. job'[e] \in {Completed(e), Rescheduled(e)}
    BY <2>3, <2>4 DEF EndByStatus, EndByError, EndLease
  <2>6. QED
    BY <2>1, <2>4, <2>5
<1>4. ASSUME NEW f \in EventIds, LeaseExpires(f) \/ BackoffElapses(f)
      PROVE  \/ job[e].state = "PROCESSING" /\ ~job[e].expired
                  /\ job'[e] = [job[e] EXCEPT !.expired = TRUE]
             \/ job[e].state = "PENDING"
                  /\ job'[e] = [job[e] EXCEPT !.available = TRUE]
  <2>1. f = e
    BY <1>4 DEF LeaseExpires, BackoffElapses
  <2>2. QED
    BY <1>4, <2>1 DEF LeaseExpires, BackoffElapses
<1>5. ASSUME \/ \E t \in Txns : Application(t)
             \/ \E t \in Txns, v \in Fsm!HeadEnd : ProviderDecides(t, v)
             \/ \E p \in Procs : Reconcile(p) \/ Crash(p)
             \/ \E p \in Pollers, t \in Txns : StartPoll(p, t)
             \/ \E w \in Workers, f \in EventIds :
                  NextJob(w, f) \/ NextJobFails(w, f)
             \/ UNCHANGED vars
      PROVE  UNCHANGED job
  BY <1>5 DEF Application, RequestApproval, Abandon, RecordSubmission,
              ProviderDecides, Reconcile, QueryFinal, QueryUncertain,
              QueryRaises, Finalize, FinalizeFails, Crash, StartPoll, NextJob,
              NextJobFails, vars
<1>6. QED
  BY <1>1, <1>2, <1>3, <1>4, <1>5 DEF Next, RunOnce

(* An unexpired lease is ended by its holder alone.                        *)
THEOREM LeasesSafe == Spec => LeaseRespected
<1>1. ASSUME IInv, [Next]_vars, NEW e \in EventIds,
             Held(e), job'[e].owner # job[e].owner
      PROVE  /\ pc[job[e].owner] \in {"settle", "except"}
             /\ frame[job[e].owner].job = e
             /\ pc'[job[e].owner] # pc[job[e].owner]
  <2>1. job[e] \in Job
    BY <1>1 DEF IInv, TypeOK
  <2>2. PICK w \in Workers : /\ Owns(w, e) /\ frame[w].job = e
                             /\ pc[w] \in {"settle", "except"}
                             /\ pc'[w] # pc[w]
    BY <1>1, <2>1, JobSteps DEF Held, Due, Exhausted, Job
  <2>3. QED
    BY <2>2 DEF Owns
<1>2. IInv /\ [Next]_vars =>
        [\A e \in EventIds :
           Held(e) /\ job'[e].owner # job[e].owner =>
             /\ pc[job[e].owner] \in {"settle", "except"}
             /\ frame[job[e].owner].job = e
             /\ pc'[job[e].owner] # pc[job[e].owner]]_vars
  BY <1>1
<1>3. QED
  BY <1>2, InductiveInvariant, PTL DEF Spec, LeaseRespected

(* Every lease costs an attempt, and no job is leased after it has ended.  *)
THEOREM LeaseBudget == Spec => LeasesBounded
<1>1. ASSUME IInv, [Next]_vars, NEW e \in EventIds
      PROVE  /\ Held(e)' /\ ~Held(e) =>
                  /\ job'[e].attempts = job[e].attempts + 1
                  /\ job'[e].attempts <= MaxAttempts
             /\ job[e].state \in {"COMPLETED", "DEAD"} => job'[e] = job[e]
  <2>1. job[e] \in Job
    BY <1>1 DEF IInv, TypeOK
  <2>2. ASSUME Held(e)', ~Held(e)
        PROVE  /\ job'[e].attempts = job[e].attempts + 1
               /\ job'[e].attempts <= MaxAttempts
    <3>1. job'[e].state = "PROCESSING" /\ ~job'[e].expired /\ job'[e] # job[e]
      BY <2>2 DEF Held
    <3>2. ~([job[e] EXCEPT !.available = TRUE].state = "PROCESSING"
              /\ job[e].state = "PENDING")
          /\ [job[e] EXCEPT !.expired = TRUE].expired
      BY <2>1 DEF Job
    <3>3. /\ NewJob.state # "PROCESSING" /\ Buried(e).state # "PROCESSING"
          /\ Completed(e).state # "PROCESSING"
          /\ Rescheduled(e).state # "PROCESSING"
      BY <1>1, JobValues DEF NewJob
    <3>4. \E w \in Workers : Due(e) /\ job'[e] = Leased(e, w)
      <4>1. CASE job'[e] = [job[e] EXCEPT !.expired = TRUE]
        BY <3>1, <3>2, <4>1
      <4>2. CASE /\ job[e].state = "PENDING"
                 /\ job'[e] = [job[e] EXCEPT !.available = TRUE]
        BY <3>1, <3>2, <4>2
      <4>3. CASE job'[e] \in {NewJob, Buried(e), Completed(e), Rescheduled(e)}
        BY <3>1, <3>3, <4>3
      <4>4. QED
        BY <1>1, <3>1, <4>1, <4>2, <4>3, JobSteps
    <3>5. QED
      BY <2>1, <3>4, ConstantsAssumption DEF Due, Leased, Job
  <2>3. ASSUME job[e].state \in {"COMPLETED", "DEAD"}, job'[e] # job[e]
        PROVE  FALSE
    BY <1>1, <2>3, JobSteps DEF Due, Exhausted, Owns
  <2>4. QED
    BY <2>2, <2>3
<1>2. IInv /\ [Next]_vars =>
        [\A e \in EventIds :
           /\ Held(e)' /\ ~Held(e) =>
                /\ job'[e].attempts = job[e].attempts + 1
                /\ job'[e].attempts <= MaxAttempts
           /\ job[e].state \in {"COMPLETED", "DEAD"} => job'[e] = job[e]]_vars
  BY <1>1
<1>3. QED
  BY <1>2, InductiveInvariant, PTL DEF Spec, LeasesBounded
=============================================================================
