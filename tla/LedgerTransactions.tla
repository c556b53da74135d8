------------------------- MODULE LedgerTransactions -------------------------
(***************************************************************************)
(* The repository methods of payment_lifecycle.py as PostgreSQL runs them: *)
(* one SQL statement at a time, READ COMMITTED, with the row locks each    *)
(* statement takes and waits for, and with connections that die between    *)
(* any two.  Reconciliation takes each method as one step; this module is  *)
(* the detailed specification that shows they may be taken so.             *)
(*                                                                         *)
(* What a session has written is its own until it commits.  It holds the   *)
(* lock of every row it wrote or selected FOR UPDATE, and the unique key   *)
(* of every row it inserted, until then, and everyone else who wants one   *)
(* waits.                                                                  *)
(***************************************************************************)
EXTENDS Naturals, FiniteSets

CONSTANTS
  Sessions,     \* database connections, each running one method at a time
  Txns, EventIds, Deliveries, EventOf, TxnOf, Workers, Limit, MaxAttempts,
  Nil           \* as in Reconciliation

VARIABLES
  status, referenced, stored, job,   \* the committed tables
  call,      \* the method a session runs, with its arguments
  at,        \* the statement it runs next
  local,     \* what its statements have returned
  writes,    \* its uncommitted writes
  locks      \* who holds each lock

tables == <<status, referenced, stored, job>>
sessionVars == <<call, at, local, writes, locks>>
vars == <<tables, sessionVars>>

(* The tables under the atomic methods.  Reconciliation's head-end and the *)
(* local state of its workers play no part in them.                        *)
R == INSTANCE Reconciliation
       WITH Pollers <- {}, headEnd <- Nil, pc <- Nil, batch <- Nil,
            frame <- Nil

Fsm == INSTANCE PaymentFsm WITH headEnd <- Nil

ASSUME LedgerAssumption ==
  /\ EventOf \in [Deliveries -> EventIds]
  /\ TxnOf \in [Deliveries -> Txns]
  /\ MaxAttempts \in Nat \ {0}
  /\ Limit \in Nat \ {0}
  /\ Nil \notin Sessions \cup Txns \cup EventIds \cup Deliveries \cup Workers
  /\ Nil \notin Fsm!Status \cup R!Job

Locks == ({"event", "job"} \X EventIds) \cup ({"payment"} \X Txns)

Idle == [method |-> "none"]

Calls ==
  [method : {"ingest_webhook"}, delivery : Deliveries]
  \cup [method : {"transition"}, txn : Txns,
        from : Fsm!Status, to : Fsm!Status]
  \cup [method : {"claim"}, worker : Workers]
  \cup [method : {"complete", "reschedule"}, worker : Workers,
        job : EventIds]

(* seen: the status of the payment row, Nil if the SELECT found none;      *)
(* todo: the rows of the statement's snapshot it has not reached;          *)
(* row: the one it has reached.                                            *)
NoLocal == [seen |-> Nil, todo |-> {}, row |-> Nil]

NoWrites == [event |-> Nil, status |-> Nil, jobs |-> [e \in EventIds |-> Nil]]

TypeOK ==
  /\ status \in [Txns -> Fsm!Status]
  /\ referenced \in SUBSET Txns
  /\ stored \in [EventIds -> Deliveries \cup {Nil}]
  /\ job \in [EventIds -> R!Job]
  /\ call \in [Sessions -> Calls \cup {Idle}]
  /\ at \in [Sessions -> {"idle", "event", "select", "update", "outbox",
                          "bury", "lease", "end", "commit"}]
  /\ local \in [Sessions -> [seen : Fsm!Status \cup {Nil},
                             todo : SUBSET EventIds,
                             row  : EventIds \cup {Nil}]]
  /\ writes \in [Sessions -> [event  : Deliveries \cup {Nil},
                              status : Fsm!Status \cup {Nil},
                              jobs   : [EventIds -> R!Job \cup {Nil}]]]
  /\ locks \in [Locks -> Sessions \cup {Nil}]

(* A payment that is approved and about to be submitted.                   *)
Init ==
  /\ status = [t \in Txns |-> "PENDING_APPROVAL"]
  /\ referenced = {}
  /\ stored = [e \in EventIds |-> Nil]
  /\ job = [e \in EventIds |-> R!NoJob]
  /\ call = [s \in Sessions |-> Idle]
  /\ at = [s \in Sessions |-> "idle"]
  /\ local = [s \in Sessions |-> NoLocal]
  /\ writes = [s \in Sessions |-> NoWrites]
  /\ locks = [k \in Locks |-> Nil]

-----------------------------------------------------------------------------
(* Locks, and what a session sees of a row it may have written itself.     *)

Payment(s) == IF call[s].method = "transition" THEN call[s].txn
              ELSE TxnOf[call[s].delivery]

Event(s) == EventOf[call[s].delivery]

NewStatus(s) ==
  IF call[s].method = "transition" THEN call[s].to ELSE "CALLBACK_RECEIVED"

Free(s, k) == locks[k] \in {s, Nil}

Holds(s, k) == locks[k] = s

Goto(s, statement) == at' = [at EXCEPT ![s] = statement]

(* SELECT ... FOR UPDATE of the payment row, by reference in               *)
(* ingest_webhook and by idempotency key in transition.  A row that is not *)
(* there when the statement runs is not locked.                            *)
Found(s) == call[s].method = "transition" \/ Payment(s) \in referenced

SelectLocks_Plain(s) == {}

SelectLocks(s) == IF Found(s) THEN {<<"payment", Payment(s)>>} ELSE {}

(* ON CONFLICT DO NOTHING does not lock the row it finds, but waits for    *)
(* one another session is inserting.                                       *)
OutboxLocks_DoUpdate(s) == {<<"job", Event(s)>>}

OutboxLocks(s) ==
  IF job[Event(s)].state = "NONE" THEN {<<"job", Event(s)>>} ELSE {}

(* The locks the next statement of a session waits for and keeps.          *)
Wants(s) ==
  CASE at[s] = "event" ->
         IF stored[Event(s)] = Nil THEN {<<"event", Event(s)>>} ELSE {}
    [] at[s] = "select" -> SelectLocks(s)
    [] at[s] = "update" ->
         IF local[s].seen = NewStatus(s) THEN {} ELSE {<<"payment", Payment(s)>>}
    [] at[s] = "outbox" -> OutboxLocks(s)
    [] at[s] = "bury" /\ local[s].row # Nil -> {<<"job", local[s].row>>}
    [] at[s] = "end" /\ R!Owns(call[s].worker, call[s].job) ->
         {<<"job", call[s].job>>}
    [] OTHER -> {}

Waiting(s) == \E k \in Wants(s) : ~Free(s, k)

Acquire(s, keys) ==
  /\ \A k \in keys : Free(s, k)
  /\ locks' = [k \in Locks |-> IF k \in keys THEN s ELSE locks[k]]

(* The end of a transaction, in either way.                                *)
Release(s) ==
  /\ locks' = [k \in Locks |-> IF locks[k] = s THEN Nil ELSE locks[k]]
  /\ call' = [call EXCEPT ![s] = Idle]
  /\ at' = [at EXCEPT ![s] = "idle"]
  /\ local' = [local EXCEPT ![s] = NoLocal]
  /\ writes' = [writes EXCEPT ![s] = NoWrites]

-----------------------------------------------------------------------------
(* A caller takes a connection.  The first statement of a claim reads the  *)
(* rows to bury from its snapshot.                                         *)
First == [ingest_webhook |-> "event", transition |-> "select",
          claim |-> "bury", complete |-> "end", reschedule |-> "end"]

Start(s, c) ==
  /\ at[s] = "idle"
  /\ c.method = "transition" => c.to \in Fsm!ALLOWED_TRANSITIONS[c.from]
  /\ call' = [call EXCEPT ![s] = c]
  /\ Goto(s, First[c.method])
  /\ local' = [local EXCEPT ![s].todo =
                 IF c.method = "claim"
                 THEN {e \in EventIds : R!Exhausted(e)} ELSE {}]
  /\ UNCHANGED <<tables, writes, locks>>

(* A lost connection, a statement that fails, or the victim of a deadlock: *)
(* the transaction rolls back.                                             *)
Abort(s) ==
  /\ at[s] # "idle"
  /\ Release(s)
  /\ UNCHANGED tables

Commit(s) ==
  /\ at[s] = "commit"
  /\ LET w == writes[s]
     IN  /\ stored' = IF w.event = Nil THEN stored
                      ELSE [stored EXCEPT ![EventOf[w.event]] = w.event]
         /\ status' = IF w.status = Nil THEN status
                      ELSE [status EXCEPT ![Payment(s)] = w.status]
         /\ referenced' = IF w.status = "SUBMITTED"
                          THEN referenced \cup {Payment(s)} ELSE referenced
         /\ job' = [e \in EventIds |->
                      IF w.jobs[e] = Nil THEN job[e] ELSE w.jobs[e]]
  /\ Release(s)

-----------------------------------------------------------------------------
(* ingest_webhook.  INSERT ... ON CONFLICT DO NOTHING waits for a session  *)
(* that is inserting the same key, and inserts nothing if it committed.    *)
InsertEvent(s) ==
  LET d == call[s].delivery
  IN  /\ at[s] = "event"
      /\ Acquire(s, Wants(s))
      /\ R!SameIdentity(Event(s), d)
      /\ writes' = IF stored[Event(s)] = Nil
                   THEN [writes EXCEPT ![s].event = d] ELSE writes
      /\ Goto(s, "select")
      /\ UNCHANGED <<tables, call, local>>

(* A known id under another reference or hash raises, and rolls back.      *)
RefuseEvent(s) ==
  /\ at[s] = "event"
  /\ ~R!SameIdentity(Event(s), call[s].delivery)
  /\ Release(s)
  /\ UNCHANGED tables

Proceeds(s, st) ==
  IF call[s].method = "transition" THEN st = call[s].from ELSE st \in R!Open

SelectPayment(s) ==
  LET st == IF Found(s) THEN status[Payment(s)] ELSE Nil
  IN  /\ at[s] = "select"
      /\ Acquire(s, Wants(s))
      /\ local' = [local EXCEPT ![s].seen = st]
      /\ Goto(s, IF Proceeds(s, st) THEN "update" ELSE "commit")
      /\ UNCHANGED <<tables, call, writes>>

(* UPDATE ... by transaction_id or idempotency_key alone.  The trigger of  *)
(* migration 002 compares the new status with the row's own.  A payment    *)
(* already in CALLBACK_RECEIVED is not updated by another callback.        *)
TriggerAllows(t, to) ==
  to = status[t] \/ to \in Fsm!ALLOWED_TRANSITIONS[status[t]]

UpdatePayment(s) ==
  /\ at[s] = "update"
  /\ Acquire(s, Wants(s))
  /\ IF local[s].seen = NewStatus(s)
     THEN UNCHANGED writes
     ELSE /\ TriggerAllows(Payment(s), NewStatus(s))
          /\ writes' = [writes EXCEPT ![s].status = NewStatus(s)]
  /\ Goto(s, IF call[s].method = "transition" THEN "commit" ELSE "outbox")
  /\ UNCHANGED <<tables, call, local>>

InsertJob(s) ==
  LET e == Event(s)
  IN  /\ at[s] = "outbox"
      /\ Acquire(s, Wants(s))
      /\ writes' = IF job[e].state = "NONE"
                   THEN [writes EXCEPT ![s].jobs[e] = R!NewJob] ELSE writes
      /\ Goto(s, "commit")
      /\ UNCHANGED <<tables, call, local>>

-----------------------------------------------------------------------------
(* claim_reconciliation_jobs.  The first UPDATE has no SKIP LOCKED: it     *)
(* reaches the rows of its snapshot in any order, waits for each, and when *)
(* it has the lock looks at the row again.                                 *)
ReachExhausted(s, e) ==
  /\ at[s] = "bury" /\ local[s].row = Nil /\ e \in local[s].todo
  /\ local' = [local EXCEPT ![s].todo = @ \ {e}, ![s].row = e]
  /\ UNCHANGED <<tables, call, at, writes, locks>>

Bury(s) ==
  LET e == local[s].row
  IN  /\ at[s] = "bury" /\ e # Nil
      /\ Acquire(s, Wants(s))
      /\ writes' = IF R!Exhausted(e)
                   THEN [writes EXCEPT ![s].jobs[e] = R!Buried(e)]
                   ELSE writes
      /\ local' = [local EXCEPT ![s].row = Nil]
      /\ UNCHANGED <<tables, call, at>>

StartLease(s) ==
  /\ at[s] = "bury" /\ local[s].row = Nil /\ local[s].todo = {}
  /\ local' = [local EXCEPT ![s].todo = {e \in EventIds : R!Due(e)}]
  /\ Goto(s, "lease")
  /\ UNCHANGED <<tables, call, writes, locks>>

(* FOR UPDATE SKIP LOCKED: a row somebody has locked is passed over, any   *)
(* other is locked and looked at again.                                    *)
LeaseLocks_Plain(e) == {}

LeaseLocks(e) == {<<"job", e>>}

Got(s) == {e \in EventIds : writes[s].jobs[e] # Nil
                            /\ writes[s].jobs[e].state = "PROCESSING"}

LeaseRow(s, e) ==
  /\ at[s] = "lease" /\ e \in local[s].todo
  /\ Cardinality(Got(s)) < Limit
  /\ Acquire(s, LeaseLocks(e))
  /\ writes' = IF R!Due(e)
               THEN [writes EXCEPT ![s].jobs[e] =
                       R!Leased(e, call[s].worker)]
               ELSE writes
  /\ local' = [local EXCEPT ![s].todo = @ \ {e}]
  /\ UNCHANGED <<tables, call, at>>

SkipRow(s, e) ==
  /\ at[s] = "lease" /\ e \in local[s].todo
  /\ \E k \in LeaseLocks(e) : ~Free(s, k)
  /\ local' = [local EXCEPT ![s].todo = @ \ {e}]
  /\ UNCHANGED <<tables, call, at, writes, locks>>

EndClaim(s) ==
  /\ at[s] = "lease"
  /\ local[s].todo = {} \/ Cardinality(Got(s)) = Limit
  /\ Goto(s, "commit")
  /\ UNCHANGED <<tables, call, local, writes, locks>>

(* complete_ and reschedule_reconciliation_job: one UPDATE by job id,      *)
(* whose WHERE is looked at again once the lock is there.                  *)
Outcome(c) == IF c.method = "complete" THEN R!Completed(c.job)
              ELSE R!Rescheduled(c.job)

EndJob(s) ==
  LET c == call[s]
  IN  /\ at[s] = "end"
      /\ Acquire(s, Wants(s))
      /\ writes' = IF R!Owns(c.worker, c.job)
                   THEN [writes EXCEPT ![s].jobs[c.job] = Outcome(c)]
                   ELSE writes
      /\ Goto(s, "commit")
      /\ UNCHANGED <<tables, call, local>>

-----------------------------------------------------------------------------
(* As in Reconciliation, a lease expires and a backoff elapses at any      *)
(* time; the clock does not wait for locks.                                *)
Clock ==
  /\ \E e \in EventIds :
       \/ job[e].state = "PROCESSING" /\ job' = [job EXCEPT ![e].expired = TRUE]
       \/ job[e].state = "PENDING" /\ job' = [job EXCEPT ![e].available = TRUE]
  /\ UNCHANGED <<status, referenced, stored, sessionVars>>

Statement(s) ==
  \/ InsertEvent(s) \/ RefuseEvent(s)
  \/ SelectPayment(s) \/ UpdatePayment(s) \/ InsertJob(s)
  \/ Bury(s) \/ StartLease(s) \/ EndClaim(s) \/ EndJob(s)
  \/ \E e \in EventIds : ReachExhausted(s, e) \/ LeaseRow(s, e) \/ SkipRow(s, e)

Next ==
  \/ \E s \in Sessions :
       \/ \E c \in Calls : Start(s, c)
       \/ Statement(s) \/ Commit(s) \/ Abort(s)
  \/ Clock

Spec == Init /\ [][Next]_vars

-----------------------------------------------------------------------------
(* What the method a session runs would do to the tables in one step.      *)
(* Where a statement found no row it locked none, and the call takes       *)
(* effect as of that statement: a callback may have found no payment       *)
(* before its reference was recorded, and complete or reschedule no lease  *)
(* before the worker was given one.  A claim leaves to the next one the    *)
(* leases that expired after its snapshots.                                *)
KeptUnmatched(d) ==
  /\ stored' = [stored EXCEPT ![EventOf[d]] = IF @ = Nil THEN d ELSE @]
  /\ UNCHANGED <<status, referenced, job>>

AtomicIngest(s) ==
  \/ R!Ingested(call[s].delivery)
  \/ local[s].seen = Nil /\ KeptUnmatched(call[s].delivery)

AtomicTransition(c) ==
  /\ IF R!CanTransition(c.txn, c.from, c.to)
     THEN /\ R!SetStatus(c.txn, c.to)
          /\ referenced' = IF c.to = "SUBMITTED"
                           THEN referenced \cup {c.txn} ELSE referenced
     ELSE UNCHANGED <<status, referenced>>
  /\ UNCHANGED <<stored, job>>

AtomicClaim(c) ==
  /\ \E buried, claimed \in SUBSET EventIds :
       R!Claimed(c.worker, buried, claimed)
  /\ UNCHANGED <<status, referenced, stored>>

AtomicEnd(c) ==
  /\ R!EndLease(c.worker, c.job, Outcome(c)) \/ UNCHANGED job
  /\ UNCHANGED <<status, referenced, stored>>

AtOnce(s) ==
  CASE call[s].method = "ingest_webhook" -> AtomicIngest(s)
    [] call[s].method = "transition" -> AtomicTransition(call[s])
    [] call[s].method = "claim" -> AtomicClaim(call[s])
    [] OTHER -> AtomicEnd(call[s])

(* The statements of concurrent calls interleave, connections die between  *)
(* them, and yet every method does what it would have done alone, at its   *)
(* commit ("Commit sanitized callback evidence, FSM state, and outbox work *)
(* as one unit", payment_lifecycle.py:121; docs/webhooks.md:58-62).  So    *)
(* Reconciliation may take it as one step.                                 *)
CallsAreAtomic ==
  [][/\ \A s \in Sessions : Commit(s) => AtOnce(s)
     /\ UNCHANGED tables \/ Clock \/ \E s \in Sessions : Commit(s)]_vars

(* Callbacks, polls and outbox workers lock events, payments and jobs in   *)
(* different methods.  Whoever waits holds nothing, or only the key of its *)
(* event while it waits for a payment; a holder of a payment never waits.  *)
(* So a cycle of waits can have no callback and no transition in it: only  *)
(* claims that bury the same jobs in different orders                      *)
(* (payment_lifecycle.py:258 has no SKIP LOCKED) can deadlock, and money   *)
(* status is never what PostgreSQL rolls back to break one.                *)
OnlyClaimsDeadlock ==
  \A s \in Sessions :
    Waiting(s) => \/ at[s] = "bury"
                  \/ \A k \in Locks :
                       Holds(s, k) => k[1] = "event" /\ at[s] = "select"
=============================================================================
