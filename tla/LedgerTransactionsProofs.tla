----------------------- MODULE LedgerTransactionsProofs ------------------------
(***************************************************************************)
(* The transactions of the ledger, for any sessions, payments, callbacks   *)
(* and workers.  The invariant is about one session at a time: what its    *)
(* statements have read and written, and the locks that keep it true.  A   *)
(* statement changes nothing but its own session, so the invariant of      *)
(* every other session stays; a commit changes only rows it has locked.    *)
(***************************************************************************)
EXTENDS LedgerTransactions, FiniteSetTheorems, TLAPS

Ingests(s) == call[s].method = "ingest_webhook"
Transits(s) == call[s].method = "transition"
Claims(s) == call[s].method = "claim"
Ends(s) == call[s].method \in {"complete", "reschedule"}

EventLock(e) == <<"event", e>>
PaymentLock(t) == <<"payment", t>>
JobLock(e) == <<"job", e>>

(* Which statements a method goes through. *)
Shape(s) ==
  /\ IF at[s] = "idle"
     THEN call[s] = Idle /\ writes[s] = NoWrites /\ local[s] = NoLocal
     ELSE call[s] \in Calls
  /\ at[s] \in {"event", "outbox"} => Ingests(s)
  /\ at[s] \in {"select", "update"} => Ingests(s) \/ Transits(s)
  /\ at[s] \in {"bury", "lease"} => Claims(s)
  /\ at[s] = "end" => Ends(s)
  /\ Transits(s) => call[s].to \in Fsm!ALLOWED_TRANSITIONS[call[s].from]

(* Which locks a session can hold where it is. *)
LocksHeld(s) ==
  /\ \A e \in EventIds : Holds(s, EventLock(e)) =>
       /\ Ingests(s) /\ Event(s) = e
       /\ at[s] \in {"select", "update", "outbox", "commit"}
  /\ \A t \in Txns : Holds(s, PaymentLock(t)) =>
       /\ Ingests(s) \/ Transits(s)
       /\ Payment(s) = t
       /\ at[s] \in {"update", "outbox", "commit"}
  /\ \A e \in EventIds : Holds(s, JobLock(e)) =>
       \/ /\ Claims(s) /\ at[s] \in {"bury", "lease", "commit"}
          /\ job[e].state # "NONE"
       \/ /\ Ends(s) /\ at[s] = "commit"
          /\ job[e].state # "NONE"
       \/ /\ Ingests(s) /\ at[s] = "commit" /\ Event(s) = e
          /\ job[e].state = "NONE" /\ local[s].seen \in R!Open

(* What a claim goes through was a job when its snapshot was taken. *)
CandidatesKnown(s) ==
  at[s] \in {"bury", "lease"} =>
    \A e \in EventIds :
      e \in local[s].todo \/ e = local[s].row => job[e].state # "NONE"

(* Past its first statement a callback has inserted its event, and holds   *)
(* its key, or has found the same delivery.                                *)
EventKept(s) ==
  /\ Ingests(s) /\ at[s] \in {"select", "update", "outbox", "commit"} =>
       \/ /\ stored[Event(s)] = Nil /\ writes[s].event = call[s].delivery
          /\ Holds(s, EventLock(Event(s)))
       \/ stored[Event(s)] = call[s].delivery /\ writes[s].event = Nil
  /\ at[s] \in {"event", "bury", "lease", "end"} => writes[s].event = Nil
  /\ ~Ingests(s) => writes[s].event = Nil

(* The status a session has selected is the row's as long as it holds the  *)
(* row, and the status it has written is the one it calls for.             *)
StatusKept(s) ==
  /\ at[s] \in {"update", "outbox"} => Proceeds(s, local[s].seen)
  /\ Transits(s) /\ at[s] = "commit" => local[s].seen # Nil
  /\ /\ Ingests(s) \/ Transits(s)
     /\ at[s] \in {"update", "outbox", "commit"} /\ local[s].seen # Nil
     => /\ Holds(s, PaymentLock(Payment(s)))
        /\ status[Payment(s)] = local[s].seen
        /\ Ingests(s) => Payment(s) \in referenced
  /\ writes[s].status =
       IF /\ Ingests(s) \/ Transits(s)
          /\ at[s] \in {"outbox", "commit"}
          /\ Proceeds(s, local[s].seen)
          /\ local[s].seen # NewStatus(s)
       THEN NewStatus(s) ELSE Nil

(* The jobs a session has written are locked, and what it has written of   *)
(* each is still what its method makes of the row.                         *)
JobsKept(s) ==
  /\ \A e \in EventIds : writes[s].jobs[e] # Nil => Holds(s, JobLock(e))
  /\ Ingests(s) /\ at[s] = "commit" /\ local[s].seen \in R!Open =>
       writes[s].jobs[Event(s)] =
         IF job[Event(s)].state = "NONE" THEN R!NewJob ELSE Nil
  /\ Claims(s) => \A e \in EventIds : writes[s].jobs[e] # Nil =>
       \/ R!Exhausted(e) /\ writes[s].jobs[e] = R!Buried(e)
       \/ R!Due(e) /\ writes[s].jobs[e] = R!Leased(e, call[s].worker)
  /\ Ends(s) => \A e \in EventIds : writes[s].jobs[e] # Nil =>
       /\ e = call[s].job /\ R!Owns(call[s].worker, e)
       /\ writes[s].jobs[e] = Outcome(call[s])

GotBounded(s) ==
  Claims(s) => /\ IsFiniteSet(Got(s)) /\ Cardinality(Got(s)) <= Limit
               /\ at[s] = "bury" => Got(s) = {}

SessionInv(s) ==
  /\ Shape(s) /\ LocksHeld(s) /\ CandidatesKnown(s)
  /\ EventKept(s) /\ StatusKept(s) /\ JobsKept(s) /\ GotBounded(s)

(* A job that waits has attempts left. *)
PendingHasAttempts ==
  \A e \in EventIds : job[e].state = "PENDING" => job[e].attempts < MaxAttempts

IInv ==
  /\ TypeOK
  /\ PendingHasAttempts
  /\ \A s \in Sessions : SessionInv(s)

-----------------------------------------------------------------------------
(* The arguments of each method. *)
LEMMA Arguments ==
  ASSUME TypeOK, NEW s \in Sessions
  PROVE  /\ Ingests(s) => /\ call[s].delivery \in Deliveries
                          /\ Event(s) \in EventIds /\ Payment(s) \in Txns
                          /\ Payment(s) = TxnOf[call[s].delivery]
                          /\ NewStatus(s) = "CALLBACK_RECEIVED"
         /\ Transits(s) => /\ call[s].txn \in Txns
                           /\ call[s].from \in Fsm!Status
                           /\ call[s].to \in Fsm!Status
                           /\ Payment(s) = call[s].txn
                           /\ NewStatus(s) = call[s].to
         /\ Claims(s) => call[s].worker \in Workers
         /\ Ends(s) => call[s].worker \in Workers /\ call[s].job \in EventIds
<1>1. call[s] \in Calls \cup {Idle}
  BY DEF TypeOK
<1>2. Ingests(s) => call[s].delivery \in Deliveries
  BY <1>1 DEF Calls, Idle, Ingests
<1>3. Transits(s) => /\ call[s].txn \in Txns
                     /\ call[s].from \in Fsm!Status /\ call[s].to \in Fsm!Status
  BY <1>1 DEF Calls, Idle, Transits
<1>4. Claims(s) => call[s].worker \in Workers
  BY <1>1 DEF Calls, Idle, Claims
<1>5. Ends(s) => call[s].worker \in Workers /\ call[s].job \in EventIds
  BY <1>1 DEF Calls, Idle, Ends
<1>6. Ingests(s) => /\ Event(s) \in EventIds /\ Payment(s) \in Txns
                    /\ Payment(s) = TxnOf[call[s].delivery]
                    /\ NewStatus(s) = "CALLBACK_RECEIVED"
  BY <1>2, LedgerAssumption DEF Ingests, Event, Payment, NewStatus
<1>7. Transits(s) => Payment(s) = call[s].txn /\ NewStatus(s) = call[s].to
  BY DEF Transits, Payment, NewStatus
<1>8. QED
  BY <1>2, <1>3, <1>4, <1>5, <1>6, <1>7

LEMMA LocksAre ==
  /\ \A e \in EventIds : EventLock(e) \in Locks /\ JobLock(e) \in Locks
  /\ \A t \in Txns : PaymentLock(t) \in Locks
  BY DEF EventLock, JobLock, PaymentLock, Locks

-----------------------------------------------------------------------------
(* A step of one session that does not touch the tables: the invariant of  *)
(* every other session stays.                                              *)
OnlySession(s) ==
  /\ UNCHANGED tables
  /\ \A u \in Sessions \ {s} :
       /\ call'[u] = call[u] /\ at'[u] = at[u]
       /\ local'[u] = local[u] /\ writes'[u] = writes[u]
  /\ \A k \in Locks : \A u \in Sessions \ {s} : Holds(u, k)' <=> Holds(u, k)

(* What the others may do to the rows without breaking the invariant of a  *)
(* session: leave alone what it has locked, but for the clock.             *)
RowsKept(u) ==
  /\ \A e \in EventIds :
       /\ stored[e] # Nil \/ Holds(u, EventLock(e)) => stored'[e] = stored[e]
       /\ job[e].state # "NONE" => job'[e].state # "NONE"
       /\ Holds(u, JobLock(e)) =>
            /\ job[e].state = "NONE" => job'[e].state = "NONE"
            /\ R!Exhausted(e) => R!Exhausted(e)' /\ R!Buried(e)' = R!Buried(e)
            /\ R!Due(e) =>
                 R!Due(e)' /\ \A w \in Workers : R!Leased(e, w)' = R!Leased(e, w)
            /\ \A w \in Workers : R!Owns(w, e) =>
                 /\ R!Owns(w, e)'
                 /\ R!Completed(e)' = R!Completed(e)
                 /\ R!Rescheduled(e)' = R!Rescheduled(e)
  /\ \A t \in Txns : Holds(u, PaymentLock(t)) => status'[t] = status[t]
  /\ referenced \subseteq referenced'

LEMMA OthersKept ==
  ASSUME NEW u \in Sessions, TypeOK, SessionInv(u), RowsKept(u),
         call'[u] = call[u], at'[u] = at[u],
         local'[u] = local[u], writes'[u] = writes[u],
         \A k \in Locks : Holds(u, k)' <=> Holds(u, k)
  PROVE  SessionInv(u)'
<1>1. /\ Ingests(u)' <=> Ingests(u)
      /\ Transits(u)' <=> Transits(u)
      /\ Claims(u)' <=> Claims(u)
      /\ Ends(u)' <=> Ends(u)
      /\ Event(u)' = Event(u) /\ Payment(u)' = Payment(u)
      /\ NewStatus(u)' = NewStatus(u) /\ Got(u)' = Got(u)
      /\ \A st : Proceeds(u, st)' <=> Proceeds(u, st)
  BY DEF Ingests, Transits, Claims, Ends, Event, Payment, NewStatus, Got,
         Proceeds
<1>2. /\ Shape(u) /\ LocksHeld(u) /\ CandidatesKnown(u) /\ EventKept(u)
      /\ StatusKept(u) /\ JobsKept(u) /\ GotBounded(u)
  BY DEF SessionInv
<1>3. /\ Ingests(u) => /\ call[u].delivery \in Deliveries
                       /\ Event(u) \in EventIds
      /\ Ingests(u) \/ Transits(u) => Payment(u) \in Txns
      /\ Claims(u) => call[u].worker \in Workers
      /\ Ends(u) => call[u].worker \in Workers /\ call[u].job \in EventIds
  BY Arguments
<1>4. \A e \in EventIds : /\ Holds(u, EventLock(e))' <=> Holds(u, EventLock(e))
                          /\ Holds(u, JobLock(e))' <=> Holds(u, JobLock(e))
  BY LocksAre DEF EventLock, JobLock
<1>5. \A t \in Txns : Holds(u, PaymentLock(t))' <=> Holds(u, PaymentLock(t))
  BY LocksAre DEF PaymentLock
<1>6. Shape(u)'
  BY <1>1, <1>2 DEF Shape
<1>7. \A e \in EventIds : /\ job[e].state # "NONE" => job'[e].state # "NONE"
                          /\ Holds(u, JobLock(e)) /\ job[e].state = "NONE" =>
                               job'[e].state = "NONE"
  BY DEF RowsKept
<1>8. LocksHeld(u)'
  BY <1>1, <1>2, <1>4, <1>5, <1>7 DEF LocksHeld, EventLock, JobLock, PaymentLock
<1>9. CandidatesKnown(u)'
  BY <1>2, <1>7 DEF CandidatesKnown
<1>10. EventKept(u)'
  <2>1. \A e \in EventIds :
          stored[e] # Nil \/ Holds(u, EventLock(e)) => stored'[e] = stored[e]
    BY DEF RowsKept
  <2>2. Ingests(u) => call[u].delivery # Nil
    BY <1>3, LedgerAssumption
  <2>3. QED
    BY <1>1, <1>2, <1>3, <1>4, <2>1, <2>2 DEF EventKept
<1>11. StatusKept(u)'
  <2>1. /\ \A t \in Txns : Holds(u, PaymentLock(t)) => status'[t] = status[t]
        /\ referenced \subseteq referenced'
    BY DEF RowsKept
  <2>2. /\ Ingests(u) \/ Transits(u)
        /\ at[u] \in {"update", "outbox", "commit"} /\ local[u].seen # Nil
        => /\ locks'[PaymentLock(Payment(u))] = u
           /\ status'[Payment(u)] = local[u].seen
           /\ Ingests(u) => Payment(u) \in referenced'
    BY <1>2, <1>3, <1>5, <2>1 DEF StatusKept, Holds
  <2>3. QED
    BY <1>1, <1>2, <2>2 DEF StatusKept, Holds, PaymentLock
<1>12. JobsKept(u)'
  <2>1. \A e \in EventIds : writes[u].jobs[e] # Nil => Holds(u, JobLock(e))
    BY <1>2 DEF JobsKept
  <2>2. ASSUME Ingests(u), at[u] = "commit", local[u].seen \in R!Open
        PROVE  writes[u].jobs[Event(u)] =
                 IF job'[Event(u)].state = "NONE" THEN R!NewJob ELSE Nil
    <3>1. writes[u].jobs[Event(u)] =
            IF job[Event(u)].state = "NONE" THEN R!NewJob ELSE Nil
      BY <1>2, <2>2 DEF JobsKept
    <3>2. R!NewJob # Nil
      <4>1. R!NewJob \in R!Job
        BY LedgerAssumption DEF R!NewJob, R!Job, R!JobStates
      <4>2. QED
        BY <4>1, LedgerAssumption
    <3>3. QED
      BY <1>3, <1>7, <2>1, <2>2, <3>1, <3>2
  <2>3. ASSUME Claims(u), NEW e \in EventIds, writes[u].jobs[e] # Nil
        PROVE  \/ R!Exhausted(e)' /\ writes[u].jobs[e] = R!Buried(e)'
               \/ R!Due(e)' /\ writes[u].jobs[e] = R!Leased(e, call[u].worker)'
    <3>1. \/ R!Exhausted(e) /\ writes[u].jobs[e] = R!Buried(e)
          \/ R!Due(e) /\ writes[u].jobs[e] = R!Leased(e, call[u].worker)
      BY <1>2, <2>3 DEF JobsKept
    <3>2. /\ R!Exhausted(e) => R!Exhausted(e)' /\ R!Buried(e)' = R!Buried(e)
          /\ R!Due(e) =>
               R!Due(e)' /\ \A w \in Workers : R!Leased(e, w)' = R!Leased(e, w)
      BY <2>1, <2>3 DEF RowsKept
    <3>3. QED
      BY <1>3, <2>3, <3>1, <3>2
  <2>4. ASSUME Ends(u), NEW e \in EventIds, writes[u].jobs[e] # Nil
        PROVE  /\ e = call[u].job /\ R!Owns(call[u].worker, e)'
               /\ writes[u].jobs[e] = Outcome(call[u])'
    <3>1. /\ e = call[u].job /\ R!Owns(call[u].worker, e)
          /\ writes[u].jobs[e] = Outcome(call[u])
      BY <1>2, <2>4 DEF JobsKept
    <3>2. \A w \in Workers : R!Owns(w, e) =>
            /\ R!Owns(w, e)'
            /\ R!Completed(e)' = R!Completed(e)
            /\ R!Rescheduled(e)' = R!Rescheduled(e)
      BY <2>1, <2>4 DEF RowsKept
    <3>3. R!Completed(e)' = R!Completed(e) /\ R!Rescheduled(e)' = R!Rescheduled(e)
          /\ R!Owns(call[u].worker, e)'
      BY <1>3, <2>4, <3>1, <3>2
    <3>4. QED
      BY <3>1, <3>3 DEF Outcome
  <2>5. QED
    BY <1>1, <1>4, <2>1, <2>2, <2>3, <2>4 DEF JobsKept, JobLock
<1>13. GotBounded(u)'
  BY <1>1, <1>2 DEF GotBounded
<1>14. QED
  BY <1>6, <1>8, <1>9, <1>10, <1>11, <1>12, <1>13 DEF SessionInv

(* A row that nobody changes reads the same. *)
LEMMA SameRow ==
  ASSUME NEW e, job'[e] = job[e]
  PROVE  /\ R!Exhausted(e)' <=> R!Exhausted(e)
         /\ R!Due(e)' <=> R!Due(e)
         /\ R!Buried(e)' = R!Buried(e)
         /\ R!Completed(e)' = R!Completed(e)
         /\ R!Rescheduled(e)' = R!Rescheduled(e)
         /\ \A w : R!Leased(e, w)' = R!Leased(e, w)
         /\ \A w : R!Owns(w, e)' <=> R!Owns(w, e)
  BY DEF R!Exhausted, R!Due, R!Buried, R!Leased, R!Owns, R!Completed, R!Rescheduled

LEMMA OnlySessionKeeps ==
  ASSUME IInv, NEW s \in Sessions, OnlySession(s), TypeOK', SessionInv(s)'
  PROVE  IInv'
<1>1. UNCHANGED <<status, referenced, stored, job>>
  BY DEF OnlySession, tables
<1>2. ASSUME NEW u \in Sessions
      PROVE  SessionInv(u)'
  <2>1. CASE u = s
    BY <2>1
  <2>2. CASE u # s
    <3>1. RowsKept(u)
      BY <1>1, SameRow DEF RowsKept
    <3>2. QED
      BY <2>2, <3>1, OthersKept DEF OnlySession, IInv
  <2>3. QED
    BY <2>1, <2>2
<1>3. PendingHasAttempts'
  BY <1>1 DEF IInv, PendingHasAttempts
<1>4. QED
  BY <1>2, <1>3 DEF IInv

(* Locks are taken from nobody. *)
LEMMA AcquireHolds ==
  ASSUME TypeOK, NEW s \in Sessions, NEW keys \in SUBSET Locks, Acquire(s, keys)
  PROVE  /\ locks' \in [Locks -> Sessions \cup {Nil}]
         /\ \A k \in Locks : Holds(s, k)' <=> Holds(s, k) \/ k \in keys
         /\ \A k \in Locks : \A u \in Sessions \ {s} : Holds(u, k)' <=> Holds(u, k)
<1>1. /\ locks \in [Locks -> Sessions \cup {Nil}]
      /\ locks' = [k \in Locks |-> IF k \in keys THEN s ELSE locks[k]]
      /\ \A k \in keys : locks[k] \in {s, Nil}
  BY DEF TypeOK, Acquire, Free
<1>2. locks' \in [Locks -> Sessions \cup {Nil}]
  BY <1>1
<1>3. \A k \in Locks : Holds(s, k)' <=> Holds(s, k) \/ k \in keys
  BY <1>1 DEF Holds
<1>4. \A k \in Locks : \A u \in Sessions \ {s} : Holds(u, k)' <=> Holds(u, k)
  BY <1>1, LedgerAssumption DEF Holds
<1>5. QED
  BY <1>2, <1>3, <1>4

LEMMA WantsAreLocks ==
  ASSUME IInv, NEW s \in Sessions
  PROVE  Wants(s) \in SUBSET Locks
<1>1. Shape(s) /\ TypeOK
  BY DEF IInv, SessionInv
<1>2. CASE at[s] \in {"event", "outbox"}
  <2>1. Event(s) \in EventIds
    BY <1>1, <1>2, Arguments DEF Shape
  <2>2. <<"event", Event(s)>> \in Locks /\ <<"job", Event(s)>> \in Locks
    BY <2>1 DEF Locks
  <2>3. QED
    BY <1>2, <2>2 DEF Wants, OutboxLocks
<1>3. CASE at[s] \in {"select", "update"}
  <2>1. Payment(s) \in Txns
    BY <1>1, <1>3, Arguments DEF Shape
  <2>2. <<"payment", Payment(s)>> \in Locks
    BY <2>1 DEF Locks
  <2>3. QED
    BY <1>3, <2>2 DEF Wants, SelectLocks
<1>4. CASE at[s] = "bury"
  <2>1. local[s].row \in EventIds \cup {Nil}
    BY <1>1 DEF TypeOK
  <2>2. local[s].row # Nil => <<"job", local[s].row>> \in Locks
    BY <2>1 DEF Locks
  <2>3. QED
    BY <1>4, <2>2 DEF Wants
<1>5. CASE at[s] = "end"
  <2>1. call[s].job \in EventIds
    BY <1>1, <1>5, Arguments DEF Shape
  <2>2. <<"job", call[s].job>> \in Locks
    BY <2>1 DEF Locks
  <2>3. QED
    BY <1>5, <2>2 DEF Wants
<1>6. CASE at[s] \notin {"event", "outbox", "select", "update", "bury", "end"}
  BY <1>6 DEF Wants
<1>7. QED
  BY <1>2, <1>3, <1>4, <1>5, <1>6

(* An idle session has no part in anything. *)
LEMMA IdleKeeps ==
  ASSUME NEW s \in Sessions, at[s] = "idle", call[s] = Idle,
         writes[s] = NoWrites, local[s] = NoLocal,
         \A k \in Locks : ~Holds(s, k)
  PROVE  SessionInv(s)
<1>1. ~Ingests(s) /\ ~Transits(s) /\ ~Claims(s) /\ ~Ends(s)
  BY DEF Idle, Ingests, Transits, Claims, Ends
<1>2. Shape(s) /\ CandidatesKnown(s) /\ GotBounded(s)
  BY <1>1 DEF Shape, CandidatesKnown, GotBounded
<1>3. LocksHeld(s)
  BY LocksAre DEF LocksHeld
<1>4. EventKept(s) /\ StatusKept(s) /\ JobsKept(s)
  BY <1>1 DEF EventKept, StatusKept, JobsKept, NoWrites
<1>5. QED
  BY <1>2, <1>3, <1>4 DEF SessionInv

LEMMA InitInv == Init => IInv
<1> SUFFICES ASSUME Init
             PROVE  IInv
  OBVIOUS
<1>1. /\ status = [t \in Txns |-> "PENDING_APPROVAL"] /\ referenced = {}
      /\ stored = [e \in EventIds |-> Nil]
      /\ job = [e \in EventIds |-> R!NoJob]
      /\ call = [s \in Sessions |-> Idle] /\ at = [s \in Sessions |-> "idle"]
      /\ local = [s \in Sessions |-> NoLocal]
      /\ writes = [s \in Sessions |-> NoWrites]
      /\ locks = [k \in Locks |-> Nil]
  BY DEF Init
<1>2. R!NoJob \in R!Job
  BY LedgerAssumption DEF R!NoJob, R!Job, R!JobStates
<1>3. NoLocal \in [seen : Fsm!Status \cup {Nil}, todo : SUBSET EventIds,
                   row : EventIds \cup {Nil}]
  BY DEF NoLocal
<1>4. NoWrites \in [event : Deliveries \cup {Nil}, status : Fsm!Status \cup {Nil},
                    jobs : [EventIds -> R!Job \cup {Nil}]]
  BY DEF NoWrites
<1>5. "PENDING_APPROVAL" \in Fsm!Status
  BY DEF Fsm!Status
<1>6. TypeOK
  BY <1>1, <1>2, <1>3, <1>4, <1>5 DEF TypeOK
<1>7. PendingHasAttempts
  BY <1>1 DEF PendingHasAttempts, R!NoJob
<1>8. ASSUME NEW s \in Sessions
      PROVE  SessionInv(s)
  <2>1. \A k \in Locks : ~Holds(s, k)
    BY <1>1, LedgerAssumption DEF Holds
  <2>2. QED
    BY <1>1, <2>1, IdleKeeps
<1>9. QED
  BY <1>6, <1>7, <1>8 DEF IInv

(* The end of a transaction, as far as the session is concerned. *)
LEMMA ReleaseKeeps ==
  ASSUME IInv, NEW s \in Sessions, Release(s)
  PROVE  /\ SessionInv(s)'
         /\ call' \in [Sessions -> Calls \cup {Idle}]
         /\ at' \in [Sessions -> {"idle", "event", "select", "update", "outbox",
                                  "bury", "lease", "end", "commit"}]
         /\ local' \in [Sessions -> [seen : Fsm!Status \cup {Nil},
                                     todo : SUBSET EventIds,
                                     row  : EventIds \cup {Nil}]]
         /\ writes' \in [Sessions -> [event  : Deliveries \cup {Nil},
                                      status : Fsm!Status \cup {Nil},
                                      jobs   : [EventIds -> R!Job \cup {Nil}]]]
         /\ locks' \in [Locks -> Sessions \cup {Nil}]
         /\ \A u \in Sessions \ {s} :
              /\ call'[u] = call[u] /\ at'[u] = at[u]
              /\ local'[u] = local[u] /\ writes'[u] = writes[u]
         /\ \A k \in Locks : \A u \in Sessions \ {s} : Holds(u, k)' <=> Holds(u, k)
<1>1. /\ locks' = [k \in Locks |-> IF locks[k] = s THEN Nil ELSE locks[k]]
      /\ call' = [call EXCEPT ![s] = Idle]
      /\ at' = [at EXCEPT ![s] = "idle"]
      /\ local' = [local EXCEPT ![s] = NoLocal]
      /\ writes' = [writes EXCEPT ![s] = NoWrites]
  BY DEF Release
<1>2. /\ call \in [Sessions -> Calls \cup {Idle}]
      /\ at \in [Sessions -> {"idle", "event", "select", "update", "outbox",
                              "bury", "lease", "end", "commit"}]
      /\ local \in [Sessions -> [seen : Fsm!Status \cup {Nil},
                                 todo : SUBSET EventIds,
                                 row  : EventIds \cup {Nil}]]
      /\ writes \in [Sessions -> [event  : Deliveries \cup {Nil},
                                  status : Fsm!Status \cup {Nil},
                                  jobs   : [EventIds -> R!Job \cup {Nil}]]]
      /\ locks \in [Locks -> Sessions \cup {Nil}]
  BY DEF IInv, TypeOK
<1>3. call' \in [Sessions -> Calls \cup {Idle}] /\ call'[s] = Idle
  BY <1>1, <1>2
<1>4. /\ at' \in [Sessions -> {"idle", "event", "select", "update", "outbox",
                               "bury", "lease", "end", "commit"}]
      /\ at'[s] = "idle"
  BY <1>1, <1>2
<1>5. local' \in [Sessions -> [seen : Fsm!Status \cup {Nil},
                               todo : SUBSET EventIds,
                               row  : EventIds \cup {Nil}]]
      /\ local'[s] = NoLocal
  <2>1. NoLocal \in [seen : Fsm!Status \cup {Nil}, todo : SUBSET EventIds,
                     row : EventIds \cup {Nil}]
    BY DEF NoLocal
  <2>2. QED
    BY <1>1, <1>2, <2>1
<1>6. /\ writes' \in [Sessions -> [event  : Deliveries \cup {Nil},
                                   status : Fsm!Status \cup {Nil},
                                   jobs   : [EventIds -> R!Job \cup {Nil}]]]
      /\ writes'[s] = NoWrites
  <2>1. NoWrites \in [event : Deliveries \cup {Nil},
                      status : Fsm!Status \cup {Nil},
                      jobs : [EventIds -> R!Job \cup {Nil}]]
    BY DEF NoWrites
  <2>2. QED
    BY <1>1, <1>2, <2>1
<1>7. locks' \in [Locks -> Sessions \cup {Nil}]
  BY <1>1, <1>2
<1>8. \A k \in Locks : ~Holds(s, k)'
  BY <1>1, LedgerAssumption DEF Holds
<1>9. \A k \in Locks : \A u \in Sessions \ {s} : Holds(u, k)' <=> Holds(u, k)
  BY <1>1, LedgerAssumption DEF Holds
<1>10. SessionInv(s)'
  <2>1. ~Ingests(s)' /\ ~Transits(s)' /\ ~Claims(s)' /\ ~Ends(s)'
    BY <1>3 DEF Idle, Ingests, Transits, Claims, Ends
  <2>2. Shape(s)' /\ CandidatesKnown(s)' /\ GotBounded(s)'
    BY <1>3, <1>4, <1>5, <1>6, <2>1 DEF Shape, CandidatesKnown, GotBounded
  <2>3. LocksHeld(s)'
    BY <1>8, LocksAre DEF LocksHeld, EventLock, JobLock, PaymentLock
  <2>4. EventKept(s)' /\ StatusKept(s)' /\ JobsKept(s)'
    BY <1>4, <1>6, <2>1 DEF EventKept, StatusKept, JobsKept, NoWrites
  <2>5. QED
    BY <2>2, <2>3, <2>4 DEF SessionInv
<1>11. \A u \in Sessions \ {s} :
         /\ call'[u] = call[u] /\ at'[u] = at[u]
         /\ local'[u] = local[u] /\ writes'[u] = writes[u]
  BY <1>1, <1>2
<1>12. QED
  BY <1>3, <1>4, <1>5, <1>6, <1>7, <1>9, <1>10, <1>11

LEMMA AbortInv ==
  ASSUME IInv, NEW s \in Sessions, Abort(s) \/ RefuseEvent(s)
  PROVE  IInv'
<1>1. Release(s) /\ UNCHANGED tables
  BY DEF Abort, RefuseEvent
<1>2. OnlySession(s)
  BY <1>1, ReleaseKeeps DEF OnlySession
<1>3. TypeOK'
  <2>1. /\ status' \in [Txns -> Fsm!Status] /\ referenced' \in SUBSET Txns
        /\ stored' \in [EventIds -> Deliveries \cup {Nil}]
        /\ job' \in [EventIds -> R!Job]
    BY <1>1 DEF IInv, TypeOK, tables
  <2>2. QED
    BY <1>1, <2>1, ReleaseKeeps DEF TypeOK
<1>4. QED
  BY <1>1, <1>2, <1>3, ReleaseKeeps, OnlySessionKeeps

-----------------------------------------------------------------------------
(* A call begins. *)
LEMMA StartInv ==
  ASSUME IInv, NEW s \in Sessions, NEW c \in Calls, Start(s, c)
  PROVE  IInv'
<1> DEFINE todo == IF c.method = "claim" THEN {e \in EventIds : R!Exhausted(e)}
                   ELSE {}
<1>1. /\ at[s] = "idle"
      /\ c.method = "transition" => c.to \in Fsm!ALLOWED_TRANSITIONS[c.from]
      /\ call' = [call EXCEPT ![s] = c]
      /\ at' = [at EXCEPT ![s] = First[c.method]]
      /\ local' = [local EXCEPT ![s].todo = todo]
      /\ UNCHANGED <<status, referenced, stored, job, writes, locks>>
  BY DEF Start, Goto, tables
<1>2. c.method \in {"ingest_webhook", "transition", "claim", "complete", "reschedule"}
  BY DEF Calls
<1>3. First[c.method] = IF c.method = "ingest_webhook" THEN "event"
                        ELSE IF c.method = "transition" THEN "select"
                        ELSE IF c.method = "claim" THEN "bury" ELSE "end"
  BY <1>2 DEF First
<1>4. /\ call \in [Sessions -> Calls \cup {Idle}]
      /\ at \in [Sessions -> {"idle", "event", "select", "update", "outbox",
                              "bury", "lease", "end", "commit"}]
      /\ local \in [Sessions -> [seen : Fsm!Status \cup {Nil},
                                 todo : SUBSET EventIds,
                                 row  : EventIds \cup {Nil}]]
  BY DEF IInv, TypeOK
<1>5. TypeOK'
  <2>1. call' \in [Sessions -> Calls \cup {Idle}]
    BY <1>1, <1>4
  <2>2. at' \in [Sessions -> {"idle", "event", "select", "update", "outbox",
                              "bury", "lease", "end", "commit"}]
    BY <1>1, <1>3, <1>4
  <2>3. todo \in SUBSET EventIds
    OBVIOUS
  <2> HIDE DEF todo
  <2>4. local' \in [Sessions -> [seen : Fsm!Status \cup {Nil},
                                 todo : SUBSET EventIds,
                                 row  : EventIds \cup {Nil}]]
    BY <1>1, <1>4, <2>3
  <2>5. QED
    BY <1>1, <2>1, <2>2, <2>4 DEF IInv, TypeOK
<1>6. OnlySession(s)
  BY <1>1, <1>4 DEF OnlySession, tables, Holds
<1>7. /\ call'[s] = c /\ at'[s] = First[c.method] /\ writes'[s] = NoWrites
      /\ local'[s].todo = todo /\ job' = job
      /\ \A k \in Locks : ~Holds(s, k)'
  <2>1. writes[s] = NoWrites
    BY <1>1 DEF IInv, SessionInv, Shape
  <2>2. \A k \in Locks : ~Holds(s, k)
    <3>1. call[s] = Idle
      BY <1>1 DEF IInv, SessionInv, Shape
    <3>2. ~Ingests(s) /\ ~Transits(s) /\ ~Claims(s) /\ ~Ends(s)
      BY <3>1 DEF Idle, Ingests, Transits, Claims, Ends
    <3>3. LocksHeld(s)
      BY DEF IInv, SessionInv
    <3>4. QED
      BY <3>2, <3>3 DEF LocksHeld, Locks, EventLock, JobLock, PaymentLock
  <2>3. \A k \in Locks : ~Holds(s, k)'
    BY <1>1, <2>2 DEF Holds
  <2> HIDE DEF todo
  <2>4. QED
    BY <1>1, <1>4, <2>1, <2>3
<1>8. /\ Ingests(s)' <=> c.method = "ingest_webhook"
      /\ Transits(s)' <=> c.method = "transition"
      /\ Claims(s)' <=> c.method = "claim"
      /\ Ends(s)' <=> c.method \in {"complete", "reschedule"}
  BY <1>7 DEF Ingests, Transits, Claims, Ends
<1>9. Shape(s)'
  BY <1>1, <1>2, <1>3, <1>7, <1>8 DEF Shape
<1>10. LocksHeld(s)'
  BY <1>7, LocksAre DEF LocksHeld, EventLock, JobLock, PaymentLock
<1>11. CandidatesKnown(s)'
  <2>1. local'[s].row = Nil
    <3>1. local[s].row = Nil
      BY <1>1 DEF IInv, SessionInv, Shape, NoLocal
    <3>2. QED
      BY <1>1, <1>4, <3>1
  <2>2. \A e \in todo : job[e].state # "NONE"
    BY DEF R!Exhausted
  <2> HIDE DEF todo
  <2>3. QED
    BY <1>7, <2>1, <2>2, LedgerAssumption DEF CandidatesKnown
<1>12. EventKept(s)' /\ StatusKept(s)'
  BY <1>2, <1>3, <1>7, <1>8 DEF EventKept, StatusKept, NoWrites
<1>13. JobsKept(s)'
  BY <1>2, <1>3, <1>7, <1>8 DEF JobsKept, NoWrites
<1>14. GotBounded(s)'
  <2>1. Got(s)' = {}
    BY <1>7 DEF Got, NoWrites
  <2>2. QED
    BY <2>1, FS_EmptySet, LedgerAssumption DEF GotBounded
<1>15. SessionInv(s)'
  BY <1>9, <1>10, <1>11, <1>12, <1>13, <1>14 DEF SessionInv
<1>16. QED
  BY <1>5, <1>6, <1>15, OnlySessionKeeps

-----------------------------------------------------------------------------
(* What every statement of a method has in common: it takes locks, and     *)
(* changes what the session alone can see.                                 *)
LocalType == [seen : Fsm!Status \cup {Nil}, todo : SUBSET EventIds,
              row : EventIds \cup {Nil}]

WritesType == [event : Deliveries \cup {Nil}, status : Fsm!Status \cup {Nil},
               jobs : [EventIds -> R!Job \cup {Nil}]]

Statements == {"idle", "event", "select", "update", "outbox",
               "bury", "lease", "end", "commit"}

OwnState(s) ==
  /\ at' = [at EXCEPT ![s] = at'[s]] /\ at'[s] \in Statements
  /\ local' = [local EXCEPT ![s] = local'[s]] /\ local'[s] \in LocalType
  /\ writes' = [writes EXCEPT ![s] = writes'[s]] /\ writes'[s] \in WritesType
  /\ UNCHANGED <<tables, call>>

LEMMA StatementStep ==
  ASSUME IInv, NEW s \in Sessions, OwnState(s),
         NEW keys \in SUBSET Locks, Acquire(s, keys)
  PROVE  /\ TypeOK' /\ OnlySession(s) /\ call'[s] = call[s]
         /\ \A k \in Locks : Holds(s, k)' <=> Holds(s, k) \/ k \in keys
<1>1. /\ call \in [Sessions -> Calls \cup {Idle}]
      /\ at \in [Sessions -> Statements]
      /\ local \in [Sessions -> LocalType]
      /\ writes \in [Sessions -> WritesType]
  BY DEF IInv, TypeOK, Statements, LocalType, WritesType
<1>2. /\ at' \in [Sessions -> Statements]
      /\ local' \in [Sessions -> LocalType]
      /\ writes' \in [Sessions -> WritesType]
      /\ \A u \in Sessions \ {s} :
           at'[u] = at[u] /\ local'[u] = local[u] /\ writes'[u] = writes[u]
      /\ UNCHANGED <<tables, call>>
  BY <1>1 DEF OwnState
<1>3. /\ locks' \in [Locks -> Sessions \cup {Nil}]
      /\ \A k \in Locks : Holds(s, k)' <=> Holds(s, k) \/ k \in keys
      /\ \A k \in Locks : \A u \in Sessions \ {s} : Holds(u, k)' <=> Holds(u, k)
  BY AcquireHolds DEF IInv
<1>4. /\ status' \in [Txns -> Fsm!Status] /\ referenced' \in SUBSET Txns
      /\ stored' \in [EventIds -> Deliveries \cup {Nil}]
      /\ job' \in [EventIds -> R!Job]
  BY <1>2 DEF IInv, TypeOK, tables
<1>5. TypeOK'
  BY <1>1, <1>2, <1>3, <1>4 DEF TypeOK, Statements, LocalType, WritesType
<1>6. OnlySession(s)
  BY <1>2, <1>3 DEF OnlySession
<1>7. QED
  BY <1>2, <1>3, <1>5, <1>6

(* What a session knows itself by does not change between its statements.  *)
LEMMA SameCall ==
  ASSUME NEW s, call'[s] = call[s]
  PROVE  /\ Ingests(s)' <=> Ingests(s)
         /\ Transits(s)' <=> Transits(s)
         /\ Claims(s)' <=> Claims(s)
         /\ Ends(s)' <=> Ends(s)
         /\ Event(s)' = Event(s) /\ Payment(s)' = Payment(s)
         /\ NewStatus(s)' = NewStatus(s)
         /\ \A st : Proceeds(s, st)' <=> Proceeds(s, st)
  BY DEF Ingests, Transits, Claims, Ends, Event, Payment, NewStatus, Proceeds

LEMMA SameRows ==
  ASSUME UNCHANGED job
  PROVE  /\ \A e : /\ R!Exhausted(e)' <=> R!Exhausted(e)
                   /\ R!Due(e)' <=> R!Due(e)
                   /\ R!Buried(e)' = R!Buried(e)
                   /\ \A w : R!Leased(e, w)' = R!Leased(e, w)
                   /\ \A w : R!Owns(w, e)' <=> R!Owns(w, e)
         /\ \A s : call'[s] = call[s] => Outcome(call[s])' = Outcome(call[s])
  BY DEF R!Exhausted, R!Due, R!Buried, R!Leased, R!Owns, Outcome, R!Completed,
         R!Rescheduled

LEMMA NoLocksTaken ==
  ASSUME TypeOK, NEW s \in Sessions, UNCHANGED locks
  PROVE  Acquire(s, {})
  BY DEF TypeOK, Acquire

(* Methods exclude one another. *)
LEMMA OneMethod ==
  ASSUME NEW s
  PROVE  /\ Ingests(s) => ~Transits(s) /\ ~Claims(s) /\ ~Ends(s)
         /\ Transits(s) => ~Ingests(s) /\ ~Claims(s) /\ ~Ends(s)
         /\ Claims(s) => ~Ingests(s) /\ ~Transits(s) /\ ~Ends(s)
         /\ Ends(s) => ~Ingests(s) /\ ~Transits(s) /\ ~Claims(s)
  BY DEF Ingests, Transits, Claims, Ends

(* INSERT of the event: its key is taken, or the same delivery is there.   *)
LEMMA InsertEventInv ==
  ASSUME IInv, NEW s \in Sessions, InsertEvent(s)
  PROVE  IInv'
<1> DEFINE d == call[s].delivery
           e == Event(s)
           w == IF stored[e] = Nil THEN [writes[s] EXCEPT !.event = d]
                                   ELSE writes[s]
<1>1. /\ at[s] = "event" /\ Acquire(s, Wants(s))
      /\ stored[e] \in {Nil, d}
      /\ writes' = IF stored[e] = Nil THEN [writes EXCEPT ![s].event = d] ELSE writes
      /\ at' = [at EXCEPT ![s] = "select"]
      /\ UNCHANGED <<tables, call, local>>
  BY DEF InsertEvent, Goto, R!SameIdentity
<1>2. /\ Ingests(s) /\ d \in Deliveries /\ e \in EventIds
      /\ Shape(s) /\ LocksHeld(s) /\ EventKept(s) /\ StatusKept(s) /\ JobsKept(s)
      /\ writes[s] \in WritesType /\ local[s] \in LocalType
      /\ writes \in [Sessions -> WritesType] /\ local \in [Sessions -> LocalType]
  BY <1>1, Arguments DEF IInv, SessionInv, Shape, TypeOK, WritesType, LocalType
<1>3. w \in WritesType /\ w.jobs = writes[s].jobs /\ w.status = writes[s].status
      /\ w.event = IF stored[e] = Nil THEN d ELSE writes[s].event
  BY <1>2 DEF WritesType
<1>4. /\ OwnState(s)
      /\ at'[s] = "select" /\ local'[s] = local[s] /\ writes'[s] = w
  <2>1. writes' = [writes EXCEPT ![s] = w] /\ writes'[s] = w
    BY <1>1, <1>2
  <2> HIDE DEF w
  <2>2. at \in [Sessions -> Statements]
    BY DEF IInv, TypeOK, Statements
  <2>3. QED
    BY <1>1, <1>2, <1>3, <2>1, <2>2 DEF OwnState, Statements
<1>5. Wants(s) = IF stored[e] = Nil THEN {EventLock(e)} ELSE {}
  BY <1>1 DEF Wants, EventLock
<1> HIDE DEF d, e, w
<1>6. /\ TypeOK' /\ OnlySession(s) /\ call'[s] = call[s]
      /\ at'[s] = "select" /\ local'[s] = local[s] /\ writes'[s] = w
      /\ \A k \in Locks : Holds(s, k)' <=> Holds(s, k) \/ k \in Wants(s)
  BY <1>1, <1>4, StatementStep, WantsAreLocks
<1>7. Shape(s)'
  BY <1>1, <1>2, <1>6, SameCall DEF Shape
<1>8. /\ \A f \in EventIds : ~Holds(s, EventLock(f)) /\ ~Holds(s, JobLock(f))
      /\ \A t \in Txns : ~Holds(s, PaymentLock(t))
  BY <1>1, <1>2 DEF LocksHeld
<1>9. /\ \A f \in EventIds : /\ Holds(s, EventLock(f))' <=> stored[e] = Nil /\ f = e
                             /\ ~Holds(s, JobLock(f))'
      /\ \A t \in Txns : ~Holds(s, PaymentLock(t))'
  BY <1>5, <1>6, <1>8, LocksAre DEF EventLock, JobLock, PaymentLock
<1>10. LocksHeld(s)'
  <2>1. Ingests(s)' /\ Event(s)' = e /\ at'[s] = "select"
    BY <1>2, <1>6, SameCall DEF e
  <2>2. QED
    BY <1>9, <2>1 DEF LocksHeld, EventLock, JobLock, PaymentLock
<1>11. CandidatesKnown(s)' /\ GotBounded(s)'
  BY <1>2, <1>6, SameCall, OneMethod DEF CandidatesKnown, GotBounded
<1>12. EventKept(s)'
  <2>1. stored' = stored /\ d # Nil
    BY <1>1, <1>2, LedgerAssumption DEF tables
  <2>2. stored[e] # Nil => writes[s].event = Nil
    BY <1>1, <1>2 DEF EventKept
  <2>3. Event(s)' = e /\ call'[s].delivery = d
    BY <1>6, SameCall DEF d, e
  <2>4. QED
    BY <1>1, <1>2, <1>3, <1>6, <1>9, <2>1, <2>2, <2>3, SameCall DEF EventKept
<1>13. StatusKept(s)'
  BY <1>1, <1>2, <1>3, <1>6, SameCall, OneMethod DEF StatusKept
<1>14. JobsKept(s)'
  <2>1. \A f \in EventIds : writes[s].jobs[f] = Nil
    BY <1>2, <1>8 DEF JobsKept
  <2>2. QED
    BY <1>3, <1>6, <2>1, <1>2, SameCall DEF JobsKept
<1>15. SessionInv(s)'
  BY <1>7, <1>10, <1>11, <1>12, <1>13, <1>14 DEF SessionInv
<1>16. QED
  BY <1>6, <1>15, OnlySessionKeeps

(* SELECT ... FOR UPDATE: what it returns stays true of the row it locked. *)
LEMMA SelectPaymentInv ==
  ASSUME IInv, NEW s \in Sessions, SelectPayment(s)
  PROVE  IInv'
<1> DEFINE st == IF Found(s) THEN status[Payment(s)] ELSE Nil
           next == IF Proceeds(s, st) THEN "update" ELSE "commit"
<1>1. /\ at[s] = "select" /\ Acquire(s, Wants(s))
      /\ local' = [local EXCEPT ![s].seen = st]
      /\ at' = [at EXCEPT ![s] = next]
      /\ UNCHANGED <<tables, call, writes>>
  BY DEF SelectPayment, Goto
<1>2. /\ Shape(s) /\ LocksHeld(s) /\ EventKept(s) /\ StatusKept(s) /\ JobsKept(s)
      /\ Ingests(s) \/ Transits(s)
      /\ Payment(s) \in Txns /\ status[Payment(s)] \in Fsm!Status
      /\ writes[s] \in WritesType /\ local[s] \in LocalType
      /\ writes \in [Sessions -> WritesType] /\ local \in [Sessions -> LocalType]
      /\ at \in [Sessions -> Statements]
  BY <1>1, Arguments
  DEF IInv, SessionInv, Shape, TypeOK, WritesType, LocalType, Statements
<1>3. /\ Found(s) <=> Transits(s) \/ Payment(s) \in referenced
      /\ st \in Fsm!Status \cup {Nil}
      /\ st # Nil <=> Found(s)
      /\ st # Nil => st = status[Payment(s)]
  BY <1>2, LedgerAssumption DEF Found, Transits
<1>4. Wants(s) = IF Found(s) THEN {PaymentLock(Payment(s))} ELSE {}
  BY <1>1 DEF Wants, SelectLocks, PaymentLock
<1> HIDE DEF st
<1>5. /\ OwnState(s) /\ at'[s] = next
      /\ local'[s].seen = st /\ writes'[s] = writes[s]
  <2>1. /\ local'[s] = [local[s] EXCEPT !.seen = st]
        /\ local' = [local EXCEPT ![s] = local'[s]]
    BY <1>1, <1>2
  <2>2. local'[s] \in LocalType /\ local'[s].seen = st
    BY <1>2, <1>3, <2>1 DEF LocalType
  <2>3. QED
    BY <1>1, <1>2, <2>1, <2>2 DEF OwnState, Statements
<1>6. /\ TypeOK' /\ OnlySession(s) /\ call'[s] = call[s]
      /\ \A k \in Locks : Holds(s, k)' <=> Holds(s, k) \/ k \in Wants(s)
  BY <1>1, <1>5, StatementStep, WantsAreLocks
<1>7. /\ \A e \in EventIds : /\ Holds(s, EventLock(e))' <=> Holds(s, EventLock(e))
                             /\ ~Holds(s, JobLock(e)) /\ ~Holds(s, JobLock(e))'
      /\ \A t \in Txns : Holds(s, PaymentLock(t))' <=> Found(s) /\ t = Payment(s)
  <2>1. /\ \A e \in EventIds : ~Holds(s, JobLock(e))
        /\ \A t \in Txns : ~Holds(s, PaymentLock(t))
    BY <1>1, <1>2 DEF LocksHeld
  <2>2. QED
    BY <1>4, <1>6, <2>1, LocksAre DEF EventLock, JobLock, PaymentLock
<1>8. UNCHANGED <<status, referenced, stored, job>>
  BY <1>1 DEF tables
<1>9. Shape(s)'
  BY <1>1, <1>2, <1>5, <1>6, SameCall DEF Shape
<1>10. LocksHeld(s)'
  <2>1. /\ \A e \in EventIds : Holds(s, EventLock(e)) => Ingests(s) /\ Event(s) = e
        /\ Ingests(s)' \/ Transits(s)'
        /\ Ingests(s)' <=> Ingests(s)
        /\ Event(s)' = Event(s) /\ Payment(s)' = Payment(s)
        /\ at'[s] \in {"update", "commit"}
    BY <1>2, <1>5, <1>6, SameCall DEF LocksHeld
  <2>2. QED
    BY <1>7, <2>1 DEF LocksHeld, EventLock, JobLock, PaymentLock
<1>11. CandidatesKnown(s)' /\ GotBounded(s)'
  BY <1>2, <1>5, <1>6, SameCall, OneMethod DEF CandidatesKnown, GotBounded
<1>12. EventKept(s)'
  <2>1. Ingests(s) => Event(s) \in EventIds
    BY Arguments DEF IInv
  <2>2. QED
    BY <1>1, <1>2, <1>5, <1>6, <1>7, <1>8, <2>1, SameCall DEF EventKept
<1>13. StatusKept(s)'
  <2>1. writes[s].status = Nil
    BY <1>1, <1>2 DEF StatusKept
  <2>2. /\ Transits(s) => st # Nil
        /\ st # Nil => /\ locks'[PaymentLock(Payment(s))] = s
                       /\ status'[Payment(s)] = st
                       /\ Ingests(s) => Payment(s) \in referenced'
    BY <1>2, <1>3, <1>7, <1>8, OneMethod DEF Holds
  <2>3. at'[s] = "update" <=> Proceeds(s, st)
    BY <1>5
  <2>4. QED
    BY <1>5, <1>6, <2>1, <2>2, <2>3, SameCall DEF StatusKept, Holds, PaymentLock
<1>14. JobsKept(s)'
  <2>1. \A e \in EventIds : writes[s].jobs[e] = Nil
    BY <1>2, <1>7 DEF JobsKept
  <2>2. Ingests(s) /\ at'[s] = "commit" => st \notin R!Open
    BY <1>5 DEF Proceeds, Ingests
  <2>3. QED
    BY <1>5, <1>6, <2>1, <2>2, SameCall DEF JobsKept
<1>15. SessionInv(s)'
  BY <1>9, <1>10, <1>11, <1>12, <1>13, <1>14 DEF SessionInv
<1>16. QED
  BY <1>6, <1>15, OnlySessionKeeps

(* UPDATE of the payment: the row is locked already. *)
LEMMA UpdatePaymentInv ==
  ASSUME IInv, NEW s \in Sessions, UpdatePayment(s)
  PROVE  IInv'
<1> DEFINE new == NewStatus(s)
           w == IF local[s].seen = new THEN writes[s]
                ELSE [writes[s] EXCEPT !.status = new]
           next == IF Transits(s) THEN "commit" ELSE "outbox"
<1>1. /\ at[s] = "update" /\ Acquire(s, Wants(s))
      /\ writes' = IF local[s].seen = new THEN writes
                   ELSE [writes EXCEPT ![s].status = new]
      /\ at' = [at EXCEPT ![s] = next]
      /\ UNCHANGED <<tables, call, local>>
  BY DEF UpdatePayment, Goto, Transits
<1>2. /\ Shape(s) /\ LocksHeld(s) /\ EventKept(s) /\ StatusKept(s) /\ JobsKept(s)
      /\ Ingests(s) \/ Transits(s)
      /\ Payment(s) \in Txns /\ new \in Fsm!Status
      /\ writes[s] \in WritesType /\ local[s] \in LocalType
      /\ writes \in [Sessions -> WritesType] /\ local \in [Sessions -> LocalType]
      /\ at \in [Sessions -> Statements]
  BY <1>1, Arguments
  DEF IInv, SessionInv, Shape, TypeOK, WritesType, LocalType, Statements, Fsm!Status
<1> HIDE DEF new
<1>3. /\ w \in WritesType /\ w.event = writes[s].event /\ w.jobs = writes[s].jobs
      /\ w.status = IF local[s].seen = new THEN writes[s].status ELSE new
  BY <1>2 DEF WritesType
<1>4. Wants(s) \subseteq {PaymentLock(Payment(s))}
  BY <1>1 DEF Wants, PaymentLock
<1>5. /\ OwnState(s) /\ at'[s] = next
      /\ local'[s] = local[s] /\ writes'[s] = w
  <2>1. writes'[s] = w /\ writes' = [writes EXCEPT ![s] = w]
    BY <1>1, <1>2
  <2> HIDE DEF w
  <2>2. QED
    BY <1>1, <1>2, <1>3, <2>1 DEF OwnState, Statements
<1> HIDE DEF w
<1>6. /\ TypeOK' /\ OnlySession(s) /\ call'[s] = call[s]
      /\ \A k \in Locks : Holds(s, k)' <=> Holds(s, k) \/ k \in Wants(s)
  BY <1>1, <1>5, StatementStep, WantsAreLocks
<1>7. /\ local[s].seen # Nil /\ Proceeds(s, local[s].seen)
      /\ Holds(s, PaymentLock(Payment(s)))
      /\ status[Payment(s)] = local[s].seen
      /\ Ingests(s) => Payment(s) \in referenced
      /\ writes[s].status = Nil
  <2>1. Proceeds(s, local[s].seen) /\ writes[s].status = Nil
    BY <1>1, <1>2 DEF StatusKept
  <2>2. local[s].seen # Nil
    <3>1. CASE Ingests(s)
      BY <2>1, <3>1, LedgerAssumption DEF Proceeds, Ingests, R!Open, Fsm!Status
    <3>2. CASE Transits(s)
      <4>1. call[s].from \in Fsm!Status
        BY <3>2, Arguments DEF IInv
      <4>2. QED
        BY <2>1, <3>2, <4>1, LedgerAssumption DEF Proceeds, Transits
    <3>3. QED
      BY <1>2, <3>1, <3>2
  <2>3. QED
    BY <1>1, <1>2, <2>1, <2>2 DEF StatusKept
<1>8. \A k \in Locks : Holds(s, k)' <=> Holds(s, k)
  BY <1>4, <1>6, <1>7
<1>9. /\ \A e \in EventIds : /\ Holds(s, EventLock(e))' <=> Holds(s, EventLock(e))
                             /\ ~Holds(s, JobLock(e)) /\ ~Holds(s, JobLock(e))'
      /\ \A t \in Txns : Holds(s, PaymentLock(t))' <=> Holds(s, PaymentLock(t))
  <2>1. \A e \in EventIds : ~Holds(s, JobLock(e))
    BY <1>1, <1>2 DEF LocksHeld
  <2>2. QED
    BY <1>8, <2>1, LocksAre DEF EventLock, JobLock, PaymentLock
<1>10. UNCHANGED <<status, referenced, stored, job>>
  BY <1>1 DEF tables
<1>11. Shape(s)'
  BY <1>1, <1>2, <1>5, <1>6, SameCall DEF Shape
<1>12. LocksHeld(s)'
  <2>1. /\ \A e \in EventIds : Holds(s, EventLock(e)) => Ingests(s) /\ Event(s) = e
        /\ \A t \in Txns : Holds(s, PaymentLock(t)) => Payment(s) = t
        /\ Ingests(s)' \/ Transits(s)'
        /\ Ingests(s)' <=> Ingests(s)
        /\ Event(s)' = Event(s) /\ Payment(s)' = Payment(s)
        /\ at'[s] \in {"outbox", "commit"}
    BY <1>2, <1>5, <1>6, SameCall DEF LocksHeld
  <2>2. QED
    BY <1>9, <2>1 DEF LocksHeld, EventLock, JobLock, PaymentLock
<1>13. CandidatesKnown(s)' /\ GotBounded(s)'
  BY <1>2, <1>5, <1>6, SameCall, OneMethod DEF CandidatesKnown, GotBounded
<1>14. EventKept(s)'
  <2>1. Ingests(s) => Event(s) \in EventIds
    BY Arguments DEF IInv
  <2>2. QED
    BY <1>1, <1>2, <1>3, <1>5, <1>6, <1>9, <1>10, <2>1, SameCall DEF EventKept
<1>15. StatusKept(s)'
  <2>1. w.status = IF local[s].seen # new THEN new ELSE Nil
    BY <1>3, <1>7
  <2>2. locks'[PaymentLock(Payment(s))] = s
    BY <1>2, <1>7, <1>9 DEF Holds
  <2>3. NewStatus(s)' = new
    BY <1>6, SameCall DEF new
  <2>4. at'[s] \in {"outbox", "commit"}
    BY <1>5
  <2>5. QED
    BY <1>2, <1>5, <1>6, <1>7, <1>10, <2>1, <2>2, <2>3, <2>4, SameCall
    DEF StatusKept, Holds, PaymentLock
<1>16. JobsKept(s)'
  <2>1. \A e \in EventIds : writes[s].jobs[e] = Nil
    BY <1>2, <1>9 DEF JobsKept
  <2>2. ~(Ingests(s) /\ at'[s] = "commit")
    BY <1>5, OneMethod
  <2>3. QED
    BY <1>3, <1>5, <1>6, <2>1, <2>2, SameCall DEF JobsKept
<1>17. SessionInv(s)'
  BY <1>11, <1>12, <1>13, <1>14, <1>15, <1>16 DEF SessionInv
<1>18. QED
  BY <1>6, <1>17, OnlySessionKeeps

(* The outbox row: inserted under its lock, or there already. *)
LEMMA InsertJobInv ==
  ASSUME IInv, NEW s \in Sessions, InsertJob(s)
  PROVE  IInv'
<1> DEFINE e == Event(s)
           jobs == IF job[e].state = "NONE"
                   THEN [writes[s].jobs EXCEPT ![e] = R!NewJob]
                   ELSE writes[s].jobs
           w == [writes[s] EXCEPT !.jobs = jobs]
<1>1. /\ at[s] = "outbox" /\ Acquire(s, Wants(s))
      /\ writes' = IF job[e].state = "NONE"
                   THEN [writes EXCEPT ![s].jobs[e] = R!NewJob] ELSE writes
      /\ at' = [at EXCEPT ![s] = "commit"]
      /\ UNCHANGED <<tables, call, local>>
  BY DEF InsertJob, Goto
<1>2. /\ Shape(s) /\ LocksHeld(s) /\ EventKept(s) /\ StatusKept(s) /\ JobsKept(s)
      /\ Ingests(s) /\ e \in EventIds /\ Payment(s) \in Txns
      /\ writes[s] \in WritesType /\ local[s] \in LocalType
      /\ writes \in [Sessions -> WritesType] /\ local \in [Sessions -> LocalType]
      /\ at \in [Sessions -> Statements]
      /\ Proceeds(s, local[s].seen)
  BY <1>1, Arguments
  DEF IInv, SessionInv, Shape, TypeOK, WritesType, LocalType, Statements, StatusKept
<1>3. R!NewJob \in R!Job /\ R!NewJob # Nil
  <2>1. R!NewJob \in R!Job
    BY LedgerAssumption DEF R!NewJob, R!Job, R!JobStates
  <2>2. QED
    BY <2>1, LedgerAssumption
<1>4. Wants(s) = IF job[e].state = "NONE" THEN {JobLock(e)} ELSE {}
  BY <1>1 DEF Wants, OutboxLocks, JobLock
<1> HIDE DEF e
<1>5. /\ jobs \in [EventIds -> R!Job \cup {Nil}]
      /\ \A f \in EventIds :
           jobs[f] = IF f = e /\ job[e].state = "NONE" THEN R!NewJob
                     ELSE writes[s].jobs[f]
  <2>1. writes[s].jobs \in [EventIds -> R!Job \cup {Nil}]
    BY <1>2 DEF WritesType
  <2>2. QED
    BY <1>2, <1>3, <2>1
<1> HIDE DEF jobs
<1>6. /\ w \in WritesType /\ w.event = writes[s].event
      /\ w.status = writes[s].status /\ w.jobs = jobs
  BY <1>2, <1>5 DEF WritesType
<1>7. /\ OwnState(s) /\ at'[s] = "commit"
      /\ local'[s] = local[s] /\ writes'[s] = w
  <2>1. writes'[s] = w /\ writes' = [writes EXCEPT ![s] = w]
    BY <1>1, <1>2 DEF jobs, WritesType
  <2> HIDE DEF w
  <2>2. QED
    BY <1>1, <1>2, <1>6, <2>1 DEF OwnState, Statements
<1> HIDE DEF w
<1>8. /\ TypeOK' /\ OnlySession(s) /\ call'[s] = call[s]
      /\ \A k \in Locks : Holds(s, k)' <=> Holds(s, k) \/ k \in Wants(s)
  BY <1>1, <1>7, StatementStep, WantsAreLocks
<1>9. /\ \A f \in EventIds : /\ Holds(s, EventLock(f))' <=> Holds(s, EventLock(f))
                             /\ ~Holds(s, JobLock(f))
                             /\ Holds(s, JobLock(f))' <=>
                                  f = e /\ job[e].state = "NONE"
      /\ \A t \in Txns : Holds(s, PaymentLock(t))' <=> Holds(s, PaymentLock(t))
  <2>1. \A f \in EventIds : ~Holds(s, JobLock(f))
    BY <1>1, <1>2, OneMethod DEF LocksHeld
  <2>2. QED
    BY <1>4, <1>8, <2>1, LocksAre DEF EventLock, JobLock, PaymentLock
<1>10. UNCHANGED <<status, referenced, stored, job>>
  BY <1>1 DEF tables
<1>11. Shape(s)'
  BY <1>1, <1>2, <1>7, <1>8, SameCall DEF Shape
<1>12. local[s].seen \in R!Open
  BY <1>2 DEF Proceeds, Ingests
<1>13. /\ Ingests(s)' /\ Event(s)' = e /\ Payment(s)' = Payment(s)
       /\ NewStatus(s)' = NewStatus(s)
       /\ \A st : Proceeds(s, st)' <=> Proceeds(s, st)
  BY <1>2, <1>8, SameCall DEF e
<1>14. LocksHeld(s)'
  <2>1. /\ \A f \in EventIds : Holds(s, EventLock(f)) => f = e
        /\ \A t \in Txns : Holds(s, PaymentLock(t)) => Payment(s) = t
    BY <1>2 DEF LocksHeld, e
  <2>2. QED
    BY <1>7, <1>9, <1>10, <1>12, <1>13, <2>1
    DEF LocksHeld, EventLock, JobLock, PaymentLock
<1>15. CandidatesKnown(s)' /\ GotBounded(s)'
  BY <1>2, <1>7, <1>8, SameCall, OneMethod DEF CandidatesKnown, GotBounded
<1>16. EventKept(s)'
  BY <1>1, <1>2, <1>6, <1>7, <1>8, <1>9, <1>10, SameCall DEF EventKept, e
<1>17. StatusKept(s)'
  <2>1. local[s].seen # Nil =>
          /\ locks'[PaymentLock(Payment(s))] = s
          /\ status[Payment(s)] = local[s].seen
          /\ Payment(s) \in referenced
    BY <1>1, <1>2, <1>9 DEF StatusKept, Holds
  <2>2. w.status = IF local[s].seen # NewStatus(s) THEN NewStatus(s) ELSE Nil
    BY <1>1, <1>2, <1>6 DEF StatusKept
  <2>3. ~Transits(s)' /\ at'[s] = "commit"
    BY <1>2, <1>7, <1>8, SameCall, OneMethod
  <2>4. QED
    BY <1>2, <1>7, <1>10, <1>13, <2>1, <2>2, <2>3
    DEF StatusKept, Holds, PaymentLock
<1>18. JobsKept(s)'
  <2>1. \A f \in EventIds : writes[s].jobs[f] = Nil
    BY <1>2, <1>9 DEF JobsKept
  <2>2. /\ \A f \in EventIds : writes'[s].jobs[f] # Nil => Holds(s, JobLock(f))'
        /\ writes'[s].jobs[e] = IF job[e].state = "NONE" THEN R!NewJob ELSE Nil
    BY <1>2, <1>5, <1>6, <1>7, <1>9, <2>1
  <2>3. ~Claims(s)' /\ ~Ends(s)'
    BY <1>2, <1>8, SameCall, OneMethod
  <2>4. QED
    BY <1>10, <1>13, <2>2, <2>3 DEF JobsKept, JobLock
<1>19. SessionInv(s)'
  BY <1>11, <1>14, <1>15, <1>16, <1>17, <1>18 DEF SessionInv
<1>20. QED
  BY <1>8, <1>19, OnlySessionKeeps


-----------------------------------------------------------------------------
(* What the statements of a claim and the one that ends a lease have in    *)
(* common: they lock jobs that exist, and write jobs and nothing else.     *)
LEMMA JobStatement ==
  ASSUME IInv, NEW s \in Sessions, Claims(s) \/ Ends(s),
         OwnState(s), NEW keys \in SUBSET EventIds,
         Acquire(s, {JobLock(e) : e \in keys}),
         \A e \in keys : job[e].state # "NONE",
         writes'[s].event = writes[s].event,
         writes'[s].status = writes[s].status,
         Claims(s) => at'[s] \in {"bury", "lease", "commit"},
         Ends(s) => at'[s] = "commit"
  PROVE  /\ TypeOK' /\ OnlySession(s) /\ call'[s] = call[s]
         /\ Shape(s)' /\ LocksHeld(s)' /\ EventKept(s)' /\ StatusKept(s)'
         /\ \A e \in EventIds : Holds(s, JobLock(e))' <=>
              Holds(s, JobLock(e)) \/ e \in keys
<1>1. {JobLock(e) : e \in keys} \in SUBSET Locks
  BY LocksAre
<1>2. /\ TypeOK' /\ OnlySession(s) /\ call'[s] = call[s]
      /\ \A k \in Locks :
           Holds(s, k)' <=> Holds(s, k) \/ k \in {JobLock(e) : e \in keys}
  BY <1>1, StatementStep
<1>3. /\ ~Ingests(s) /\ ~Transits(s) /\ ~Ingests(s)' /\ ~Transits(s)'
      /\ Claims(s)' <=> Claims(s)
      /\ Ends(s)' <=> Ends(s)
  BY <1>2, OneMethod, SameCall
<1>4. Shape(s) /\ LocksHeld(s) /\ EventKept(s) /\ StatusKept(s)
  BY DEF IInv, SessionInv
<1>5. UNCHANGED job
  BY DEF OwnState, tables
<1>6. /\ \A e \in EventIds : ~Holds(s, EventLock(e))'
      /\ \A t \in Txns : ~Holds(s, PaymentLock(t))'
      /\ \A e \in EventIds : Holds(s, JobLock(e))' <=>
           Holds(s, JobLock(e)) \/ e \in keys
  <2>1. /\ \A e \in EventIds : ~Holds(s, EventLock(e))
        /\ \A t \in Txns : ~Holds(s, PaymentLock(t))
    BY <1>3, <1>4 DEF LocksHeld
  <2>2. QED
    BY <1>2, <2>1, LocksAre DEF EventLock, JobLock, PaymentLock
<1>7. at'[s] \in {"bury", "lease", "commit"}
  OBVIOUS
<1>8. Shape(s)'
  <2>1. at[s] # "idle"
    BY <1>4 DEF Shape, Idle, Claims, Ends
  <2>2. call'[s] \in Calls
    BY <1>2, <1>4, <2>1 DEF Shape
  <2>3. QED
    BY <1>3, <1>7, <2>2 DEF Shape
<1>9. LocksHeld(s)'
  <2>1. \A e \in EventIds : Holds(s, JobLock(e)) => job[e].state # "NONE"
    BY <1>3, <1>4 DEF LocksHeld
  <2>2. \A e \in EventIds : Holds(s, JobLock(e))' => job'[e].state # "NONE"
    BY <1>5, <1>6, <2>1
  <2>3. QED
    BY <1>3, <1>6, <1>7, <2>2 DEF LocksHeld, EventLock, JobLock, PaymentLock
<1>10. EventKept(s)'
  BY <1>3, <1>4 DEF EventKept
<1>11. StatusKept(s)'
  BY <1>3, <1>4, <1>7 DEF StatusKept
<1>12. QED
  BY <1>2, <1>6, <1>8, <1>9, <1>10, <1>11

(* A claim moves on in its snapshot: nothing is locked and nothing written. *)
LEMMA ClaimMovesOn ==
  ASSUME IInv, NEW s \in Sessions, Claims(s), OwnState(s), UNCHANGED locks,
         writes'[s] = writes[s],
         at'[s] \in {"bury", "lease", "commit"},
         at'[s] = "bury" => at[s] = "bury",
         at'[s] \in {"bury", "lease"} =>
           \A e \in EventIds :
             e \in local'[s].todo \/ e = local'[s].row => job[e].state # "NONE"
  PROVE  IInv'
<1>1. Acquire(s, {JobLock(e) : e \in {}})
  <2>1. {JobLock(e) : e \in {}} = {}
    OBVIOUS
  <2>2. QED
    BY <2>1, NoLocksTaken DEF IInv
<1>2. ~Ends(s)
  BY OneMethod
<1>3. /\ TypeOK' /\ OnlySession(s) /\ call'[s] = call[s]
      /\ Shape(s)' /\ LocksHeld(s)' /\ EventKept(s)' /\ StatusKept(s)'
      /\ \A e \in EventIds : Holds(s, JobLock(e))' <=> Holds(s, JobLock(e))
  BY <1>1, <1>2, JobStatement
<1>4. UNCHANGED job
  BY DEF OwnState, tables
<1>5. CandidatesKnown(s)'
  BY <1>4 DEF CandidatesKnown
<1>6. ~Ingests(s)' /\ ~Ends(s)' /\ Claims(s)'
  BY <1>2, <1>3, OneMethod, SameCall
<1>7. JobsKept(s)'
  <2>1. JobsKept(s)
    BY DEF IInv, SessionInv
  <2>2. \A e \in EventIds : writes'[s].jobs[e] # Nil => Holds(s, JobLock(e))'
    BY <1>3, <2>1 DEF JobsKept
  <2>3. \A e \in EventIds : writes'[s].jobs[e] # Nil =>
          \/ R!Exhausted(e)' /\ writes'[s].jobs[e] = R!Buried(e)'
          \/ R!Due(e)' /\ writes'[s].jobs[e] = R!Leased(e, call[s].worker)'
    BY <1>3, <1>4, <2>1, SameRows DEF JobsKept
  <2>4. QED
    BY <1>6, <2>2, <2>3 DEF JobsKept, JobLock
<1>8. GotBounded(s)'
  <2>1. Got(s)' = Got(s) /\ GotBounded(s)
    BY DEF Got, IInv, SessionInv
  <2>2. QED
    BY <1>6, <2>1 DEF GotBounded
<1>9. SessionInv(s)'
  BY <1>3, <1>5, <1>7, <1>8 DEF SessionInv
<1>10. QED
  BY <1>3, <1>9, OnlySessionKeeps

(* What a claim has read of its snapshot: it never adds to it. *)
LEMMA SnapshotInv ==
  ASSUME IInv, NEW s \in Sessions,
         \/ StartLease(s) \/ EndClaim(s)
         \/ \E e \in EventIds : ReachExhausted(s, e) \/ SkipRow(s, e)
  PROVE  IInv'
<1>1. /\ Shape(s) /\ CandidatesKnown(s)
      /\ at \in [Sessions -> Statements]
      /\ local \in [Sessions -> LocalType] /\ writes \in [Sessions -> WritesType]
      /\ local[s] \in LocalType /\ writes[s] \in WritesType
  BY DEF IInv, SessionInv, TypeOK, Statements, LocalType, WritesType
<1>2. /\ at[s] \in {"bury", "lease"} /\ Claims(s)
      /\ UNCHANGED <<tables, call, writes, locks>>
  BY <1>1 DEF StartLease, EndClaim, ReachExhausted, SkipRow, Shape
<1>3. /\ writes' = [writes EXCEPT ![s] = writes'[s]] /\ writes'[s] = writes[s]
      /\ writes'[s] \in WritesType
  BY <1>1, <1>2
<1>4. ASSUME local'[s] \in LocalType, local' = [local EXCEPT ![s] = local'[s]],
             at'[s] \in {"bury", "lease", "commit"}, at' = [at EXCEPT ![s] = at'[s]],
             at'[s] = "bury" => at[s] = "bury",
             at'[s] \in {"bury", "lease"} =>
               \A e \in EventIds :
                 e \in local'[s].todo \/ e = local'[s].row => job[e].state # "NONE"
      PROVE  IInv'
  <2>1. OwnState(s)
    BY <1>2, <1>3, <1>4 DEF OwnState, Statements
  <2>2. QED
    BY <1>2, <1>3, <1>4, <2>1, ClaimMovesOn
<1>5. CASE StartLease(s)
  <2> DEFINE todo == {e \in EventIds : R!Due(e)}
  <2>1. /\ at[s] = "bury" /\ local[s].row = Nil
        /\ local' = [local EXCEPT ![s].todo = todo]
        /\ at' = [at EXCEPT ![s] = "lease"]
    BY <1>5 DEF StartLease, Goto
  <2>2. \A e \in todo : job[e].state # "NONE"
    BY DEF R!Due
  <2>3. todo \in SUBSET EventIds
    OBVIOUS
  <2> HIDE DEF todo
  <2>4. /\ local'[s] \in LocalType /\ local' = [local EXCEPT ![s] = local'[s]]
        /\ local'[s].todo = todo /\ local'[s].row = Nil
    BY <1>1, <2>1, <2>3 DEF LocalType
  <2>5. at'[s] = "lease" /\ at' = [at EXCEPT ![s] = at'[s]]
    BY <1>1, <2>1
  <2>6. \A e \in EventIds :
          e \in local'[s].todo \/ e = local'[s].row => job[e].state # "NONE"
    BY <2>2, <2>4, LedgerAssumption
  <2>7. QED
    BY <1>4, <2>4, <2>5, <2>6
<1>6. CASE EndClaim(s)
  <2>1. local' = local /\ at' = [at EXCEPT ![s] = "commit"]
    BY <1>6 DEF EndClaim, Goto
  <2>2. local'[s] \in LocalType /\ local' = [local EXCEPT ![s] = local'[s]]
    BY <1>1, <2>1
  <2>3. at'[s] = "commit" /\ at' = [at EXCEPT ![s] = at'[s]]
    BY <1>1, <2>1
  <2>4. QED
    BY <1>4, <2>2, <2>3
<1>7. ASSUME NEW e \in EventIds, ReachExhausted(s, e) \/ SkipRow(s, e)
      PROVE  IInv'
  <2> DEFINE row == IF ReachExhausted(s, e) THEN e ELSE local[s].row
  <2>1. /\ e \in local[s].todo /\ at' = at
        /\ local' = [local EXCEPT ![s].todo = @ \ {e}, ![s].row = row]
    <3>1. CASE ReachExhausted(s, e)
      BY <3>1 DEF ReachExhausted
    <3>2. CASE ~ReachExhausted(s, e)
      <4>1. /\ e \in local[s].todo /\ at' = at
            /\ local' = [local EXCEPT ![s].todo = @ \ {e}]
        BY <1>7, <3>2 DEF SkipRow
      <4>2. local' = [local EXCEPT ![s].todo = @ \ {e}, ![s].row = local[s].row]
        BY <1>1, <4>1 DEF LocalType
      <4>3. QED
        BY <3>2, <4>1, <4>2
    <3>3. QED
      BY <3>1, <3>2
  <2>2. row = e \/ row = local[s].row
    OBVIOUS
  <2> HIDE DEF row
  <2>3. row \in EventIds \cup {Nil}
    BY <1>1, <2>2 DEF LocalType
  <2>4. /\ local'[s] \in LocalType /\ local' = [local EXCEPT ![s] = local'[s]]
        /\ local'[s].todo = local[s].todo \ {e} /\ local'[s].row = row
    BY <1>1, <2>1, <2>3 DEF LocalType
  <2>5. at'[s] = at[s] /\ at' = [at EXCEPT ![s] = at'[s]]
    BY <1>1, <2>1
  <2>6. \A f \in EventIds :
          f \in local'[s].todo \/ f = local'[s].row => job[f].state # "NONE"
    BY <1>1, <1>2, <2>1, <2>2, <2>4 DEF CandidatesKnown
  <2>7. QED
    BY <1>2, <1>4, <2>4, <2>5, <2>6
<1>8. QED
  BY <1>5, <1>6, <1>7

(* A job that cannot be buried and leased, nor be nobody's and owned.      *)
LEMMA JobValues ==
  ASSUME TypeOK, NEW e \in EventIds
  PROVE  /\ R!Exhausted(e) => R!Buried(e) \in R!Job /\ R!Buried(e).state = "DEAD"
         /\ \A w \in Workers : R!Due(e) =>
              R!Leased(e, w) \in R!Job /\ R!Leased(e, w).state = "PROCESSING"
         /\ ~(R!Exhausted(e) /\ R!Due(e))
         /\ R!Completed(e) \in R!Job /\ R!Completed(e).state = "COMPLETED"
         /\ R!Rescheduled(e) \in R!Job
         /\ R!Rescheduled(e).state = "DEAD"
            \/ /\ R!Rescheduled(e).state = "PENDING"
               /\ R!Rescheduled(e).attempts < MaxAttempts
<1>1. /\ job[e] \in R!Job /\ MaxAttempts \in Nat
      /\ job[e].attempts \in 0..MaxAttempts
  BY LedgerAssumption DEF TypeOK, R!Job
<1>2. R!Buried(e) \in R!Job /\ R!Buried(e).state = "DEAD"
  BY <1>1 DEF R!Buried, R!Job, R!JobStates
<1>3. ASSUME NEW w \in Workers, R!Due(e)
      PROVE  R!Leased(e, w) \in R!Job /\ R!Leased(e, w).state = "PROCESSING"
  <2>1. job[e].attempts + 1 \in 0..MaxAttempts
    BY <1>1, <1>3 DEF R!Due
  <2>2. QED
    BY <1>1, <2>1 DEF R!Leased, R!Job, R!JobStates
<1>4. ~(R!Exhausted(e) /\ R!Due(e))
  BY <1>1 DEF R!Exhausted, R!Due
<1>5. R!Completed(e) \in R!Job /\ R!Completed(e).state = "COMPLETED"
  BY <1>1 DEF R!Completed, R!Job, R!JobStates
<1>6. /\ R!Rescheduled(e) \in R!Job
      /\ R!Rescheduled(e).attempts = job[e].attempts
      /\ R!Rescheduled(e).state =
           IF job[e].attempts >= MaxAttempts THEN "DEAD" ELSE "PENDING"
  BY <1>1 DEF R!Rescheduled, R!Job, R!JobStates
<1>7. QED
  BY <1>1, <1>2, <1>3, <1>4, <1>5, <1>6

(* A claim writes one row more, which it has locked. *)
LEMMA ClaimWrites ==
  ASSUME IInv, NEW s \in Sessions, Claims(s), OwnState(s), NEW e \in EventIds,
         Acquire(s, {JobLock(e)}), job[e].state # "NONE",
         at'[s] = at[s], at[s] \in {"bury", "lease"},
         local'[s].todo \subseteq local[s].todo,
         local'[s].row \in {local[s].row, Nil},
         writes'[s].event = writes[s].event,
         writes'[s].status = writes[s].status,
         \A f \in EventIds \ {e} : writes'[s].jobs[f] = writes[s].jobs[f],
         \/ writes'[s].jobs[e] = writes[s].jobs[e]
         \/ R!Exhausted(e) /\ writes'[s].jobs[e] = R!Buried(e)
         \/ /\ R!Due(e) /\ writes'[s].jobs[e] = R!Leased(e, call[s].worker)
            /\ at[s] = "lease" /\ Cardinality(Got(s)) < Limit
  PROVE  IInv'
<1>1. {JobLock(f) : f \in {e}} = {JobLock(e)} /\ {e} \in SUBSET EventIds
  OBVIOUS
<1>2. ~Ends(s)
  BY OneMethod
<1>3. /\ TypeOK' /\ OnlySession(s) /\ call'[s] = call[s]
      /\ Shape(s)' /\ LocksHeld(s)' /\ EventKept(s)' /\ StatusKept(s)'
      /\ \A f \in EventIds : Holds(s, JobLock(f))' <=> Holds(s, JobLock(f)) \/ f = e
  BY <1>1, <1>2, JobStatement
<1>4. UNCHANGED job
  BY DEF OwnState, tables
<1>5. ~Ingests(s)' /\ ~Ends(s)' /\ Claims(s)'
  BY <1>2, <1>3, OneMethod, SameCall
<1>6. CandidatesKnown(s)'
  <2>1. CandidatesKnown(s)
    BY DEF IInv, SessionInv
  <2>2. QED
    BY <1>4, <2>1, LedgerAssumption DEF CandidatesKnown
<1>7. JobsKept(s) /\ GotBounded(s) /\ TypeOK
  BY DEF IInv, SessionInv
<1>8. JobsKept(s)'
  <2>1. \A f \in EventIds : writes'[s].jobs[f] # Nil => Holds(s, JobLock(f))'
    BY <1>3, <1>7 DEF JobsKept
  <2>2. \A f \in EventIds : writes'[s].jobs[f] # Nil =>
          \/ R!Exhausted(f) /\ writes'[s].jobs[f] = R!Buried(f)
          \/ R!Due(f) /\ writes'[s].jobs[f] = R!Leased(f, call[s].worker)
    BY <1>7 DEF JobsKept
  <2>3. \A f \in EventIds : writes'[s].jobs[f] # Nil =>
          \/ R!Exhausted(f)' /\ writes'[s].jobs[f] = R!Buried(f)'
          \/ R!Due(f)' /\ writes'[s].jobs[f] = R!Leased(f, call[s].worker)'
    BY <1>3, <1>4, <2>2, SameRows
  <2>4. QED
    BY <1>5, <2>1, <2>3 DEF JobsKept, JobLock
<1>9. GotBounded(s)'
  <2>1. /\ IsFiniteSet(Got(s)) /\ Cardinality(Got(s)) <= Limit
        /\ at[s] = "bury" => Got(s) = {}
    BY <1>7 DEF GotBounded
  <2>2. Cardinality(Got(s)) \in Nat /\ Limit \in Nat
    BY <2>1, FS_CardinalityType, LedgerAssumption
  <2>3. CASE Got(s)' \subseteq Got(s)
    <3>1. IsFiniteSet(Got(s)') /\ Cardinality(Got(s)') <= Cardinality(Got(s))
      BY <2>1, <2>3, FS_Subset
    <3>2. Cardinality(Got(s)') \in Nat
      BY <3>1, FS_CardinalityType
    <3>3. IsFiniteSet(Got(s)') /\ Cardinality(Got(s)') <= Limit
      BY <2>1, <2>2, <3>1, <3>2
    <3>4. at'[s] = "bury" => Got(s)' = {}
      BY <2>1, <2>3
    <3>5. QED
      BY <3>3, <3>4 DEF GotBounded
  <2>4. CASE ~(Got(s)' \subseteq Got(s))
    <3>1. Got(s)' \subseteq Got(s) \cup {e}
      BY DEF Got
    <3>2. /\ writes'[s].jobs[e] # Nil /\ writes'[s].jobs[e].state = "PROCESSING"
          /\ writes'[s].jobs[e] # writes[s].jobs[e]
      BY <2>4 DEF Got
    <3>3. at[s] = "lease" /\ Cardinality(Got(s)) < Limit
      BY <1>7, <3>2, JobValues
    <3>4. /\ IsFiniteSet(Got(s) \cup {e})
          /\ Cardinality(Got(s) \cup {e}) \in Nat
          /\ Cardinality(Got(s) \cup {e}) <= Cardinality(Got(s)) + 1
      <4>1. /\ IsFiniteSet(Got(s) \cup {e})
            /\ Cardinality(Got(s) \cup {e}) =
                 IF e \in Got(s) THEN Cardinality(Got(s)) ELSE Cardinality(Got(s)) + 1
        BY <2>1, FS_AddElement
      <4>2. QED
        BY <2>2, <4>1
    <3>5. /\ IsFiniteSet(Got(s)')
          /\ Cardinality(Got(s)') <= Cardinality(Got(s) \cup {e})
      BY <3>1, <3>4, FS_Subset
    <3>6. Cardinality(Got(s)') \in Nat
      BY <3>5, FS_CardinalityType
    <3>7. Cardinality(Got(s)') <= Limit
      BY <2>2, <3>3, <3>4, <3>5, <3>6
    <3>8. QED
      BY <3>3, <3>5, <3>7 DEF GotBounded
  <2>5. QED
    BY <2>3, <2>4
<1>10. SessionInv(s)'
  BY <1>3, <1>6, <1>8, <1>9 DEF SessionInv
<1>11. QED
  BY <1>3, <1>10, OnlySessionKeeps

LEMMA BuryInv ==
  ASSUME IInv, NEW s \in Sessions, Bury(s)
  PROVE  IInv'
<1> DEFINE e == local[s].row
           jobs == IF R!Exhausted(e) THEN [writes[s].jobs EXCEPT ![e] = R!Buried(e)]
                   ELSE writes[s].jobs
           w == [writes[s] EXCEPT !.jobs = jobs]
           l == [local[s] EXCEPT !.row = Nil]
<1>1. /\ at[s] = "bury" /\ e # Nil /\ Acquire(s, Wants(s))
      /\ writes' = IF R!Exhausted(e) THEN [writes EXCEPT ![s].jobs[e] = R!Buried(e)]
                   ELSE writes
      /\ local' = [local EXCEPT ![s].row = Nil]
      /\ UNCHANGED <<tables, call, at>>
  BY DEF Bury
<1>2. /\ Claims(s) /\ CandidatesKnown(s) /\ TypeOK
      /\ writes[s] \in WritesType /\ local[s] \in LocalType
      /\ writes \in [Sessions -> WritesType] /\ local \in [Sessions -> LocalType]
      /\ at \in [Sessions -> Statements]
  BY <1>1 DEF IInv, SessionInv, Shape, TypeOK, WritesType, LocalType, Statements
<1>3. e \in EventIds /\ job[e].state # "NONE"
  BY <1>1, <1>2 DEF LocalType, CandidatesKnown
<1>4. Acquire(s, {JobLock(e)})
  BY <1>1 DEF Wants, JobLock
<1>5. l \in LocalType /\ l.todo = local[s].todo /\ l.row = Nil
  BY <1>2 DEF LocalType
<1> HIDE DEF e
<1>6. /\ jobs \in [EventIds -> R!Job \cup {Nil}]
      /\ \A f \in EventIds \ {e} : jobs[f] = writes[s].jobs[f]
      /\ \/ jobs[e] = writes[s].jobs[e]
         \/ R!Exhausted(e) /\ jobs[e] = R!Buried(e)
  <2>1. writes[s].jobs \in [EventIds -> R!Job \cup {Nil}]
    BY <1>2 DEF WritesType
  <2>2. R!Exhausted(e) => R!Buried(e) \in R!Job
    BY <1>2, <1>3, JobValues
  <2>3. QED
    BY <1>3, <2>1, <2>2
<1>7. writes' = [writes EXCEPT ![s] = w]
  BY <1>1, <1>2 DEF WritesType
<1>8. local' = [local EXCEPT ![s] = l]
  BY <1>1, <1>2
<1> HIDE DEF jobs, l
<1>9. /\ w \in WritesType /\ w.event = writes[s].event
      /\ w.status = writes[s].status /\ w.jobs = jobs
  BY <1>2, <1>6 DEF WritesType
<1> HIDE DEF w
<1>10. writes'[s] = w /\ local'[s] = l
  BY <1>2, <1>7, <1>8
<1>11. OwnState(s)
  BY <1>1, <1>2, <1>5, <1>7, <1>8, <1>9, <1>10 DEF OwnState
<1>12. QED
  BY <1>1, <1>2, <1>3, <1>4, <1>5, <1>6, <1>9, <1>10, <1>11, ClaimWrites

LEMMA LeaseRowInv ==
  ASSUME IInv, NEW s \in Sessions, NEW e \in EventIds, LeaseRow(s, e)
  PROVE  IInv'
<1> DEFINE v == R!Leased(e, call[s].worker)
           jobs == IF R!Due(e) THEN [writes[s].jobs EXCEPT ![e] = v]
                   ELSE writes[s].jobs
           w == [writes[s] EXCEPT !.jobs = jobs]
           l == [local[s] EXCEPT !.todo = @ \ {e}]
<1>1. /\ at[s] = "lease" /\ e \in local[s].todo /\ Acquire(s, {JobLock(e)})
      /\ Cardinality(Got(s)) < Limit
      /\ writes' = IF R!Due(e) THEN [writes EXCEPT ![s].jobs[e] = v] ELSE writes
      /\ local' = [local EXCEPT ![s].todo = @ \ {e}]
      /\ UNCHANGED <<tables, call, at>>
  BY DEF LeaseRow, LeaseLocks, JobLock
<1>2. /\ Claims(s) /\ CandidatesKnown(s) /\ TypeOK
      /\ writes[s] \in WritesType /\ local[s] \in LocalType
      /\ writes \in [Sessions -> WritesType] /\ local \in [Sessions -> LocalType]
      /\ at \in [Sessions -> Statements]
  BY <1>1 DEF IInv, SessionInv, Shape, TypeOK, WritesType, LocalType, Statements
<1>3. job[e].state # "NONE" /\ call[s].worker \in Workers
  BY <1>1, <1>2, Arguments DEF CandidatesKnown
<1>4. l \in LocalType /\ l.todo \subseteq local[s].todo /\ l.row = local[s].row
  BY <1>2 DEF LocalType
<1>5. R!Due(e) => v \in R!Job
  BY <1>2, <1>3, JobValues
<1> HIDE DEF v
<1>6. /\ jobs \in [EventIds -> R!Job \cup {Nil}]
      /\ \A f \in EventIds \ {e} : jobs[f] = writes[s].jobs[f]
      /\ \/ jobs[e] = writes[s].jobs[e]
         \/ R!Due(e) /\ jobs[e] = v
  <2>1. writes[s].jobs \in [EventIds -> R!Job \cup {Nil}]
    BY <1>2 DEF WritesType
  <2>2. QED
    BY <1>5, <2>1
<1>7. writes' = [writes EXCEPT ![s] = w]
  BY <1>1, <1>2 DEF WritesType
<1>8. local' = [local EXCEPT ![s] = l]
  BY <1>1, <1>2
<1> HIDE DEF jobs, l
<1>9. /\ w \in WritesType /\ w.event = writes[s].event
      /\ w.status = writes[s].status /\ w.jobs = jobs
  BY <1>2, <1>6 DEF WritesType
<1> HIDE DEF w
<1>10. writes'[s] = w /\ local'[s] = l
  BY <1>2, <1>7, <1>8
<1>11. OwnState(s)
  BY <1>1, <1>2, <1>4, <1>7, <1>8, <1>9, <1>10 DEF OwnState
<1>12. QED
  BY <1>1, <1>2, <1>3, <1>4, <1>6, <1>9, <1>10, <1>11, ClaimWrites DEF v

(* The end of a lease: the row is written only if the lease is still owned. *)
LEMMA EndJobInv ==
  ASSUME IInv, NEW s \in Sessions, EndJob(s)
  PROVE  IInv'
<1> DEFINE c == call[s]
           e == call[s].job
           owns == R!Owns(call[s].worker, e)
           v == Outcome(call[s])
           keys == IF owns THEN {e} ELSE {}
           jobs == IF owns THEN [writes[s].jobs EXCEPT ![e] = v]
                   ELSE writes[s].jobs
           w == [writes[s] EXCEPT !.jobs = jobs]
<1>1. /\ at[s] = "end" /\ Acquire(s, Wants(s))
      /\ writes' = IF owns THEN [writes EXCEPT ![s].jobs[e] = v] ELSE writes
      /\ at' = [at EXCEPT ![s] = "commit"]
      /\ UNCHANGED <<tables, call, local>>
  BY DEF EndJob, Goto
<1>2. /\ Ends(s) /\ TypeOK /\ LocksHeld(s) /\ JobsKept(s)
      /\ writes[s] \in WritesType /\ local[s] \in LocalType
      /\ writes \in [Sessions -> WritesType] /\ local \in [Sessions -> LocalType]
      /\ at \in [Sessions -> Statements]
  BY <1>1 DEF IInv, SessionInv, Shape, TypeOK, WritesType, LocalType, Statements
<1>3. e \in EventIds /\ ~Ingests(s) /\ ~Claims(s)
  BY <1>2, Arguments, OneMethod
<1>4. v \in R!Job
  BY <1>2, <1>3, JobValues DEF Outcome
<1>5. Wants(s) = {JobLock(f) : f \in keys}
  BY <1>1 DEF Wants, JobLock
<1>6. keys \in SUBSET EventIds /\ \A f \in keys : job[f].state # "NONE"
  BY <1>3 DEF R!Owns
<1>7. owns <=> R!Owns(call[s].worker, e)
  OBVIOUS
<1> HIDE DEF e, v, owns
<1>8. /\ jobs \in [EventIds -> R!Job \cup {Nil}]
      /\ \A f \in EventIds :
           jobs[f] = IF owns /\ f = e THEN v ELSE writes[s].jobs[f]
  <2>1. writes[s].jobs \in [EventIds -> R!Job \cup {Nil}]
    BY <1>2 DEF WritesType
  <2>2. QED
    BY <1>3, <1>4, <2>1
<1>9. writes' = [writes EXCEPT ![s] = w]
  BY <1>1, <1>2 DEF WritesType
<1> HIDE DEF jobs
<1>10. /\ w \in WritesType /\ w.event = writes[s].event
       /\ w.status = writes[s].status /\ w.jobs = jobs
  BY <1>2, <1>8 DEF WritesType
<1> HIDE DEF w
<1>11. writes'[s] = w /\ local'[s] = local[s] /\ at'[s] = "commit"
  BY <1>1, <1>2, <1>9
<1>12. OwnState(s)
  BY <1>1, <1>2, <1>9, <1>10, <1>11 DEF OwnState, Statements
<1>13. /\ TypeOK' /\ OnlySession(s) /\ call'[s] = call[s]
       /\ Shape(s)' /\ LocksHeld(s)' /\ EventKept(s)' /\ StatusKept(s)'
       /\ \A f \in EventIds : Holds(s, JobLock(f))' <=>
            Holds(s, JobLock(f)) \/ f \in keys
  <2> HIDE DEF keys
  <2>1. QED
    BY <1>1, <1>2, <1>3, <1>5, <1>6, <1>10, <1>11, <1>12, JobStatement
<1>14. UNCHANGED job
  BY <1>1 DEF tables
<1>15. ~Ingests(s)' /\ ~Claims(s)' /\ Ends(s)'
  BY <1>2, <1>3, <1>13, SameCall
<1>16. \A f \in EventIds : ~Holds(s, JobLock(f)) /\ writes[s].jobs[f] = Nil
  BY <1>1, <1>2, <1>3 DEF LocksHeld, JobsKept
<1>17. JobsKept(s)'
  <2>1. \A f \in EventIds : writes'[s].jobs[f] # Nil => owns /\ f = e
    BY <1>8, <1>10, <1>11, <1>16
  <2>2. \A f \in EventIds : writes'[s].jobs[f] # Nil =>
          /\ f = call[s].job /\ R!Owns(call[s].worker, f)
          /\ writes'[s].jobs[f] = Outcome(call[s])
    BY <1>7, <1>8, <1>10, <1>11, <2>1 DEF e, v
  <2>3. \A f \in EventIds : writes'[s].jobs[f] # Nil =>
          /\ f = call'[s].job /\ R!Owns(call[s].worker, f)'
          /\ writes'[s].jobs[f] = Outcome(call[s])'
    BY <1>13, <1>14, <2>2, SameRows
  <2>4. \A f \in EventIds : writes'[s].jobs[f] # Nil => Holds(s, JobLock(f))'
    BY <1>13, <2>1
  <2>5. QED
    BY <1>15, <2>3, <2>4 DEF JobsKept, JobLock
<1>18. CandidatesKnown(s)' /\ GotBounded(s)'
  BY <1>11, <1>15 DEF CandidatesKnown, GotBounded
<1>19. SessionInv(s)'
  BY <1>13, <1>17, <1>18 DEF SessionInv
<1>20. QED
  BY <1>13, <1>19, OnlySessionKeeps

LEMMA StatementInv ==
  ASSUME IInv, NEW s \in Sessions, Statement(s)
  PROVE  IInv'
<1>1. CASE InsertEvent(s) \/ RefuseEvent(s)
  BY <1>1, InsertEventInv, AbortInv
<1>2. CASE SelectPayment(s) \/ UpdatePayment(s) \/ InsertJob(s)
  BY <1>2, SelectPaymentInv, UpdatePaymentInv, InsertJobInv
<1>3. CASE Bury(s) \/ EndJob(s)
  BY <1>3, BuryInv, EndJobInv
<1>4. CASE \/ StartLease(s) \/ EndClaim(s)
           \/ \E e \in EventIds : ReachExhausted(s, e) \/ SkipRow(s, e)
  BY <1>4, SnapshotInv
<1>5. CASE \E e \in EventIds : LeaseRow(s, e)
  BY <1>5, LeaseRowInv
<1>6. QED
  BY <1>1, <1>2, <1>3, <1>4, <1>5 DEF Statement

-----------------------------------------------------------------------------
(* A commit changes rows it has locked, and only these; the event it keeps *)
(* was nobody's.                                                           *)
LEMMA CommitChanges ==
  ASSUME IInv, NEW s \in Sessions, Commit(s)
  PROVE  /\ stored' \in [EventIds -> Deliveries \cup {Nil}]
         /\ \A e \in EventIds : stored'[e] # stored[e] =>
              stored[e] = Nil /\ Holds(s, EventLock(e))
         /\ status' \in [Txns -> Fsm!Status]
         /\ \A t \in Txns : status'[t] # status[t] => Holds(s, PaymentLock(t))
         /\ referenced \subseteq referenced' /\ referenced' \in SUBSET Txns
         /\ job' \in [EventIds -> R!Job]
         /\ \A e \in EventIds : job'[e] # job[e] =>
              /\ Holds(s, JobLock(e)) /\ job'[e].state # "NONE"
              /\ job'[e].state = "PENDING" => job'[e].attempts < MaxAttempts
<1> DEFINE w == writes[s]
<1>1. /\ at[s] = "commit"
      /\ stored' = IF w.event = Nil THEN stored
                   ELSE [stored EXCEPT ![EventOf[w.event]] = w.event]
      /\ status' = IF w.status = Nil THEN status
                   ELSE [status EXCEPT ![Payment(s)] = w.status]
      /\ referenced' = IF w.status = "SUBMITTED"
                       THEN referenced \cup {Payment(s)} ELSE referenced
      /\ job' = [e \in EventIds |-> IF w.jobs[e] = Nil THEN job[e] ELSE w.jobs[e]]
  BY DEF Commit
<1>2. /\ TypeOK /\ LocksHeld(s) /\ EventKept(s) /\ StatusKept(s) /\ JobsKept(s)
      /\ w \in WritesType
  BY DEF IInv, SessionInv, TypeOK, WritesType
<1>3. /\ stored \in [EventIds -> Deliveries \cup {Nil}]
      /\ status \in [Txns -> Fsm!Status] /\ referenced \in SUBSET Txns
      /\ job \in [EventIds -> R!Job]
  BY <1>2 DEF TypeOK
<1>4. w.event # Nil =>
        /\ w.event = call[s].delivery /\ w.event \in Deliveries
        /\ Event(s) \in EventIds /\ EventOf[w.event] = Event(s)
        /\ stored[Event(s)] = Nil /\ Holds(s, EventLock(Event(s)))
  BY <1>1, <1>2, Arguments DEF EventKept, Event
<1>5. w.status # Nil =>
        /\ w.status \in Fsm!Status /\ Payment(s) \in Txns
        /\ Holds(s, PaymentLock(Payment(s)))
  <2>1. ASSUME w.status # Nil
        PROVE  (Ingests(s) \/ Transits(s)) /\ Proceeds(s, local[s].seen)
    BY <1>2, <2>1 DEF StatusKept
  <2>2. ASSUME w.status # Nil
        PROVE  local[s].seen # Nil
    <3>1. CASE Ingests(s)
      <4>1. local[s].seen \in R!Open
        BY <2>1, <2>2, <3>1 DEF Proceeds, Ingests
      <4>2. QED
        BY <4>1, LedgerAssumption DEF R!Open, Fsm!Status
    <3>2. CASE Transits(s)
      BY <1>1, <1>2, <3>2 DEF StatusKept
    <3>3. QED
      BY <2>1, <2>2, <3>1, <3>2
  <2>3. w.status # Nil => Holds(s, PaymentLock(Payment(s)))
    BY <1>1, <1>2, <2>1, <2>2 DEF StatusKept
  <2>4. w.status # Nil => w.status \in Fsm!Status /\ Payment(s) \in Txns
    BY <1>2, <2>1, Arguments DEF WritesType
  <2>5. QED
    BY <2>3, <2>4
<1>6. ASSUME NEW e \in EventIds, w.jobs[e] # Nil
      PROVE  /\ Holds(s, JobLock(e)) /\ w.jobs[e] \in R!Job
             /\ w.jobs[e].state # "NONE"
             /\ w.jobs[e].state = "PENDING" => w.jobs[e].attempts < MaxAttempts
  <2>1. Holds(s, JobLock(e)) /\ w.jobs[e] \in R!Job
    BY <1>2, <1>6 DEF JobsKept, WritesType
  <2>2. \/ Claims(s) \/ Ends(s)
        \/ Ingests(s) /\ Event(s) = e /\ local[s].seen \in R!Open
    BY <1>2, <2>1 DEF LocksHeld
  <2>3. CASE Claims(s)
    <3>1. \/ R!Exhausted(e) /\ w.jobs[e] = R!Buried(e)
          \/ R!Due(e) /\ w.jobs[e] = R!Leased(e, call[s].worker)
      BY <1>2, <1>6, <2>3 DEF JobsKept
    <3>2. call[s].worker \in Workers
      BY <1>2, <2>3, Arguments
    <3>3. w.jobs[e].state \in {"DEAD", "PROCESSING"}
      BY <1>2, <3>1, <3>2, JobValues
    <3>4. QED
      BY <2>1, <3>3
  <2>4. CASE Ends(s)
    <3>1. w.jobs[e] \in {R!Completed(e), R!Rescheduled(e)}
      BY <1>2, <1>6, <2>4 DEF JobsKept, Outcome
    <3>2. QED
      BY <1>2, <2>1, <3>1, JobValues
  <2>5. CASE Ingests(s) /\ Event(s) = e /\ local[s].seen \in R!Open
    <3>1. w.jobs[e] = R!NewJob
      BY <1>1, <1>2, <1>6, <2>5 DEF JobsKept
    <3>2. R!NewJob.state = "PENDING" /\ R!NewJob.attempts = 0
      BY DEF R!NewJob
    <3>3. QED
      BY <2>1, <3>1, <3>2, LedgerAssumption
  <2>6. QED
    BY <2>2, <2>3, <2>4, <2>5
<1> HIDE DEF w
<1>7. /\ stored' \in [EventIds -> Deliveries \cup {Nil}]
      /\ \A e \in EventIds : stored'[e] # stored[e] =>
           stored[e] = Nil /\ Holds(s, EventLock(e))
  BY <1>1, <1>3, <1>4
<1>8. /\ status' \in [Txns -> Fsm!Status]
      /\ \A t \in Txns : status'[t] # status[t] => Holds(s, PaymentLock(t))
  BY <1>1, <1>3, <1>5
<1>9. referenced \subseteq referenced' /\ referenced' \in SUBSET Txns
  <2>1. w.status = "SUBMITTED" => Payment(s) \in Txns
    BY <1>5, LedgerAssumption DEF Fsm!Status
  <2>2. QED
    BY <1>1, <1>3, <2>1
<1>10. job' \in [EventIds -> R!Job]
  BY <1>1, <1>3, <1>6
<1>11. ASSUME NEW e \in EventIds, job'[e] # job[e]
       PROVE  /\ Holds(s, JobLock(e)) /\ job'[e].state # "NONE"
              /\ job'[e].state = "PENDING" => job'[e].attempts < MaxAttempts
  <2>1. w.jobs[e] # Nil /\ job'[e] = w.jobs[e]
    BY <1>1, <1>11
  <2>2. QED
    BY <1>6, <2>1
<1>12. QED
  BY <1>7, <1>8, <1>9, <1>10, <1>11

LEMMA CommitInv ==
  ASSUME IInv, NEW s \in Sessions, Commit(s)
  PROVE  IInv'
<1>1. Release(s)
  BY DEF Commit
<1>2. TypeOK'
  BY <1>1, ReleaseKeeps, CommitChanges DEF TypeOK
<1>3. PendingHasAttempts'
  <2>1. ASSUME NEW e \in EventIds, job'[e].state = "PENDING"
        PROVE  job'[e].attempts < MaxAttempts
    BY <2>1, CommitChanges DEF IInv, PendingHasAttempts
  <2>2. QED
    BY <2>1 DEF PendingHasAttempts
<1>4. ASSUME NEW u \in Sessions \ {s}
      PROVE  SessionInv(u)'
  <2>1. \A k : Holds(u, k) => ~Holds(s, k)
    BY DEF Holds
  <2>2. ASSUME NEW e \in EventIds
        PROVE  /\ stored[e] # Nil \/ Holds(u, EventLock(e)) => stored'[e] = stored[e]
               /\ job[e].state # "NONE" => job'[e].state # "NONE"
               /\ Holds(u, JobLock(e)) => job'[e] = job[e]
    BY <2>1, CommitChanges
  <2>3. /\ \A t \in Txns : Holds(u, PaymentLock(t)) => status'[t] = status[t]
        /\ referenced \subseteq referenced'
    BY <2>1, CommitChanges
  <2>4. RowsKept(u)
    BY <2>2, <2>3, SameRow DEF RowsKept
  <2>5. QED
    BY <1>1, <2>4, ReleaseKeeps, OthersKept DEF IInv
<1>5. SessionInv(s)'
  BY <1>1, ReleaseKeeps
<1>6. QED
  BY <1>2, <1>3, <1>4, <1>5 DEF IInv

(* The clock makes a lease expire or a job available; what a claim has     *)
(* chosen of the job and what the end of a lease writes of it stay.        *)
LEMMA ClockInv ==
  ASSUME IInv, Clock
  PROVE  IInv'
<1>1. PICK e \in EventIds :
        \/ job[e].state = "PROCESSING" /\ job' = [job EXCEPT ![e].expired = TRUE]
        \/ job[e].state = "PENDING" /\ job' = [job EXCEPT ![e].available = TRUE]
  BY DEF Clock
<1>2. UNCHANGED <<status, referenced, stored, sessionVars>>
  BY DEF Clock
<1>3. TypeOK /\ PendingHasAttempts /\ job \in [EventIds -> R!Job]
      /\ job[e] \in R!Job /\ job[e].attempts \in Nat /\ MaxAttempts \in Nat
  BY LedgerAssumption DEF IInv, TypeOK, R!Job
<1>4. /\ job' \in [EventIds -> R!Job]
      /\ \A f \in EventIds \ {e} : job'[f] = job[f]
  <2>1. /\ [job[e] EXCEPT !.expired = TRUE] \in R!Job
        /\ [job[e] EXCEPT !.available = TRUE] \in R!Job
    BY <1>3 DEF R!Job
  <2>2. \/ job' = [job EXCEPT ![e] = [job[e] EXCEPT !.expired = TRUE]]
        \/ job' = [job EXCEPT ![e] = [job[e] EXCEPT !.available = TRUE]]
    BY <1>1, <1>3
  <2>3. QED
    BY <1>3, <2>1, <2>2
<1>5. /\ job'[e].state = job[e].state /\ job'[e].attempts = job[e].attempts
      /\ \/ job[e].state = "PROCESSING" /\ job'[e] = [job[e] EXCEPT !.expired = TRUE]
         \/ job[e].state = "PENDING" /\ job'[e] = [job[e] EXCEPT !.available = TRUE]
  <2>1. \/ job[e].state = "PROCESSING" /\ job'[e] = [job[e] EXCEPT !.expired = TRUE]
        \/ job[e].state = "PENDING" /\ job'[e] = [job[e] EXCEPT !.available = TRUE]
    BY <1>1, <1>3
  <2>2. /\ [job[e] EXCEPT !.expired = TRUE].state = job[e].state
        /\ [job[e] EXCEPT !.expired = TRUE].attempts = job[e].attempts
        /\ [job[e] EXCEPT !.available = TRUE].state = job[e].state
        /\ [job[e] EXCEPT !.available = TRUE].attempts = job[e].attempts
    BY <1>3 DEF R!Job
  <2>3. QED
    BY <2>1, <2>2
<1>6. TypeOK'
  BY <1>2, <1>3, <1>4 DEF TypeOK, sessionVars
<1>7. PendingHasAttempts'
  BY <1>3, <1>4, <1>5 DEF PendingHasAttempts
<1>8. /\ job[e].expired = TRUE => [job[e] EXCEPT !.expired = TRUE] = job[e]
      /\ job[e].available = TRUE => [job[e] EXCEPT !.available = TRUE] = job[e]
      /\ job[e].expired \in BOOLEAN /\ job[e].available \in BOOLEAN
  BY <1>3 DEF R!Job
<1>9. /\ R!Exhausted(e) => job'[e] = job[e]
      /\ R!Due(e) => job'[e] = job[e]
  <2>1. R!Exhausted(e) => job[e].state = "PROCESSING" /\ job[e].expired = TRUE
    BY <1>3, <1>8 DEF R!Exhausted, PendingHasAttempts
  <2>2. R!Due(e) =>
          \/ job[e].state = "PROCESSING" /\ job[e].expired = TRUE
          \/ job[e].state = "PENDING" /\ job[e].available = TRUE
    BY <1>8 DEF R!Due
  <2>3. \/ job[e].state = "PROCESSING" /\ job'[e] = [job[e] EXCEPT !.expired = TRUE]
        \/ job[e].state = "PENDING" /\ job'[e] = [job[e] EXCEPT !.available = TRUE]
    BY <1>5
  <2>4. job[e].state = "PROCESSING" /\ job[e].expired = TRUE => job'[e] = job[e]
    BY <1>8, <2>3
  <2>5. job[e].state = "PENDING" /\ job[e].available = TRUE => job'[e] = job[e]
    BY <1>8, <2>3
  <2>6. QED
    BY <2>1, <2>2, <2>4, <2>5
<1>10. ASSUME NEW w \in Workers, R!Owns(w, e)
       PROVE  /\ R!Owns(w, e)'
              /\ R!Completed(e)' = R!Completed(e)
              /\ R!Rescheduled(e)' = R!Rescheduled(e)
  <2>1. job'[e] = [job[e] EXCEPT !.expired = TRUE]
    BY <1>5, <1>10 DEF R!Owns
  <2>2. QED
    BY <1>3, <1>10, <2>1 DEF R!Owns, R!Completed, R!Rescheduled, R!Job
<1>11. ASSUME NEW u \in Sessions
       PROVE  SessionInv(u)'
  <2>1. ASSUME NEW f \in EventIds
        PROVE  /\ job[f].state # "NONE" => job'[f].state # "NONE"
               /\ job[f].state = "NONE" => job'[f].state = "NONE"
               /\ R!Exhausted(f) => R!Exhausted(f)' /\ R!Buried(f)' = R!Buried(f)
               /\ R!Due(f) =>
                    R!Due(f)' /\ \A w \in Workers : R!Leased(f, w)' = R!Leased(f, w)
               /\ \A w \in Workers : R!Owns(w, f) =>
                    /\ R!Owns(w, f)'
                    /\ R!Completed(f)' = R!Completed(f)
                    /\ R!Rescheduled(f)' = R!Rescheduled(f)
    <3>1. CASE f = e
      BY <1>5, <1>9, <1>10, <3>1, SameRow
    <3>2. CASE f # e
      BY <1>4, <3>2, SameRow
    <3>3. QED
      BY <3>1, <3>2
  <2>2. RowsKept(u)
    BY <1>2, <2>1 DEF RowsKept
  <2>3. UNCHANGED <<call, at, local, writes, locks>>
    BY <1>2 DEF sessionVars
  <2>4. SessionInv(u) /\ \A k \in Locks : Holds(u, k)' <=> Holds(u, k)
    BY <2>3 DEF IInv, Holds
  <2>5. QED
    BY <1>3, <2>2, <2>3, <2>4, OthersKept
<1>12. QED
  BY <1>6, <1>7, <1>11 DEF IInv

-----------------------------------------------------------------------------
LEMMA NextInv == IInv /\ [Next]_vars => IInv'
<1> SUFFICES ASSUME IInv, [Next]_vars
             PROVE  IInv'
  OBVIOUS
<1>1. ASSUME NEW s \in Sessions,
             \/ \E c \in Calls : Start(s, c)
             \/ Statement(s) \/ Commit(s) \/ Abort(s)
      PROVE  IInv'
  BY <1>1, StartInv, StatementInv, CommitInv, AbortInv
<1>2. CASE Clock
  BY <1>2, ClockInv
<1>3. CASE UNCHANGED vars
  <2>1. UNCHANGED <<status, referenced, stored, job, call, at, local, writes, locks>>
    BY <1>3 DEF vars, tables, sessionVars
  <2>2. TypeOK' /\ PendingHasAttempts'
    BY <2>1 DEF IInv, TypeOK, PendingHasAttempts
  <2>3. ASSUME NEW u \in Sessions
        PROVE  SessionInv(u)'
    <3>1. RowsKept(u)
      BY <2>1, SameRow DEF RowsKept
    <3>2. QED
      BY <2>1, <3>1, OthersKept DEF IInv, Holds
  <2>4. QED
    BY <2>2, <2>3 DEF IInv
<1>4. QED
  BY <1>1, <1>2, <1>3 DEF Next

(* Every reachable state of the ledger's transactions satisfies IInv.      *)
THEOREM InductiveInvariant == Spec => []IInv
  BY InitInv, NextInv, PTL DEF Spec

(* Sessions, their reads and writes and the lock table keep their shape.   *)
THEOREM TypeCorrect == Spec => []TypeOK
<1>1. IInv => TypeOK
  BY DEF IInv
<1>2. QED
  BY <1>1, InductiveInvariant, PTL

-----------------------------------------------------------------------------
(* A callback or transition past its SELECT found the payment it updates.  *)
LEMMA Selected ==
  ASSUME IInv, NEW s \in Sessions, at[s] \in {"update", "outbox"}
  PROVE  /\ local[s].seen # Nil /\ Payment(s) \in Txns
         /\ Holds(s, PaymentLock(Payment(s)))
<1>1. Shape(s) /\ StatusKept(s) /\ TypeOK
  BY DEF IInv, SessionInv
<1>2. Ingests(s) \/ Transits(s)
  BY <1>1 DEF Shape
<1>3. Proceeds(s, local[s].seen)
  BY <1>1 DEF StatusKept
<1>4. local[s].seen # Nil
  <2>1. CASE Ingests(s)
    <3>1. local[s].seen \in R!Open
      BY <1>3, <2>1 DEF Proceeds, Ingests
    <3>2. QED
      BY <3>1, LedgerAssumption DEF R!Open, Fsm!Status
  <2>2. CASE Transits(s)
    <3>1. local[s].seen = call[s].from /\ call[s].from \in Fsm!Status
      BY <1>1, <1>3, <2>2, Arguments DEF Proceeds, Transits
    <3>2. QED
      BY <3>1, LedgerAssumption
  <2>3. QED
    BY <1>2, <2>1, <2>2
<1>5. QED
  BY <1>1, <1>2, <1>4, Arguments DEF StatusKept

(* Two callbacks of the same event cannot both be at its outbox row: they  *)
(* have either inserted the event, and the key is one session's, or found  *)
(* the same delivery, and the payment is one session's.                    *)
LEMMA OutboxIsFree ==
  ASSUME IInv, NEW s \in Sessions, at[s] = "outbox",
         job[Event(s)].state = "NONE"
  PROVE  Free(s, JobLock(Event(s)))
<1> DEFINE e == Event(s)
<1> SUFFICES ASSUME NEW u \in Sessions \ {s}, Holds(u, JobLock(e))
             PROVE  FALSE
  <2>1. e \in EventIds
    BY Arguments DEF IInv, SessionInv, Shape
  <2>2. locks[JobLock(e)] \in Sessions \cup {Nil}
    BY <2>1, LocksAre DEF IInv, TypeOK
  <2>3. QED
    BY <2>2 DEF Free, Holds
<1>1. Ingests(s) /\ e \in EventIds /\ EventKept(s)
  BY Arguments DEF IInv, SessionInv, Shape
<1>2. LocksHeld(u) /\ EventKept(u) /\ StatusKept(u)
  BY DEF IInv, SessionInv
<1>3. /\ Ingests(u) /\ at[u] = "commit" /\ Event(u) = e
      /\ local[u].seen \in R!Open
  BY <1>1, <1>2 DEF LocksHeld
<1>4. \A k : ~(Holds(s, k) /\ Holds(u, k))
  BY DEF Holds
<1>5. CASE stored[e] = Nil
  <2>1. Holds(s, EventLock(e))
    <3>1. call[s].delivery # Nil
      BY <1>1, Arguments, LedgerAssumption DEF IInv
    <3>2. QED
      BY <1>1, <1>5, <3>1 DEF EventKept
  <2>2. Holds(u, EventLock(e))
    <3>1. call[u].delivery # Nil
      BY <1>3, Arguments, LedgerAssumption DEF IInv
    <3>2. QED
      BY <1>2, <1>3, <1>5, <3>1 DEF EventKept
  <2>3. QED
    BY <1>4, <2>1, <2>2
<1>6. CASE stored[e] # Nil
  <2>1. call[s].delivery = stored[e] /\ call[u].delivery = stored[e]
    BY <1>1, <1>2, <1>3, <1>6 DEF EventKept
  <2>2. Payment(u) = Payment(s)
    BY <1>1, <1>3, <2>1, Arguments DEF IInv
  <2>3. Holds(s, PaymentLock(Payment(s)))
    BY Selected
  <2>4. local[u].seen # Nil
    BY <1>3, LedgerAssumption DEF R!Open, Fsm!Status
  <2>5. Holds(u, PaymentLock(Payment(u)))
    BY <1>2, <1>3, <2>4 DEF StatusKept
  <2>6. QED
    BY <1>4, <2>2, <2>3, <2>5
<1>7. QED
  BY <1>5, <1>6

(* A cycle of waits has only claims in it: the update waits for nobody, as *)
(* the payment is already the session's, nor does the outbox insert;       *)
(* whoever waits before that holds nothing, or its event alone.            *)
THEOREM ClaimsAloneDeadlock == Spec => []OnlyClaimsDeadlock
<1>1. ASSUME IInv, NEW s \in Sessions, Waiting(s), at[s] # "bury"
      PROVE  \A k \in Locks : Holds(s, k) => k[1] = "event" /\ at[s] = "select"
  <2>1. Shape(s) /\ LocksHeld(s)
    BY <1>1 DEF IInv, SessionInv
  <2>2. PICK k \in Wants(s) : ~Free(s, k)
    BY <1>1 DEF Waiting
  <2>3. at[s] \in {"event", "select", "update", "outbox", "end"}
    BY <1>1, <2>2 DEF Wants
  <2>4. at[s] # "update"
    <3>1. at[s] = "update" => k = PaymentLock(Payment(s))
      BY <2>2 DEF Wants, PaymentLock
    <3>2. QED
      BY <1>1, <2>2, <3>1, Selected DEF Free, Holds
  <2>5. at[s] # "outbox"
    <3>1. at[s] = "outbox" =>
            job[Event(s)].state = "NONE" /\ k = JobLock(Event(s))
      BY <2>2 DEF Wants, OutboxLocks, JobLock
    <3>2. QED
      BY <1>1, <2>2, <3>1, OutboxIsFree
  <2>6. at[s] \in {"event", "select", "end"}
    BY <2>3, <2>4, <2>5
  <2>7. \A e \in EventIds : Holds(s, EventLock(e)) => at[s] = "select"
    BY <2>1, <2>6 DEF LocksHeld
  <2>8. /\ \A e \in EventIds : ~Holds(s, JobLock(e))
        /\ \A t \in Txns : ~Holds(s, PaymentLock(t))
    BY <2>1, <2>6 DEF LocksHeld
  <2>9. ASSUME NEW l \in Locks, Holds(s, l)
        PROVE  l[1] = "event" /\ at[s] = "select"
    <3>1. CASE \E e \in EventIds : l = EventLock(e)
      BY <2>7, <2>9, <3>1 DEF EventLock
    <3>2. CASE \E e \in EventIds : l = JobLock(e)
      BY <2>8, <2>9, <3>2
    <3>3. CASE \E t \in Txns : l = PaymentLock(t)
      BY <2>8, <2>9, <3>3
    <3>4. QED
      BY <3>1, <3>2, <3>3 DEF Locks, EventLock, JobLock, PaymentLock
  <2>10. QED
    BY <2>9
<1>2. IInv => OnlyClaimsDeadlock
  BY <1>1 DEF OnlyClaimsDeadlock
<1>3. QED
  BY <1>2, InductiveInvariant, PTL

-----------------------------------------------------------------------------
(* What a commit makes of the tables, by its uncommitted writes. *)
LEMMA Committed ==
  ASSUME IInv, NEW s \in Sessions, Commit(s)
  PROVE  /\ at[s] = "commit" /\ call[s] \in Calls
         /\ \A e \in EventIds : ~Holds(s, JobLock(e)) =>
              writes[s].jobs[e] = Nil /\ job'[e] = job[e]
         /\ (\A e \in EventIds : writes[s].jobs[e] = Nil) => job' = job
         /\ job' = [e \in EventIds |-> IF writes[s].jobs[e] = Nil THEN job[e]
                                       ELSE writes[s].jobs[e]]
         /\ ~Ingests(s) => stored' = stored
         /\ Claims(s) \/ Ends(s) => UNCHANGED <<status, referenced>>
<1>1. /\ at[s] = "commit"
      /\ stored' = IF writes[s].event = Nil THEN stored
                   ELSE [stored EXCEPT ![EventOf[writes[s].event]] = writes[s].event]
      /\ status' = IF writes[s].status = Nil THEN status
                   ELSE [status EXCEPT ![Payment(s)] = writes[s].status]
      /\ referenced' = IF writes[s].status = "SUBMITTED"
                       THEN referenced \cup {Payment(s)} ELSE referenced
      /\ job' = [e \in EventIds |-> IF writes[s].jobs[e] = Nil THEN job[e]
                                    ELSE writes[s].jobs[e]]
  BY DEF Commit
<1>2. Shape(s) /\ EventKept(s) /\ StatusKept(s) /\ JobsKept(s) /\ TypeOK
  BY DEF IInv, SessionInv
<1>3. call[s] \in Calls
  BY <1>1, <1>2 DEF Shape
<1>4. \A e \in EventIds : ~Holds(s, JobLock(e)) =>
        writes[s].jobs[e] = Nil /\ job'[e] = job[e]
  BY <1>1, <1>2 DEF JobsKept
<1>5. (\A e \in EventIds : writes[s].jobs[e] = Nil) => job' = job
  BY <1>1, <1>2 DEF TypeOK
<1>6. ~Ingests(s) => stored' = stored
  BY <1>1, <1>2 DEF EventKept
<1>7. Claims(s) \/ Ends(s) => UNCHANGED <<status, referenced>>
  <2>1. Claims(s) \/ Ends(s) => writes[s].status = Nil
    BY <1>2, OneMethod DEF StatusKept
  <2>2. "SUBMITTED" # Nil
    BY LedgerAssumption DEF Fsm!Status
  <2>3. QED
    BY <1>1, <2>1, <2>2
<1>8. QED
  BY <1>1, <1>3, <1>4, <1>5, <1>6, <1>7

LEMMA IngestIsAtomic ==
  ASSUME IInv, NEW s \in Sessions, Commit(s), Ingests(s)
  PROVE  AtomicIngest(s)
<1> DEFINE d == call[s].delivery
           e == EventOf[d]
           t == TxnOf[d]
<1>1. /\ TypeOK /\ LocksHeld(s) /\ EventKept(s) /\ StatusKept(s) /\ JobsKept(s)
      /\ at[s] = "commit"
      /\ d \in Deliveries /\ e \in EventIds /\ t \in Txns
      /\ Event(s) = e /\ Payment(s) = t /\ NewStatus(s) = "CALLBACK_RECEIVED"
  BY Committed, Arguments, LedgerAssumption DEF IInv, SessionInv, Event
<1>2. /\ stored[e] \in {Nil, d}
      /\ stored' = [stored EXCEPT ![e] = IF @ = Nil THEN d ELSE @]
  <2>1. stored' = IF writes[s].event = Nil THEN stored
                  ELSE [stored EXCEPT ![EventOf[writes[s].event]] = writes[s].event]
    BY DEF Commit
  <2>2. \/ stored[e] = Nil /\ writes[s].event = d
        \/ stored[e] = d /\ writes[s].event = Nil
    BY <1>1 DEF EventKept
  <2>3. d # Nil /\ stored \in [EventIds -> Deliveries \cup {Nil}]
    BY <1>1, LedgerAssumption DEF TypeOK
  <2>4. CASE stored[e] = Nil
    BY <2>1, <2>2, <2>3, <2>4
  <2>5. CASE stored[e] # Nil
    BY <1>1, <2>1, <2>2, <2>3, <2>5
  <2>6. QED
    BY <2>2, <2>4, <2>5
<1>3. /\ Proceeds(s, local[s].seen) <=> local[s].seen \in R!Open
      /\ writes[s].status =
           IF local[s].seen \in R!Open /\ local[s].seen # "CALLBACK_RECEIVED"
           THEN "CALLBACK_RECEIVED" ELSE Nil
  BY <1>1 DEF StatusKept, Proceeds, Ingests
<1>4. UNCHANGED referenced
  <2>1. writes[s].status # "SUBMITTED"
    BY <1>3, LedgerAssumption DEF Fsm!Status
  <2>2. QED
    BY <2>1 DEF Commit
<1>5. local[s].seen \notin R!Open => UNCHANGED <<status, job>>
  <2>1. ASSUME local[s].seen \notin R!Open, NEW f \in EventIds
        PROVE  writes[s].jobs[f] = Nil
    <3>1. ~Holds(s, JobLock(f))
      BY <1>1, <2>1, OneMethod DEF LocksHeld
    <3>2. QED
      BY <3>1, Committed
  <2>2. local[s].seen \notin R!Open => status' = status
    BY <1>3 DEF Commit
  <2>3. QED
    BY <2>1, <2>2, Committed
<1>6. CASE local[s].seen = Nil
  <2>1. local[s].seen \notin R!Open
    BY <1>6, LedgerAssumption DEF R!Open, Fsm!Status
  <2>2. KeptUnmatched(d)
    BY <1>2, <1>4, <1>5, <2>1 DEF KeptUnmatched
  <2>3. QED
    BY <1>6, <2>2 DEF AtomicIngest
<1>7. CASE local[s].seen # Nil
  <2>1. t \in referenced /\ status[t] = local[s].seen
    BY <1>1, <1>7 DEF StatusKept
  <2>2. R!Hinted(t) <=> local[s].seen \in R!Open
    BY <2>1 DEF R!Hinted
  <2>3. R!SameIdentity(e, d)
    BY <1>2 DEF R!SameIdentity
  <2>4. CASE local[s].seen \notin R!Open
    <3>1. UNCHANGED <<status, job>>
      BY <1>5, <2>4
    <3>2. R!Ingested(d)
      BY <1>2, <1>4, <2>2, <2>3, <2>4, <3>1 DEF R!Ingested
    <3>3. QED
      BY <3>2 DEF AtomicIngest
  <2>5. CASE local[s].seen \in R!Open
    <3>1. R!SetStatus(t, "CALLBACK_RECEIVED")
      <4>1. status' = IF writes[s].status = Nil THEN status
                      ELSE [status EXCEPT ![t] = writes[s].status]
        BY <1>1 DEF Commit
      <4>2. /\ status \in [Txns -> Fsm!Status] /\ "CALLBACK_RECEIVED" # Nil
        BY <1>1, LedgerAssumption DEF TypeOK, Fsm!Status
      <4>3. CASE local[s].seen = "CALLBACK_RECEIVED"
        <5>1. status' = status /\ status[t] = "CALLBACK_RECEIVED"
          BY <1>3, <2>1, <4>1, <4>3
        <5>2. QED
          BY <1>1, <4>2, <5>1 DEF R!SetStatus
      <4>4. CASE local[s].seen # "CALLBACK_RECEIVED"
        BY <1>3, <2>5, <4>1, <4>2, <4>4 DEF R!SetStatus
      <4>5. QED
        BY <4>3, <4>4
    <3>2. job' = R!Enqueue(e)
      <4>1. writes[s].jobs[e] = IF job[e].state = "NONE" THEN R!NewJob ELSE Nil
        BY <1>1, <2>5 DEF JobsKept
      <4>2. \A f \in EventIds \ {e} : writes[s].jobs[f] = Nil
        <5>1. \A f \in EventIds \ {e} : ~Holds(s, JobLock(f))
          BY <1>1, OneMethod DEF LocksHeld
        <5>2. QED
          BY <5>1, Committed
      <4>3. R!NewJob # Nil
        <5>1. R!NewJob \in R!Job
          BY LedgerAssumption DEF R!NewJob, R!Job, R!JobStates
        <5>2. QED
          BY <5>1, LedgerAssumption
      <4>4. job \in [EventIds -> R!Job]
        BY <1>1 DEF TypeOK
      <4>5. job' = [f \in EventIds |-> IF writes[s].jobs[f] = Nil THEN job[f]
                                       ELSE writes[s].jobs[f]]
        BY Committed
      <4>6. CASE job[e].state = "NONE"
        BY <1>1, <4>1, <4>2, <4>3, <4>4, <4>5, <4>6 DEF R!Enqueue
      <4>7. CASE job[e].state # "NONE"
        BY <1>1, <4>1, <4>2, <4>4, <4>5, <4>7 DEF R!Enqueue
      <4>8. QED
        BY <4>6, <4>7
    <3>3. R!Ingested(d)
      BY <1>2, <1>4, <2>2, <2>3, <2>5, <3>1, <3>2 DEF R!Ingested
    <3>4. QED
      BY <3>3 DEF AtomicIngest
  <2>6. QED
    BY <2>4, <2>5
<1>8. QED
  BY <1>6, <1>7

LEMMA NoSelfLoop ==
  ASSUME NEW st \in Fsm!Status
  PROVE  st \notin Fsm!ALLOWED_TRANSITIONS[st]
  BY DEF Fsm!Status, Fsm!ALLOWED_TRANSITIONS

LEMMA TransitionIsAtomic ==
  ASSUME IInv, NEW s \in Sessions, Commit(s), Transits(s)
  PROVE  AtomicTransition(call[s])
<1> DEFINE c == call[s]
<1>1. /\ TypeOK /\ LocksHeld(s) /\ StatusKept(s) /\ at[s] = "commit"
      /\ c.txn \in Txns /\ c.from \in Fsm!Status /\ c.to \in Fsm!Status
      /\ Payment(s) = c.txn /\ NewStatus(s) = c.to
      /\ c.to \in Fsm!ALLOWED_TRANSITIONS[c.from]
  BY Committed, Arguments DEF IInv, SessionInv, Shape
<1>2. status[c.txn] = local[s].seen
  BY <1>1 DEF StatusKept
<1>3. R!CanTransition(c.txn, c.from, c.to) <=> status[c.txn] = c.from
  BY <1>1 DEF R!CanTransition, R!Fsm!ALLOWED_TRANSITIONS, Fsm!ALLOWED_TRANSITIONS
<1>4. /\ writes[s].status = IF status[c.txn] = c.from THEN c.to ELSE Nil
      /\ c.to # Nil
  <2>1. Proceeds(s, local[s].seen) <=> local[s].seen = c.from
    BY DEF Proceeds, Transits
  <2>2. c.from # c.to /\ c.to # Nil
    BY <1>1, NoSelfLoop, LedgerAssumption
  <2>3. writes[s].status = IF /\ Proceeds(s, local[s].seen)
                              /\ local[s].seen # NewStatus(s)
                           THEN NewStatus(s) ELSE Nil
    BY <1>1 DEF StatusKept
  <2>4. QED
    BY <1>1, <1>2, <2>1, <2>2, <2>3
<1>5. UNCHANGED <<stored, job>>
  <2>1. \A e \in EventIds : ~Holds(s, JobLock(e))
    BY <1>1, OneMethod DEF LocksHeld
  <2>2. QED
    BY <2>1, Committed, OneMethod
<1>6. /\ status' = IF writes[s].status = Nil THEN status
                   ELSE [status EXCEPT ![c.txn] = writes[s].status]
      /\ referenced' = IF writes[s].status = "SUBMITTED"
                       THEN referenced \cup {c.txn} ELSE referenced
  BY <1>1 DEF Commit
<1>7. "SUBMITTED" # Nil
  BY LedgerAssumption DEF Fsm!Status
<1>8. QED
  BY <1>3, <1>4, <1>5, <1>6, <1>7 DEF AtomicTransition, R!SetStatus

LEMMA ClaimIsAtomic ==
  ASSUME IInv, NEW s \in Sessions, Commit(s), Claims(s)
  PROVE  AtomicClaim(call[s])
<1> DEFINE buried == {e \in EventIds : writes[s].jobs[e] # Nil /\ R!Exhausted(e)}
           claimed == Got(s)
           v == call[s].worker
<1>1. JobsKept(s) /\ GotBounded(s) /\ TypeOK /\ v \in Workers
  BY Arguments DEF IInv, SessionInv
<1>2. ASSUME NEW e \in EventIds, writes[s].jobs[e] # Nil
      PROVE  \/ /\ R!Exhausted(e) /\ writes[s].jobs[e] = R!Buried(e)
                /\ e \in buried
             \/ /\ R!Due(e) /\ writes[s].jobs[e] = R!Leased(e, v)
                /\ e \notin buried /\ e \in claimed
  <2>1. \/ R!Exhausted(e) /\ writes[s].jobs[e] = R!Buried(e)
        \/ R!Due(e) /\ writes[s].jobs[e] = R!Leased(e, v)
    BY <1>1, <1>2 DEF JobsKept
  <2>2. CASE R!Exhausted(e) /\ writes[s].jobs[e] = R!Buried(e)
    BY <1>2, <2>2
  <2>3. CASE R!Due(e) /\ writes[s].jobs[e] = R!Leased(e, v)
    <3>1. ~R!Exhausted(e) /\ writes[s].jobs[e].state = "PROCESSING"
      BY <1>1, <2>3, JobValues
    <3>2. QED
      BY <1>2, <2>3, <3>1 DEF Got
  <2>4. QED
    BY <2>1, <2>2, <2>3
<1>3. \A e \in claimed : R!Due(e) /\ writes[s].jobs[e] # Nil
  <2>1. ASSUME NEW e \in claimed
        PROVE  R!Due(e) /\ writes[s].jobs[e] # Nil
    <3>1. e \in EventIds /\ writes[s].jobs[e] # Nil
          /\ writes[s].jobs[e].state = "PROCESSING"
      BY DEF Got
    <3>2. R!Exhausted(e) => R!Buried(e).state = "DEAD"
      BY <1>1, <3>1, JobValues
    <3>3. QED
      BY <1>2, <3>1, <3>2
  <2>2. QED
    BY <2>1
<1>4. job' = [e \in EventIds |-> IF e \in buried THEN R!Buried(e)
                                 ELSE IF e \in claimed THEN R!Leased(e, v)
                                 ELSE job[e]]
  <2>1. ASSUME NEW e \in EventIds
        PROVE  (IF writes[s].jobs[e] = Nil THEN job[e] ELSE writes[s].jobs[e]) =
                 IF e \in buried THEN R!Buried(e)
                 ELSE IF e \in claimed THEN R!Leased(e, v) ELSE job[e]
    <3>1. CASE writes[s].jobs[e] = Nil
      <4>1. e \notin buried /\ e \notin claimed
        BY <1>3, <3>1
      <4>2. QED
        BY <3>1, <4>1
    <3>2. CASE writes[s].jobs[e] # Nil
      BY <1>2, <3>2
    <3>3. QED
      BY <3>1, <3>2
  <2> HIDE DEF buried, claimed
  <2>2. QED
    BY <2>1, Committed
<1>5. /\ buried \in SUBSET EventIds /\ claimed \in SUBSET EventIds
      /\ \A e \in buried : R!Exhausted(e)
      /\ Cardinality(claimed) <= Limit
  BY <1>1 DEF Got, GotBounded
<1> HIDE DEF buried, claimed
<1>6. R!Claimed(v, buried, claimed)
  <2>1. R!Cardinality(claimed) = Cardinality(claimed)
    BY DEF R!Cardinality, Cardinality
  <2>2. QED
    BY <1>3, <1>4, <1>5, <2>1 DEF R!Claimed
<1>7. UNCHANGED <<status, referenced, stored>>
  BY Committed, OneMethod
<1>8. QED
  BY <1>5, <1>6, <1>7 DEF AtomicClaim

LEMMA EndIsAtomic ==
  ASSUME IInv, NEW s \in Sessions, Commit(s), Ends(s)
  PROVE  AtomicEnd(call[s])
<1> DEFINE c == call[s]
<1>1. JobsKept(s) /\ TypeOK /\ c.job \in EventIds
  BY Arguments DEF IInv, SessionInv
<1>2. \A e \in EventIds : writes[s].jobs[e] # Nil =>
        e = c.job /\ R!Owns(c.worker, e) /\ writes[s].jobs[e] = Outcome(c)
  BY <1>1 DEF JobsKept
<1>3. CASE writes[s].jobs[c.job] = Nil
  BY <1>2, <1>3, Committed, OneMethod DEF AtomicEnd
<1>4. CASE writes[s].jobs[c.job] # Nil
  <2>1. job \in [EventIds -> R!Job]
    BY <1>1 DEF TypeOK
  <2>2. job' = [job EXCEPT ![c.job] = Outcome(c)]
    BY <1>1, <1>2, <1>4, <2>1, Committed
  <2>3. R!EndLease(c.worker, c.job, Outcome(c))
    BY <1>1, <1>2, <1>4, <2>2 DEF R!EndLease
  <2>4. QED
    BY <2>3, Committed, OneMethod DEF AtomicEnd
<1>5. QED
  BY <1>3, <1>4

(* The statements of concurrent calls interleave and any connection may    *)
(* die, and yet each method does at its commit what Reconciliation has it  *)
(* do in one step, and nothing but a commit and the clock touches the      *)
(* tables.                                                                 *)
THEOREM CallsTakeEffectAtOnce == Spec => CallsAreAtomic
<1> DEFINE Atomic == /\ \A s \in Sessions : Commit(s) => AtOnce(s)
                     /\ UNCHANGED tables \/ Clock \/ \E s \in Sessions : Commit(s)
<1>1. ASSUME IInv, NEW s \in Sessions, Commit(s)
      PROVE  AtOnce(s)
  <2>1. Ingests(s) \/ Transits(s) \/ Claims(s) \/ Ends(s)
    BY <1>1, Committed DEF Calls, Ingests, Transits, Claims, Ends
  <2>2. CASE Ingests(s)
    BY <1>1, <2>2, IngestIsAtomic DEF AtOnce, Ingests
  <2>3. CASE Transits(s)
    BY <1>1, <2>3, TransitionIsAtomic DEF AtOnce, Transits
  <2>4. CASE Claims(s)
    BY <1>1, <2>4, ClaimIsAtomic DEF AtOnce, Claims
  <2>5. CASE Ends(s)
    BY <1>1, <2>5, EndIsAtomic DEF AtOnce, Ends
  <2>6. QED
    BY <2>1, <2>2, <2>3, <2>4, <2>5
<1>2. ASSUME [Next]_vars
      PROVE  UNCHANGED tables \/ Clock \/ \E s \in Sessions : Commit(s)
  <2>1. CASE UNCHANGED vars
    BY <2>1 DEF vars
  <2>2. ASSUME NEW s \in Sessions,
               (\E c \in Calls : Start(s, c)) \/ Statement(s) \/ Abort(s)
        PROVE  UNCHANGED tables
    BY <2>2 DEF Start, Abort, Statement, InsertEvent, RefuseEvent, SelectPayment,
                UpdatePayment, InsertJob, Bury, StartLease, EndClaim, EndJob,
                ReachExhausted, LeaseRow, SkipRow
  <2>3. QED
    BY <1>2, <2>1, <2>2 DEF Next
<1>3. IInv /\ [Next]_vars => [Atomic]_vars
  BY <1>1, <1>2
<1>4. QED
  BY <1>3, InductiveInvariant, PTL DEF Spec, CallsAreAtomic
=============================================================================
