# AgentBridge Africa: TLA+ verification project

AgentBridge lets AI agents quote and execute payments over African payment rails under budgets, human approval and
durable reconciliation. This directory specifies its control logic in TLA+, model-checks it with TLC on small
instances and proves its main safety properties with TLAPS for instances of every size.

| if you want to know | read |
|---|---|
| what the system consists of and what can go wrong in it | [Inventory](#inventory) |
| which module models which code | [Modules](#modules), and `map` in PROJECT.json for the lines of every definition |
| what is checked, on which instances | [Runs](#runs) |
| what is proved, and how | [Proofs](#proofs) |
| where the code and its documents disagree | [Findings](#findings) |
| what the models leave out | [Abstractions](#abstractions) and [Not modelled](#not-modelled) |
| what comes next | [Plan](#plan) |

```
tlc -workers 2 -config recon_core.cfg MCReconciliation     # one run; the tables below pair runs with modules
tlapm ReconciliationProofs.tla                             # one proof module
```

## Inventory

Paths are relative to the repository. Components in **bold** are modelled.

### Money and its ledger

**Payment lifecycle ledger** (`agentbridge/core/payment_lifecycle.py`, `agentbridge/migrations/*.sql`). State: one row
per payment (status, `provider_reference`), a table of webhook events unique on (provider, event id), and an outbox with
one reconciliation job per event (state, attempts, who locked it and when, when it is available again). Operations, each one database
transaction: `transition`, `ingest_webhook`, `claim_reconciliation_jobs`, `complete_...`, `reschedule_...`,
`get_by_provider_reference`. Each method runs several statements that wait for row locks. Its correctness: a payment is final only with the provider's word for it and then for good;
every callback for a known open payment has a job; a lease belongs to one worker; attempts are bounded; every job ends.

**Webhook handler, reconciler, outbox worker** (`agentbridge/webhooks/handlers.py`) with **signature verification**
(`security.py`) and **payload minimisation** (`redaction.py`). No state beyond a worker's local
variables and the key of the sanitizer, which is what makes it hard: `reconcile` reads a row, awaits the provider, and transitions what it read;
`run_once` walks a batch whose leases may run out under it, and each of its database calls may fail before or after the
commit; `handle` sees the same callback again after its key was rotated. Calls the ledger and the payment connectors, is
called by providers (callbacks) and by pollers. Correctness of the intake: what was acknowledged once is acknowledged
again; what the handler keeps the repository accepts; evidence names the people of its callback and nobody else.

**Rail router and payment engine** (`agentbridge/core/rail_switch.py`, `agentbridge/payments/engine.py`,
`registry.py`). Stateless: `initiate` picks a rail from the health snapshot of the moment and the capability pack that
serves it. Hard: every retry picks anew. Correctness: a retry reaches the provider of the first attempt, or none.

**Provider connectors** (`agentbridge/payments/{daraja,paystack,mtn_momo}.py`). Stateless; each authenticates, posts
and maps the answer to a `ConnectorResult`. Hard: lost, late and unreadable answers, retries while the first request is
on its way. Correctness: a payment is made once per intent, nothing is on its way behind a failure, and a result comes with a
reference that finds the payment; Daraja's connector gives less (see [Findings](#findings)).

### Agents and their limits

**Agent router** (`agentbridge/core/router.py`) with **circuit breaker** (`circuit_breaker.py`), **budget guardian**
(`budget_guardian.py`), **HITL gate** (`hitl.py`) and **timeout budget** (`timeouts.py`). State: per run an `AgentState` (status, spending, `http_status`, pending ticket, confirmations,
fallback queue), shared by all runs a breaker per provider and the tickets. Operations: `gate`, `dispatch`, `charge`,
`decide`. Hard: nothing is locked, so while one thread's tool function runs, or while it asks the clock in a method of the
breaker, others dispatch, charge costs and decide tickets; and the function
may time out, end late or leave by an exception the breaker does not count. Correctness: no destructive tool without
accepted evidence, overspending is flagged and the stop is final, breakers neither leak nor jam.

**Goal orchestrator** (`agentbridge/core/orchestrator.py`, `policy.py`, `tools/payment_adapter.py`) and **OSCAL evidence
exporter** (`agentbridge/compliance/oscal_exporter.py`). `run_quote_goal` takes one goal through AML limit, quote,
verification, approval and execution, charging as it goes, and writes two evidence files. State: the `BridgeState` of
the call, the files on disk. Hard: every call pays under a new key, so only what the previous call returned keeps the
goal from being paid twice; the disk fails and the process dies between the steps. Correctness: one payment per goal,
only if approved, verified and within the cap, and evidence that tells what happened.

**OAuth provider** (`agentbridge/core/oauth.py`). State: authorization codes and access tokens, each with what it was
granted for and when it expires. Operations: `authorize`, `exchange`, `introspect`. The router takes the claims that
`introspect` returned, and tests their scopes. Hard: codes are repeated, tried by other clients, used up by exchanges that fail; claims
grow old between introspection and use. Correctness: one token per code, for its own client and scopes; nothing runs that was not granted.

**Encrypted checkpointing** (`agentbridge/core/checkpointing.py`) and **graph wiring** (`graph.py`). State: the newest
checkpoint row of each run in PostgreSQL, the saver a process has open and its key. Operations: opening a saver, `put`, loading. Hard: processes die between nodes,
come back with another key or none, and find rows of LangGraph's stock saver. Correctness: nothing at rest in the clear, and a run
continues exactly where its last checkpoint left it.

### The rest

Versioned state records, telemetry, payment models and HTTP transport, the MCP tool server, compatibility packages,
the evaluation harness and the dashboard: see [Not modelled](#not-modelled).

### How the parts meet

```
 agent ──> AgentRouter.dispatch ──> tool fn ──> ProductionPaymentEngine ──> connector ──> provider
             │ BudgetGuardian                                                               │
             │ gate: key, scope (OAuth claims), HITL                                        │ callback
             │ CircuitBreaker[provider]                                                     v
             └ call_with_timeout                       poller ──┐              WebhookHandler.handle
 caller ──> run_quote_goal ──> PaymentAdapter                   v                           │ ingest_webhook
             │ BudgetGuardian                          Reconciler.reconcile <── OutboxWorker.run_once
             └ export_oscal_results                       │ transition             │ claim / complete / reschedule
                                                          └──────────> ledger <────┘
```

There is no code in the repository that drives the ledger from the engine: the application that records a submission is
outside it and is modelled by what the ledger lets it do (`RequestApproval`, `Abandon`, `RecordSubmission`).

## Modules

| module | models | kind |
|---|---|---|
| `PaymentFsm` | what the ledger promises about one payment: `ALLOWED_TRANSITIONS` (payment_lifecycle.py), moves driven by the head-end | abstract specification |
| `Reconciliation` | ledger, handler, reconciler, outbox workers, pollers, provider, application; `INSTANCE PaymentFsm` | detailed specification |
| `Callbacks` | `WebhookHandler.handle` and `_event_identity`: which event and which payment a callback names | pure operators |
| `CircuitBreaker` | the uninterrupted stretches of the methods of `CircuitBreaker`, as operators on its record | pure operators |
| `AgentRouter` | `dispatch` and `gate` with budget guardian, HITL gate, timeout budget; extends `CircuitBreaker` | specification |
| `LedgerTransactions` | the repository methods statement by statement with row locks; `INSTANCE Reconciliation` for what each does at once | detailed specification |
| `Redaction` | `WebhookPayloadSanitizer` and the repository's check of its output | pure operators |
| `WebhookIntake` | `WebhookHandler.handle` with verifiers, sanitizer and key rotation in front of the ledger; extends `Reconciliation`, instantiates `Callbacks` and `Redaction` | composition |
| `OAuth` | `OAuth21Provider` | specification |
| `AuthorizedRouter` | the router behind the OAuth provider; extends `AgentRouter`, instantiates `OAuth` | composition |
| `Checkpointing` | the encrypting savers, the graph of nodes and the processes that run it | specification |
| `Submission` | rail selection, engine and the three connectors, provider and network | specification |
| `OscalExport` | `export_oscal_results` as two atomic replacements | component of `Orchestrator` |
| `Orchestrator` | `run_quote_goal`, its caller, process death, later assessments; extends `OscalExport` | specification |
| `MC*` | instances for TLC | |
| `*Proofs` | theorems of the module they are named for | |

An operator named `Op_Bug` stands before `Op` and is `Op` with a bug somebody might write: a dropped guard, a missing
reset, an error mapped to the wrong status. No specification uses it. Put in the place of `Op` it makes TLC find a
counterexample to the property it is paired with under `mutants` in PROJECT.json, so each property is known to depend on
the code it is about.

### Ledger (`Reconciliation`)

| model | code |
|---|---|
| `status`, `referenced` | columns `status`, `provider_reference` of `payment_transactions` |
| `stored` | `webhook_events`: the delivery kept under each event id |
| `job` | the outbox row of each event; `expired` says that `locked_at` is longer ago than a lease lasts, `available` that `available_at` has passed |
| `headEnd` | the provider's own record of the payment |
| `pc`, `batch`, `frame` | where a worker or poller is, the jobs it has yet to take, the locals of `reconcile` |
| `IngestWebhook` | `ingest_webhook`: identity conflict, insert, callback hint, enqueue, all in one transaction |
| `Claim` | `claim_reconciliation_jobs`: burying exhausted jobs, then leasing due ones |
| `NextJob`, `Begin`, `StartPoll` | the loop head of `run_once`; entry to `reconcile` |
| `QueryFinal`, `QueryUncertain`, `QueryRaises` | `await query_transaction_status` and how its answer is mapped |
| `Finalize`, `Return`, `Raise` | the rest of `reconcile` |
| `Settle`, `Recover` | complete or reschedule; the `except` clause |
| `...Fails(committed)` | the same call raising after (`TRUE`) or before (`FALSE`) its commit |
| `Crash`, `LeaseExpires`, `BackoffElapses` | death of a process, and time |
| `RecordSubmission`, `RequestApproval`, `Abandon`, `ProviderDecides` | the application and the provider |

A database transaction is one action. Between two awaits a process takes one step; at an await everything else moves.

### Router (`AgentRouter`, `CircuitBreaker`)

`run[r]` is the run's `AgentState`, `breaker[p]` the provider's breaker, `ticket` the HITL tickets, `call[r]` the tool
function the run waits for. `Dispatch` is everything up to that function, in the code's order: `Stopped` (budget),
`Blocked` (key, scope), `Degraded` (offline), `Paused` (ticket), `CircuitRejects`, `Invoke`. `TimerFires` and `FnEnds`
are the timeout and the function; `Return`, `RaiseError`, `RaiseTimeout`, `RaiseCircuitOpen`, `RaiseInterrupt` handle how it ended and
update breaker and status. `Charge` and `Decide` happen at any time, `Cool` is `recovery_timeout_s` passing.

Dispatches overlap only as threads, and no method of the breaker takes a lock. A thread may be stopped at a call, and two methods call the clock
between two accesses to the breaker; there they are two actions. `_maybe_half_open` (circuit_breaker.py:51) reads `open`, asks the clock, and then writes
`half_open`: `FindsOpen` is the reading and `Wake` the rest, which does not look at the state again (`StillRejected`,
`NowInvoked`). `_on_failure` sets `open` and asks the clock before it writes `opened_at`: `OpenBreaker`, then `RaiseOpened`. Between
the test of the probes and their count (lines 36 to 40), and in `_on_success`, nothing is called. A charge between `intercept` and the tool function is taken as one made while the function
runs: the run has been let through either way.

`AuthorizedRouter` adds `code`, `access` (the provider's `_codes` and `_tokens`) and `claims[r]`, the token whose claims the
caller of run `r` passes. `Authorize`, `Exchange` and `IntrospectExpired` are the provider's methods (`Redeems` is all that `exchange`
checks, `Spent` the `pop` that comes before); `CodeExpires` and `AccessExpires` are time. `Introspect` gives a caller claims and
`DispatchWithClaims` is `Dispatch` with their scopes. Runs outside `Remote` are local and pass no token.

### Ledger statements (`LedgerTransactions`)

`call[s]` is the method a session runs, `at[s]` its next statement, `writes[s]` what it has written and not committed,
`locks` who holds each row or unique key. `InsertEvent`, `SelectPayment`, `UpdatePayment`, `InsertJob` are the statements of
`ingest_webhook` (the middle two also those of `transition`); `ReachExhausted` and `Bury` the `UPDATE` without `SKIP LOCKED`, row by row;
`LeaseRow`, `SkipRow` and `EndClaim` the `SELECT ... SKIP LOCKED`; `EndJob` complete and reschedule. `Commit` publishes,
`Abort` is a lost connection, a failing statement or the victim of a deadlock. The semantics of locks is PostgreSQL's at
READ COMMITTED: a statement reads a snapshot, waits for a row somebody has locked and looks at it again.

### Intake (`WebhookIntake`, `Redaction`, `Callbacks`)

`keyId` is the sanitizer key in use, `evidence[e]` the payload kept with event `e`, `acknowledged` the requests answered
with 200. `Handle` is `handle` in the code's order: `Authentic` (verifier), `Valid` (identity), `Readable` and `Kept`
(sanitizer), `Validates` and `IngestWebhook` (repository). A failure on the way raises and leaves no trace, so a request
that does not pass has no action. Decoded JSON is a tagged record; digests are the tuples they are computed from.
`Parts` is everything the recursive `visit` reaches, gathered level by level down to `MaxNesting`, so that proofs can use the module.

### Checkpoints (`Checkpointing`)

`serde` is the key of the open saver, `run[t]` the graph state a process holds (`dirty` until it is saved), `saved[t]` the
newest row, `kept[t]` a ghost of the state it was made of. `Open` is `_checkpoint_serde`, `Put` is `put`/`aput` with `Prepare`,
`Invoke` starts a run or loads its row (`Loads` says whether `_restore_checkpoint` raises), `RunNode` is a node of `compile_payment_graph`, `Crash` the end of
the process. Initially a thread may have a row the stock saver wrote.

### Submission (`Submission`)

`attempt[a]` is a call of `initiate` with the `ConnectorResult` it returned; `request[a]` is its POST as the provider
knows it (unsent; sent, and perhaps never arriving; rejected, a duplicate, or accepted and later settled). `Route` and `Unroutable` are `RailRouter.select` and
the engine; `AuthFails`, `Post`, `Receive`, `Submitted`, `Rejected`, `Uncertain`, `UncertainNamed`, `Unreadable` the
connectors; `SettlePayment` the provider; `Query` is `query_transaction_status`. The default route table is the code's.

### Orchestrator (`Orchestrator`, `OscalExport`)

`CheckLimits`, `Quote`, `Verify`, `Approve`, `Execute` are the stages of `run_quote_goal` in order, `ExportStep` and
`ExportFails` the evidence export of `_emit_oscal` or of the guardian's `_trip`. `Invoke` is the caller, who calls again
after `failed` or `awaiting_hitl` only. `Reassess` is a later export for the same run id; `Crash` is process death, also
between the two file replacements.

## Runs

All properties are stated in the specification modules, each under a comment that says what it means. TypeOK is the one
type invariant of each module.

| run | module | distinct states | instance | shows |
|---|---|---|---|---|
| `recon_core` | MCReconciliation | 79,957 | 1 payment, 2 Paystack callbacks told apart by their bodies, 2 workers, batches of 2, 2 attempts | leases belong to one worker, attempts are bounded, finality is the head-end's, completed jobs are final; the ledger implements `PaymentFsm`; every job ends COMPLETED or DEAD |
| `recon_orphans` | MCReconciliation | | 1 payment, 1 worker | finding 1 |
| `ledger_transactions` | MCLedgerTransactions | 914,823 | 2 sessions, 1 payment, 3 deliveries on 2 event ids (one an identity conflict), 2 workers, batches of 2, 1 attempt | every method takes effect in one step, at its commit; only burying claims can deadlock |
| `webhook_intake` | MCWebhookIntake | 190,640 | 8 requests of 3 providers for 2 payments (nested, listed and typed personal data, an unknown status, a phone number without digits, a body changed after signing, no reference, one event header for both payments), 2 keys, 1 poller | redeliveries are acknowledged, lists agree, evidence names its people; callbacks are tracked |
| `router_core` | MCAgentRouter | 458,314 | 2 runs, 1 provider, the push tool, 1 ticket, cap 1, spending up to 3, runs resumed at the cap or far over it, threshold 2, 1 probe, functions that return, raise or time out | budget flags and stops, confirmations and breakers under overlapping threads; no breaker rejects for ever |
| `router_oauth` | MCAuthorizedRouter | 814,068 | an online run with claims, an offline one without, push and query, threshold 1, every way for a tool to end; 2 clients, verifiers, redirect URIs, codes and tokens, two scopes | one token per grant; nothing runs that was not granted |
| `router_stuck_probe` | MCAgentRouter | | 1 run, functions that also end uncounted | finding 2 |
| `router_hitl` | MCAgentRouter | | 1 run, 1 ticket | finding 3 |
| `submission_retries` | MCSubmission | 147,947 | 5 corridors, 3 attempts, `mtn_momo` and `paystack` going down between them | one provider per intent, one payment per keyed intent, nothing on its way behind a failure, references that find a keyed payment, verdicts that stand |
| `submission_daraja` | MCSubmission | | 1 Kenyan intent, 2 attempts | finding 4 |
| `orchestrator_goal` | MCOrchestrator | 87,188 | 2 calls, amounts 0..2 around an AML limit of 1, caps of 0, 1 and 3 thousandths of a dollar, all connectivities and faults | one payment per goal, only behind every gate; budget stops; evidence that is true |
| `checkpointing` | MCCheckpointing | 32,715 | a run with an opaque id, one with a customer's id, 2 keys and none, 3 nodes, a primitive and a structured channel | nothing in the clear; runs continue from their last checkpoint |

Why these bounds suffice. Two workers are what a lease can be lost to; two attempts give one that is the last and one
that is not; two callbacks of one payment give two jobs that race to finish it, and two payments under one event id are what an
identity conflict needs. Two sessions are every pair of methods that can meet, which is what a race or a cycle of waits takes; with one attempt
the second claim of a job buries it. One key rotation separates evidence under the old key from evidence under the new. Two runs give the
router every overlap of an old call with a new one; threshold 2 separates the
first failure from the last; a run resumed at the cap of 1 goes over it by its own charge (2, and 3 if a charge is accepted after the stop),
and one resumed at 3 is over it before its first.
Two clients with two codes and two tokens are what a mixed-up or repeated exchange takes. Three nodes give a checkpoint that is
the first, one in the middle and the last; two keys a restart under the wrong one.
Three attempts at a submission give a first, a retry, and a retry of the retry while the first is still on its way. The orchestrator's
amounts are refused (0), allowed, and over the limit; its caps stop the quote (0), stop the execution (1) and stop
nothing (3); a second call is what a double payment needs.

Symmetry (of sessions and workers, of OAuth clients, codes and tokens, of keys, of attempts) is declared in safety runs only. `CHECK_DEADLOCK FALSE` is set where the system
does stop: in the ledger when all payments are final and all jobs closed and no process has anything to do, in
`Submission` when every attempt has returned and every payment is settled, and where a bound stops it (codes and tokens used
up, a run at its last node). In `LedgerTransactions` a deadlock of sessions is no deadlock of the model, because PostgreSQL
aborts a victim; `OnlyClaimsDeadlock` is about the waits instead. The router alone and the orchestrator never stop
(a budget-stopped run still answers its dispatches; evidence may always be reassessed), so there the deadlock check is on.

### Fairness

| specification | assumed | justified by |
|---|---|---|
| ledger, `FairSpec` | WF of `RunOnce(w)` for each worker, of `LeaseExpires` and `BackoffElapses` | the worker is a loop around `run_once`; a call to the database ends, with an exception if need be; clocks run |
| router, `RouterFairness` | WF of timers, of `Wake`, `OpenBreaker` and `Finish`, of `Cool` | threads that asked the clock or left the function run on through straight-line code; time passes |
| router, `ProviderFairness` | WF of `FnEnds(r, _)` | HTTP clients have timeouts of their own. It is what `RejectsNotForever` is conditional on, because `call_with_timeout` leaves the pool's `with` block only when the function has ended; no property says that a timeout ends anything |
| Submission, orchestrator, `LedgerTransactions`, `WebhookIntake`, `AuthorizedRouter`, `Checkpointing` | nothing | safety only |

Nothing is assumed of providers, callbacks, the application, operators or pollers; calls may fail every time and workers
may crash for ever.

## Proofs

TLAPS checks the theorems below for every set of payments, events, sessions, workers, pollers, runs, providers, tools, tokens,
requests, keys, threads and intents, and for every bound. They rest on the named assumptions on the constants only, each of which
TLC evaluates in every run of its module. These say that the constants are of the right kind (numbers are numbers, limits that the
code requires positive are positive, workers are not pollers, a null is no value: `ConstantsAssumption`, `LedgerAssumption`,
`BreakerAssumption`, `RouterAssumption`, `AuthAssumption`, `OAuthAssumption`, `OrchestratorAssumption`, `NoFileAssumption`, `NilAssumption`), and
a little of what they are: a graph state has a channel (`CheckpointingAssumption`), an intent's corridor is one the default route table knows
(`SubmissionAssumption`), a verified callback has one of the three providers there are verifiers for and its event is a delivery
(`IntakeAssumption`). One theorem, `EvidenceNamesItsPeople`, has a hypothesis of its own, named in its row.

| module | theorem | establishes |
|---|---|---|
| `ReconciliationProofs` | `InductiveInvariant`, `TypeCorrect` | the invariant below, and types |
| | `Finality` | `FinalityFromHeadEnd`: a final status has the provider's word behind it |
| | `OutboxSound` | `CompletedImpliesFinal`: a COMPLETED job's payment is final |
| | `CallbacksTracked` | `CallbackTracked`: a payment moved by a callback has a job |
| | `LeasesSafe`, `LeaseBudget` | `LeaseRespected`, `LeasesBounded` |
| | `Refinement` | `LedgerImplementsFsm`: the ledger implements `PaymentFsm` |
| `AgentRouterProofs` | `InductiveInvariant`, `TypeCorrect` | the invariant below, and types |
| | `OverspendIsFlagged`, `HardStop` | `OverspendFlagged`, `StoppedRunsStayStopped` |
| | `CallsConfirmed` | `ConfirmedCalls`: no destructive call without accepted evidence |
| | `BreakersSoundness` | `BreakersConsistent`, for any number of threads and with every late write of theirs |
| `OrchestratorProofs` | `OrchestratorInvariant`, `OrchestratorTypeCorrect` | the invariant below, and types |
| | `GoalPaidOnce`, `OnlyApprovedPayments`, `BudgetStopsHard` | `PaysOncePerGoal`, `PaymentsAreApproved`, `HardStop` |
| | `EvidenceIsTrue`, `PlansFitAssessments` | `EvidenceTellsOutcome`, `PlanFollowsAssessment` |
| `LedgerTransactionsProofs` | `InductiveInvariant`, `TypeCorrect` | the invariant below, and types |
| | `CallsTakeEffectAtOnce` | `CallsAreAtomic`: each method is one step of `Reconciliation`, at its commit |
| | `ClaimsAloneDeadlock` | `OnlyClaimsDeadlock`, for any number of sessions |
| `WebhookIntakeProofs` | `IntakeImplementsLedger` | `IntakeSpec => Spec`: every step of the intake is one of `Reconciliation` or none |
| | `IntakeInvariant`, `IntakeTypeCorrect` | the invariant below, and `IntakeTypeOK` |
| | `RedeliveriesAccepted`, `IntakeCallbacksTracked` | `RedeliveryAcknowledged`, `CallbackTracked` |
| | `ProjectionsPass` | `ProjectionsAccepted`, for any JSON |
| | `EvidenceNamesItsPeople` | `SubjectsRecognised`, given that `Found` finds whom each body speaks of (`Subjects`) |
| `AuthorizedRouterProofs` | `AuthImplementsRouter` | `AuthSpec => Spec`: the composition implements `AgentRouter` |
| | `AuthInvariant`, `AuthTypeCorrect` | the invariant below, and `AuthTypeOK` |
| | `GrantsAreSingleUse`, `LeastPrivilegeHolds` | `OneTokenPerGrant`, `LeastPrivilege` |
| `CheckpointingProofs` | `InductiveInvariant`, `TypeCorrect` | the invariant below, and types |
| | `Confidential`, `Continuity` | `ConfidentialAtRest`, `ContinuesFromCheckpoint` |
| `SubmissionProofs` | `InductiveInvariant`, `TypeCorrect` | the invariant below, and types |
| | `OneProvider`, `PaidOnce` | `OneProviderPerIntent`, `PaysOnce` |
| | `FailuresLeaveNothing` | `FailuresAreOver`: nothing is on its way behind a failure, and nothing was paid behind one of MTN's |
| | `ResultsReconcile` | `Reconcilable`: a keyed payment is under the reference in its result, whatever became of the answer |
| | `VerdictsAreFinal` | `VerdictsStand` |

**Ledger.** None of the safety properties is inductive alone, because `reconcile` acts on what it read before an await.
`IInv` adds to them: a recorded reference is never lost and no open or confirmed payment is without one (`ReferenceInv`);
a job belongs to a stored event of a recorded reference (`JobInv`); what a process may still rely on, namely that the
status it read was open, that the answer in its hand is the head-end's, and that a final status it returned is the
payment's (`ReadInv`); and a worker holds existing jobs and reconciles their own payment (`WorkerInv`). `ReadInv` is the
core: the row may have moved since it was read, but `CanTransition` compares the status it started from with the row
under the lock, and a final answer of the head-end never changes, so the stale read costs a no-op and never a wrong
final state. `CallbackTracked` survives because only `EndLease` and `Claim` close jobs: the first needs
a final payment to complete one, the second buries one that is exhausted. The proofs of the two lease properties go
action by action; only `Claim` and the steps that settle or recover a job touch an owner. Refinement maps every step to a transition
of one payment or to a stutter.

**Router.** `IInv` is the type invariant, `OverspendFlagged` and `ConfirmedCalls` per run, and per breaker that it is below the threshold
while closed and has counted a failure while open. Each stretch of a method of the breaker is a lemma over its record, so a step of the router only
says which it runs. The stretch that writes `half_open` from a state that is no more preserves this because it touches no counter of failures; that is also why
nothing stronger holds: a half-open breaker may have no failure counted, and a closed breaker need not have come through half-open. Type correctness contains a fact
worth having: `half_open_calls` never exceeds its maximum, since `call` checks it before it counts.

**Orchestrator.** `IInv` says for each point of the call which gates it has passed (`Passed`), that a call over its cap is on
its way out with 402 (`Stopped`), that only a call with nothing left but its evidence has paid (`Settled`), which evidence it is
writing (`Reported`), and how far the two files of an export agree (`Agreed`). `PaysOncePerGoal` rests on `Settled`: the
caller repeats after `failed` and `awaiting_hitl` only, and neither is ever the status of a call that paid.

**Ledger statements.** `IInv` is about one session at a time (`SessionInv`): which statements its method goes through (`Shape`), which
locks it can hold where it is (`LocksHeld`), and that what it has read and written is still what its method makes of the committed rows
(`EventKept`, `StatusKept`, `JobsKept`). The last is what atomicity needs and what other sessions could spoil. `RowsKept` names
what they may do to the rows of a session that holds their locks, `OthersKept` shows that this preserves the session's invariant, and each
statement, commit and clock step is shown to respect it. Then `CallsAreAtomic` is one lemma per method: at the commit, the writes are the
effect of the method's action in `Reconciliation`. For deadlocks, `LocksHeld` puts the waits in order: who waits for an event
holds nothing, who waits for a payment holds its event at most, and who holds a payment waits for nobody (the row is its own, and `OutboxIsFree`), so what
blocks a claim that buries is another such claim.

**Intake.** The invariant says that an event and its evidence were written together, for one readable request under one key, and that what was
acknowledged is stored as it was sent. It is inductive because `EventUnder` does not depend on the key, which is the whole point of
hashing the raw body. That the ledger part holds comes from `IntakeImplementsLedger` and the ledger's own theorems.
`ProjectionsPass` needs no state: the words the sanitizer lets through are those the repository lists, provider by provider.

**Authorized router.** The refinement makes the router's invariant available; `AuthInv` adds that a token names a code that is gone
(`GrantsSpent`), so it can never be exchanged again, that claims come from an issued token (`ClaimsIssued`), and that a call under way was
permitted by the scopes of that token (`CallsPermitted`), which do not change while it runs even if the token expires.

**Checkpoints.** `RowsKnown` traces each row: it is `Prepare` of the state its ghost keeps, under some key, or a row of the stock saver. `PrepareSeals`
and its inverse are lemmas about `Prepare`, `Dumps` and `Restore`; a stock row never loads, since it has at least one channel nobody
sealed. Continuity then follows from loading the row of the ghost.

**Submission.** `IInv` says that a POST leaves once (`PostedOnce`), that a result names the intent or the payment and FAILED comes after the provider
decided (`ResultTrue`), and that a verdict is that of
a settled payment with the reference it asked for (`VerdictKnown`). `OnePackPerCorridor` is the key lemma: the route table leaves each corridor
one pack that will serve it, so every attempt of an intent goes to one provider and, where the reference is derived from the intent, under one
reference.

Only model-checked, with the reason:

- `JobsResolve`, `RejectsNotForever`: liveness under fairness is beyond the prover.
- That `Found` finds exactly the `Subjects` of a body: what a search through nested data computes takes induction over the data. TLC
  checks it on the bodies of `webhook_intake`; `EvidenceNamesItsPeople` proves the rest.
- The findings: a counterexample needs no proof.

Every other property of a passing run has a theorem.

## Findings

1. **Callbacks that come too early are never matched** (`recon_orphans`, `OrphansAreMatched`). docs/webhooks.md:52:
   "unmatched sanitized evidence is retained for delayed matching". `ingest_webhook` (payment_lifecycle.py:173) stores an
   event whose reference is unknown and returns; nothing looks at it when the reference is recorded. The provider was
   answered 200 and need not deliver again, so the payment stays SUBMITTED until somebody polls it.
2. **A half-open breaker can jam** (`router_stuck_probe`, `RejectsNotForever`). circuit_breaker.py:4: "closed → open →
   half_open → closed". A half-open call counts itself at line 44; if it ends with a `CircuitOpenError` raised inside the tool, or with an
   exception that is no `Exception`, neither `on_success` nor `on_failure` runs, and with its probes used up the breaker
   rejects every later call.
3. **A paused run need not wait for its ticket** (`router_hitl`, `PausedUntilApproved`). docs/playbook.md:34-36 has destructive tools "whose `amount` exceeds
   `profile.hitl_amount_threshold` pause in `awaiting_hitl` until an operator calls `HitlGate.decide(ticket_id, "approved")`". `gate` (router.py:110) asks
   for confirmation evidence and never for the ticket's decision; with evidence, a run dispatches while its ticket is
   undecided or denied.
4. **A Daraja retry loses the first payment's reference** (`submission_daraja`, `RetriesKeepReference`).
   docs/audits/provider-connectors-audit.md:93: "ambiguous initiation retries preserve provider reference identity". When the
   answer of an STK push is lost, daraja.py:116 returns the intent's own key as the reference, which Daraja does not know;
   the retry returns a new CheckoutRequestID. A payment made by the first is found by no query and no callback.

Four more disagreements are in the models as the code has them, so that no property claims what the document says:

- **A timeout does not end a call.** docs/production-architecture.md:57-66: "AgentBridge independently enforces" among others "provider circuit and timeout
  budgets". `call_with_timeout` (timeouts.py:28-33) raises when the time is up, but leaving the pool's `with` joins the thread first: a
  function that never ends keeps `dispatch` for ever. Hence `ProviderFairness`, and no property that dispatch returns.
- **An unreadable 2xx is FAILED.** docs/audits/provider-connectors-audit.md:50: "Connector `FAILED` means explicit initiation
  rejection or verified terminal provider failure". Daraja and Paystack (daraja.py:129, paystack.py:91) return it also for a 2xx whose body `HttpxTransport`
  could not read (runtime.py:175-179), with the payment taken (`Unreadable`). `FailuresAreOver` says what is left; behind Paystack's such failure the payment is at
  least under the reference in the result (`Reconcilable`).
- **Daraja's SUBMITTED may name no payment.** An answer with ResponseCode 0 and no CheckoutRequestID is SUBMITTED under the intent id (daraja.py:118-125), which Daraja
  does not know (`Submitted`). It is finding 4 with an answer that arrived; `Reconcilable` is about the connectors that derive the reference.
- **A stopped run may spend on.** docs/playbook.md:26 promises "no further spend" after 402. The end of a call in flight overwrites the status of the run (router.py:198), and
  `charge` accepts further costs until the next dispatch. No tool runs any more (`StoppedRunsStayStopped`).

Behaviour met while modelling that a reader should know of; where it differs from a document, the item says so:

- A worker whose lease ran out polls the provider all the same, so a payment may be polled twice; the leases and the
  ledger stay sound (`LeaseRespected`).
- With overlapping calls an open breaker is closed by the late success of a call that began before it opened, without a
  half-open probe in between. Hence no property claims the order closed, open, half-open of circuit_breaker.py:4.
- A thread that read `open` writes `half_open` after another closed the breaker: the breaker is half-open with no failure counted, and the next
  single failure opens it. A second thread that read `open` resets the probe count of the first, so that more than
  `half_open_max_calls` probes run at once; and until `opened_at` is written, a call may find the newly opened breaker cooled by the old time and probe at once.
- Paystack's refusal of a duplicate with a plain 4xx is a FAILED attempt while the first attempt's payment stands.
- Assessment results and plan are replaced one after the other; a crash between them leaves a failed assessment without its
  plan (docs/production-architecture.md:98 has the pair emitted atomically). The next export repairs it.
- `execute` is charged after the payment, so a call may pay and return 402 without an execute step; and of a call that died nothing says
  whether it paid. A caller who repeats after either would pay twice.
- `last_quote_id` is written by successful calls only; docs/playbook.md:10 promises it for every successful quote.
- The router takes claims and not a token: it tests scopes and does not look at `exp`, and a call without claims is not asked for
  scopes at all. `LeastPrivilege` says what a call with claims was granted, however old they are.
- An exchange that fails for any reason uses up its code, since the code is popped first.
- A callback with a phone field that has no digit is refused whole, as often as it is delivered; its payment is left to polling.
- An MTN callback names a payment by `financialTransactionId`, `externalId` or the `X-Reference-Id` header, and only the last is what
  the connector reported as `provider_reference`; a callback under another name is kept unmatched.
- Two claims that bury the same exhausted jobs may wait for each other; PostgreSQL aborts one, and its worker claims again.
- In `run_quote_goal` the branches for intermittent escalation, a policy block at execution and an execution error are
  unreachable: without approval the call stops for HITL first, and a provider error already fails the quote.

## Abstractions

- **Transactions are atomic** in `Reconciliation`; `CallsAreAtomic` of `LedgerTransactions` is the reason they may be. There,
  a method that finds no row takes no lock, so it takes effect as of that statement and not of its commit, and leases that expire after a claim's
  snapshot are left to the next claim. The clock of the model moves inside a transaction, where `NOW()` stands still, which allows more than PostgreSQL does.
- **Time** is two booleans per job and one per breaker, set by actions that may happen at any moment. No property depends on
  durations.
- **Callbacks** are records of a provider, an event header, candidate references and a body. Hashes are equality of bodies,
  truncation of ids is left out. In `WebhookIntake` a signature is the body it was made over, a token and an identity are
  values. What `lower`, `isalnum`, `isdigit` and `casefold` make of the texts in use is a table (`Forms`).
- A payment in `Reconciliation` stands for its `provider_reference`. The branch of `run_once` for a job whose payment is
  not found (handlers.py:144) cannot be reached, since jobs are only made for payments that are there.
- **Threads** lose the interpreter at calls, as in CPython with its lock; a switch between any two bytecodes (a free-threaded build) is not modelled. In
  such a build the check of `half_open_calls` and its increment (circuit_breaker.py:36, 40) could be separated too, and `TypeOK` would not hold.
- **The failure count** of a breaker is counted up to its threshold, with which it is only compared.
- `fallback_queue` is a set; agent names, spans and traces are observational. `Handler` is `TRUE` in `router_oauth` and `FALSE` elsewhere: a fallback
  handler gets the call that would have been queued.
- **Costs** are integers: the smallest unit of the instance, or thousandths of a dollar in the orchestrator, whose costs are the code's.
- **One goal** suffices in the orchestrator since everything a call uses is made by the call. Amount 0 stands for all that
  `quote` refuses. The files are those of the latest run id; earlier ones are touched by nobody.
- The documents of an export are the sets of controls they report as failed, and whether they are marked partial.
- **OAuth**: a PKCE challenge is the verifier it was made of; the hash and the randomness of codes and tokens are taken as perfect. Used-up codes
  and dropped tokens stay as records, so that a token can be traced to its grant.
- **Checkpoints**: the newest row of a thread only. Channels hold the number of the node that last wrote them, which is what
  repeating or losing a node shows in. A str subclass (an Enum member) is not of exact type `str` and so not marked by `_prepare_checkpoint`;
  the module's channels are plain values or structures.
- Bounds that are not the code's: `MaxSpend` (router), `MaxCalls` (orchestrator), the sets `Attempts`, `Tickets`,
  `Deliveries`, `Requests`, `Sessions`, `Codes`, `Accesses`, `NodeCount`, `MaxNesting`. The theorems hold for all of those they meet.

## Not modelled

| part | why |
|---|---|
| Request size and JSON errors of `handle` | refused before anything happens |
| Older checkpoints, forks, `put_writes`, the DSN check (`core/checkpointing.py`) | LangGraph's own or configuration |
| Versioned state (`core/state.py`) | records; the fields control flow reads are in `AgentRouter` and `Orchestrator` |
| `compile_graph` (`core/graph.py`) | one node, which is `run_quote_goal` in `Orchestrator` |
| Telemetry (`core/telemetry.py`) | read by nothing that decides |
| Payment models, runtime (`payments/models.py`, `runtime.py`) | validation of data, I/O; the result and intent records are in `Submission` |
| MCP tool server (`tools/`) | schemas and thin dispatch; the annotations are inputs of `AgentRouter` |
| Compatibility packages (`src/`, `tools/` at the top level) | re-exports |
| Evaluation harness (`evals/`) | offline scripts |
| Dashboard (`frontend/`) | a page over mock data |

## Plan

Done, in this order: `PaymentFsm`, `Reconciliation`, `ReconciliationProofs`; `CircuitBreaker`, `AgentRouter`,
`AgentRouterProofs`; `Submission`; `Callbacks`; `OscalExport`, `Orchestrator`, `OrchestratorProofs`; `LedgerTransactions`; `Checkpointing`;
`Redaction`, `WebhookIntake`; `OAuth`, `AuthorizedRouter`; then `CheckpointingProofs`, `AuthorizedRouterProofs`, `LedgerTransactionsProofs`,
`SubmissionProofs`, `WebhookIntakeProofs`.

To extend the model, one thing would be worth having: `Submission` composed with the ledger, so that a PENDING result under the wrong
reference is followed to the payment that is never reconciled. Nothing under `agentbridge/` connects the two (the application
does), so it waits for that code.

Proved: every safety and action property the runs check, in the eight proof modules.

Left: theorems that follow when the model grows. `OAuth` on its own (any exchange order, without the router) and the instance of
`Reconciliation`'s action properties (`LeaseRespected`, `LeasesBounded`) under `IntakeSpec` are consequences of what is proved and
are not stated separately.
