------------------------------ MODULE AgentRouter ------------------------------
(***************************************************************************)
(* AgentRouter.dispatch with everything it consults: the BudgetGuardian,   *)
(* the gate (idempotency key, OAuth scope, connectivity, confirmation or   *)
(* HITL ticket), one circuit breaker per provider and the timeout pool.    *)
(*                                                                         *)
(* Several runs share one router, each in a thread of its own.  Up to the  *)
(* breaker a dispatch is one step, since it works on the run alone; then   *)
(* the breaker may ask the clock, the tool function runs, costs are        *)
(* charged, an operator decides tickets and other runs dispatch, until the *)
(* function has ended and the router has handled how.  A run dispatches    *)
(* one tool at a time.                                                     *)
(*                                                                         *)
(* An operator named Op_Bug, before Op, is Op with a bug somebody might    *)
(* write, as in Reconciliation.                                            *)
(***************************************************************************)
EXTENDS CircuitBreaker

CONSTANTS
  Runs,         \* runs (AgentState objects) sharing the router
  Providers,    \* providers, each behind its breaker
  Tools,        \* tools an agent may ask for
  Destructive,  \* those annotated destructive
  ReadOnly,     \* those annotated readOnly
  StatusTools,  \* read-only tools whose scope is payments:status
  Registered,   \* those in TOOLS_BY_NAME of payment_mcp
  Tokens,       \* scope sets of the tokens callers hold; Nil is no token
  Evidence,     \* confirmation evidence callers present
  Verified,     \* what confirmation_validator accepts; {} without one
  Offline,      \* runs whose profile is offline_first
  Handler,      \* a fallback_handler is configured
  Tickets,      \* ticket ids (bounds how often runs can pause)
  Resumed,      \* what a run has spent when the router first sees it
  Costs,        \* what charge may be called with
  Cap,          \* profile.max_run_cost_usd
  MaxSpend,     \* bound on the spending explored
  Escapes,      \* ways fn ends that the breaker counts neither way
  Nil

ASSUME RouterAssumption ==
  /\ Destructive \cap ReadOnly = {}
  /\ Verified \subseteq Evidence
  /\ Cap \in Nat /\ MaxSpend \in Nat
  /\ Resumed \subseteq 0..MaxSpend
  /\ Costs \subseteq Nat
  /\ Escapes \subseteq {"circuit_open", "interrupted"}
  /\ Handler \in BOOLEAN
  /\ Nil \notin Tools \cup Providers \cup Evidence \cup Tickets

VARIABLES
  run,      \* the AgentState of each run
  call,     \* the provider call each run is waiting for
  ticket,   \* HitlGate.tickets
  breaker   \* AgentRouter.breakers

vars == <<run, call, ticket, breaker>>

(* http402 is http_status = 402, queued the tools in fallback_queue and    *)
(* confirmed the evidence in confirmations.                                *)
Run == [status    : {"running", "failed", "budget_exceeded",
                     "awaiting_hitl", "degraded"},
        spent     : 0..MaxSpend,
        http402   : BOOLEAN,
        pending   : Tickets \cup {Nil},
        queued    : SUBSET Tools,
        confirmed : SUBSET Evidence]

(* late: fut.result has timed out.  end: how fn ended; before that, that   *)
(* it runs, or that the breaker was found open and the clock is asked;     *)
(* after that, that the call opened the breaker and has to set opened_at   *)
(* (late then says whether it goes on to raise TimeoutError).              *)
Call == [tool     : Tools \cup {Nil},
         provider : Providers \cup {Nil},
         late     : BOOLEAN,
         end      : {"waking", "running", "ok", "error", "timeout",
                     "opened"} \cup Escapes]

NoCall == [tool |-> Nil, provider |-> Nil, late |-> FALSE, end |-> "running"]

Request == [tool : Tools, provider : Providers, keyed : BOOLEAN,
            scopes : Tokens, evidence : Evidence \cup {Nil}]

Busy(r) == call[r].tool # Nil

TypeOK ==
  /\ run \in [Runs -> Run]
  /\ call \in [Runs -> Call]
  /\ ticket \in [Tickets -> {"none", "pending", "approved", "denied"}]
  /\ breaker \in [Providers -> Breaker]

Init ==
  /\ run \in [Runs -> {[status |-> "running", spent |-> s, http402 |-> FALSE,
                        pending |-> Nil, queued |-> {}, confirmed |-> {}] :
                       s \in Resumed}]
  /\ call = [r \in Runs |-> NoCall]
  /\ ticket = [t \in Tickets |-> "none"]
  /\ breaker = [p \in Providers |-> NewBreaker]

-----------------------------------------------------------------------------
(* BudgetGuardian *)
Tripped_ByStatus(s) == s.status = "budget_exceeded"

Tripped(s) == s.status = "budget_exceeded" \/ s.spent > Cap

Trip_StatusOnly(s) == [s EXCEPT !.status = "budget_exceeded"]

Trip(s) == [s EXCEPT !.status = "budget_exceeded", !.http402 = TRUE]

Over_PastCap(spent) == spent > Cap + 1

Over(spent) == spent > Cap

(* charge, by whoever runs the agents: also while a tool of the run is     *)
(* running.  Refused once the run has stopped.                             *)
Charge(r, c) ==
  LET s == [run[r] EXCEPT !.spent = @ + c]
  IN  /\ run[r].status # "budget_exceeded"
      /\ s.spent <= MaxSpend
      /\ run' = [run EXCEPT ![r] = IF Over(s.spent) THEN Trip(s) ELSE s]
      /\ UNCHANGED <<call, ticket, breaker>>

-----------------------------------------------------------------------------
(* gate *)

(* require_idempotency, for the tools payment_mcp knows. *)
Unkeyed(q) == q.tool \in Registered \cap Destructive /\ ~q.keyed

Needed(tool) ==
  IF tool \in Destructive THEN "payments:execute"
  ELSE IF tool \in StatusTools THEN "payments:status"
  ELSE "payments:quote"

OutOfScope_AdminWrites(q) ==
  q.scopes # Nil /\ {Needed(q.tool), "admin:budget"} \cap q.scopes = {}

(* scope_allows: admin:budget implies the read scopes. *)
OutOfScope(q) ==
  /\ q.scopes # Nil
  /\ Needed(q.tool) \notin q.scopes
  /\ q.tool \in Destructive \/ "admin:budget" \notin q.scopes

Gate_PausedOnce(r, q) ==
  IF Unkeyed(q) \/ OutOfScope(q) THEN "block"
  ELSE IF r \in Offline THEN "degrade"
  ELSE IF q.tool \notin Destructive THEN "dispatch"
  ELSE IF q.evidence = Nil
       THEN IF run[r].pending = Nil THEN "hitl" ELSE "dispatch"
  ELSE IF q.evidence \in Verified THEN "dispatch"
  ELSE "block"

Gate(r, q) ==
  IF Unkeyed(q) \/ OutOfScope(q) THEN "block"
  ELSE IF r \in Offline THEN "degrade"
  ELSE IF q.tool \notin Destructive THEN "dispatch"
  ELSE IF q.evidence = Nil THEN "hitl"
  ELSE IF q.evidence \in Verified THEN "dispatch"
  ELSE "block"

Confirm(s, q) ==
  IF q.tool \in Destructive /\ q.evidence # Nil
  THEN [s EXCEPT !.confirmed = @ \cup {q.evidence}]
  ELSE s

-----------------------------------------------------------------------------
(* dispatch, up to the provider call *)
Stopped(r) ==
  /\ Tripped(run[r])
  /\ run' = [run EXCEPT ![r] = Trip(@)]
  /\ UNCHANGED <<call, ticket, breaker>>

Blocked(r, q) ==
  /\ Gate(r, q) = "block"
  /\ run' = [run EXCEPT ![r].status = "failed"]
  /\ UNCHANGED <<call, ticket, breaker>>

(* HitlGate.evaluate requests a new ticket each time; to_pending. *)
Paused(r, q) ==
  /\ Gate(r, q) = "hitl"
  /\ \E t \in Tickets :
       /\ ticket[t] = "none"
       /\ ticket' = [ticket EXCEPT ![t] = "pending"]
       /\ run' = [run EXCEPT ![r].status = "awaiting_hitl",
                             ![r].pending = t]
  /\ UNCHANGED <<call, breaker>>

Degraded(r, q) ==
  /\ Gate(r, q) = "degrade"
  /\ run' = [run EXCEPT ![r].status = "degraded",
                        ![r].queued = IF Handler \/ q.tool \in ReadOnly
                                      THEN @ ELSE @ \cup {q.tool}]
  /\ UNCHANGED <<call, ticket, breaker>>

Started(q, end) ==
  [tool |-> q.tool, provider |-> q.provider, late |-> FALSE, end |-> end]

Queue(s, tool) ==
  [s EXCEPT !.status = "degraded", !.queued = @ \cup {tool}]

(* breaker.call, when it does not find the breaker open: nothing stands    *)
(* between the test of the state, the test of the probes and their count.  *)
CircuitRejects(r, q) ==
  LET b == breaker[q.provider]
  IN  /\ Gate(r, q) = "dispatch"
      /\ b.state # "open" /\ Rejects(b)
      /\ run' = [run EXCEPT ![r] = Queue(Confirm(@, q), q.tool)]
      /\ UNCHANGED <<call, ticket, breaker>>

Invoke(r, q) ==
  LET b == breaker[q.provider]
  IN  /\ Gate(r, q) = "dispatch"
      /\ b.state # "open" /\ ~Rejects(b)
      /\ run' = [run EXCEPT ![r] = Confirm(@, q)]
      /\ call' = [call EXCEPT ![r] = Started(q, "running")]
      /\ breaker' = [breaker EXCEPT ![q.provider] = Admitted(b)]
      /\ UNCHANGED ticket

(* It finds the breaker open and asks the clock. *)
FindsOpen(r, q) ==
  /\ Gate(r, q) = "dispatch"
  /\ breaker[q.provider].state = "open"
  /\ run' = [run EXCEPT ![r] = Confirm(@, q)]
  /\ call' = [call EXCEPT ![r] = Started(q, "waking")]
  /\ UNCHANGED <<ticket, breaker>>

(* The rest of breaker.call before fn, from the clock on. *)
StillRejected(r) ==
  LET b == HalfOpened(breaker[call[r].provider])
  IN  /\ Rejects(b)
      /\ run' = [run EXCEPT ![r] = Queue(@, call[r].tool)]
      /\ call' = [call EXCEPT ![r] = NoCall]
      /\ breaker' = [breaker EXCEPT ![call[r].provider] = b]

NowInvoked(r) ==
  LET b == HalfOpened(breaker[call[r].provider])
  IN  /\ ~Rejects(b)
      /\ call' = [call EXCEPT ![r].end = "running"]
      /\ breaker' = [breaker EXCEPT ![call[r].provider] = Admitted(b)]
      /\ UNCHANGED run

Wake(r) ==
  /\ Busy(r) /\ call[r].end = "waking"
  /\ StillRejected(r) \/ NowInvoked(r)
  /\ UNCHANGED ticket

DispatchAmong(r, requests) ==
  /\ ~Busy(r)
  /\ \/ Stopped(r)
     \/ /\ ~Tripped(run[r])
        /\ \E q \in requests :
             Blocked(r, q) \/ Paused(r, q) \/ Degraded(r, q)
               \/ CircuitRejects(r, q) \/ Invoke(r, q) \/ FindsOpen(r, q)

Dispatch(r) == DispatchAmong(r, Request)

-----------------------------------------------------------------------------
(* call_with_timeout: the pool runs fn and result waits for it or for the  *)
(* timeout; leaving the pool's with statement waits for fn all the same.   *)
TimerFires(r) ==
  /\ Busy(r) /\ call[r].end = "running" /\ ~call[r].late
  /\ call' = [call EXCEPT ![r].late = TRUE]
  /\ UNCHANGED <<run, ticket, breaker>>

FnEnds(r, how) ==
  /\ Busy(r) /\ call[r].end = "running"
  /\ call' = [call EXCEPT ![r].end = how]
  /\ UNCHANGED <<run, ticket, breaker>>

Ended(r) == Busy(r) /\ call[r].end \notin {"waking", "running", "opened"}

TimedOut(r) == call[r].late \/ call[r].end = "timeout"

(* What the breaker counts as a failure, and the breaker it counts it for. *)
Failed(r) == call[r].end = "error" \/ TimedOut(r)

Failing(r) == breaker[call[r].provider]

(* The rest of dispatch.  An error that is no Exception, and any raised    *)
(* CircuitOpenError, passes the breaker by; an Exception other than        *)
(* TimeoutError leaves the run as it is.                                   *)
Return(r) ==
  /\ call[r].end = "ok" /\ ~TimedOut(r)
  /\ breaker' = [breaker EXCEPT ![call[r].provider] = OnSuccess(@)]
  /\ UNCHANGED run

RaiseError(r) ==
  /\ call[r].end = "error" /\ ~TimedOut(r) /\ ~Opens(Failing(r))
  /\ breaker' = [breaker EXCEPT ![call[r].provider] = OnFailure(@)]
  /\ UNCHANGED run

RaiseTimeout(r) ==
  /\ TimedOut(r) /\ ~Opens(Failing(r))
  /\ breaker' = [breaker EXCEPT ![call[r].provider] = OnFailure(@)]
  /\ run' = [run EXCEPT ![r].status = "failed"]

RaiseCircuitOpen(r) ==
  /\ call[r].end = "circuit_open" /\ ~TimedOut(r)
  /\ run' = [run EXCEPT ![r] = Queue(@, call[r].tool)]
  /\ UNCHANGED breaker

RaiseInterrupt(r) ==
  /\ call[r].end = "interrupted" /\ ~TimedOut(r)
  /\ UNCHANGED <<run, breaker>>

(* A failure opens the breaker and the clock is asked. *)
OpenBreaker(r) ==
  /\ Ended(r) /\ Failed(r) /\ Opens(Failing(r))
  /\ breaker' = [breaker EXCEPT ![call[r].provider] = OnFailure(@)]
  /\ call' = [call EXCEPT ![r].end = "opened", ![r].late = TimedOut(r)]
  /\ UNCHANGED <<run, ticket>>

(* opened_at is set, and the error raised. *)
RaiseOpened(r) ==
  /\ Busy(r) /\ call[r].end = "opened"
  /\ breaker' = [breaker EXCEPT ![call[r].provider] = Stamped(@)]
  /\ run' = [run EXCEPT ![r].status = IF call[r].late THEN "failed" ELSE @]

Finish(r) ==
  /\ \/ /\ Ended(r)
        /\ \/ Return(r) \/ RaiseError(r) \/ RaiseTimeout(r)
           \/ RaiseCircuitOpen(r) \/ RaiseInterrupt(r)
     \/ RaiseOpened(r)
  /\ call' = [call EXCEPT ![r] = NoCall]
  /\ UNCHANGED ticket

-----------------------------------------------------------------------------
(* HitlGate.decide: the operator, who may change a decision. *)
Decide(t, decision) ==
  /\ ticket[t] # "none"
  /\ ticket' = [ticket EXCEPT ![t] = decision]
  /\ UNCHANGED <<run, call, breaker>>

Cool(p) ==
  /\ ~breaker[p].cooled
  /\ breaker' = [breaker EXCEPT ![p] = Cooled(@)]
  /\ UNCHANGED <<run, call, ticket>>

(* All that happens besides new dispatches. *)
Meanwhile ==
  \/ \E r \in Runs :
       \/ Wake(r) \/ TimerFires(r) \/ OpenBreaker(r) \/ Finish(r)
       \/ \E c \in Costs : Charge(r, c)
       \/ \E how \in {"ok", "error", "timeout"} \cup Escapes : FnEnds(r, how)
  \/ \E t \in Tickets, d \in {"approved", "denied"} : Decide(t, d)
  \/ \E p \in Providers : Cool(p)

Next == (\E r \in Runs : Dispatch(r)) \/ Meanwhile

Spec == Init /\ [][Next]_vars

(* Clocks run, and threads go on: into fn, and out of it once fn has ended. *)
RouterFairness ==
  /\ \A r \in Runs :
       /\ WF_vars(TimerFires(r)) /\ WF_vars(Wake(r))
       /\ WF_vars(OpenBreaker(r)) /\ WF_vars(Finish(r))
  /\ \A p \in Providers : WF_vars(Cool(p))

(* Every tool function ends some day, with or without the timeout, which   *)
(* ends none.                                                              *)
ProviderFairness ==
  \A r \in Runs :
    WF_vars(\E how \in {"ok", "error", "timeout"} \cup Escapes :
              FnEnds(r, how))

FairSpec == Spec /\ RouterFairness /\ ProviderFairness

-----------------------------------------------------------------------------
(* A run is flagged HTTP 402 exactly when it has spent more than its cap   *)
(* (a resumed run that had already, at its next charge or dispatch), and   *)
(* stops with the flag: charge, intercept and the status that dispatch     *)
(* overwrites agree.                                                       *)
OverspendFlagged ==
  \A r \in Runs :
    /\ run[r].http402 => run[r].spent > Cap
    /\ run[r].spent > Cap => run[r].http402 \/ run[r].spent \in Resumed
    /\ run[r].status = "budget_exceeded" => run[r].http402

(* Once a run is flagged no tool of it reaches a provider again, although  *)
(* a call that was running then (a timeout, an open circuit) overwrites    *)
(* the status afterwards.                                                  *)
StoppedRunsStayStopped ==
  [][\A r \in Runs : run[r].http402 /\ ~Busy(r) => ~Busy(r)']_vars

(* No destructive tool runs without evidence the validator accepted, also  *)
(* for a run that was paused, degraded or refused before.                  *)
ConfirmedCalls ==
  \A r \in Runs :
    Busy(r) /\ call[r].tool \in Destructive =>
      run[r].confirmed # {} /\ run[r].confirmed \subseteq Verified

(* Through overlapping calls that end in any order, and threads that write *)
(* what they concluded from a state that is no more, a closed breaker has  *)
(* counted fewer failures than the threshold and an open one a failure     *)
(* since the last success.  Half-open says nothing of the kind: it may be  *)
(* written over a close.                                                   *)
BreakersConsistent ==
  \A p \in Providers :
    /\ breaker[p].state = "closed" => breaker[p].failures < FailureThreshold
    /\ breaker[p].state = "open" => breaker[p].failures > 0

(* A breaker that turns calls away lets one through again some day.        *)
RejectsNotForever ==
  \A p \in Providers : ~LetsThrough(breaker[p]) ~> LetsThrough(breaker[p])

(* playbook.md: paused "until an operator calls HitlGate.decide(ticket_id, *)
(* "approved")".                                                           *)
PausedUntilApproved ==
  \A r \in Runs :
    Busy(r) /\ call[r].tool \in Destructive /\ run[r].pending # Nil =>
      ticket[run[r].pending] = "approved"

=============================================================================
