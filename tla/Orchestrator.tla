----------------------------- MODULE Orchestrator -----------------------------
(***************************************************************************)
(* run_quote_goal: the planner / worker / verifier path for one goal, with *)
(* its budget guardian, its policy and approval gates and the evidence it  *)
(* leaves on disk.                                                         *)
(*                                                                         *)
(* The call is sequential, and its guardian, tracer and HITL gate are its  *)
(* own, so calls for different goals share nothing.  What goes on for a    *)
(* long time is one goal: a caller that got "failed" or "awaiting_hitl"    *)
(* calls again, with another profile, an approval or a repaired provider,  *)
(* as the playbook's Resume section says, and each call has a new run_id   *)
(* and a new idempotency key.  A process may die at any point.  The files  *)
(* are those of the latest run_id; no call touches an earlier one's.       *)
(*                                                                         *)
(* Costs are counted in thousandths of a US dollar.  Amount 0 stands for   *)
(* all that quote refuses: an amount that is not positive, an unsupported  *)
(* currency.  An operator named Op_Bug, before Op, is Op with a bug that   *)
(* somebody might write, as in Reconciliation.                             *)
(***************************************************************************)
EXTENDS Naturals, Sequences, OscalExport

CONSTANTS
  Amounts,         \* requested_amount
  AmlLimit,        \* profile.aml_daily_limit
  Caps,            \* profile.max_run_cost_usd
  Connectivities,  \* profile.connectivity
  Reassessments,   \* what a later assessment of a run_id may find failed
  MaxCalls         \* bound: calls of run_quote_goal for the goal

ASSUME OrchestratorAssumption ==
  /\ Amounts \subseteq Nat /\ AmlLimit \in Nat /\ Caps \subseteq Nat
  /\ Connectivities \subseteq {"stable", "intermittent", "offline_first"}
  /\ Reassessments \subseteq SUBSET Controls
  /\ MaxCalls \in Nat \ {0}

QUOTE_COST == 1    \* 0.001 USD
EXECUTE_COST == 2  \* 0.002 USD

VARIABLES
  input,  \* the arguments of the latest call
  pc,     \* where it is
  state,  \* its BridgeState
  calls,  \* how many calls there have been
  paid    \* payments that the provider has accepted for the goal

runVars == <<input, pc, state, calls, paid>>
vars == <<runVars, files, export>>

Inputs ==
  [amount          : Amounts,
   cap             : Caps,
   connectivity    : Connectivities,
   execute_payment : BOOLEAN,
   hitl_approved   : BOOLEAN,
   inject_fault    : {"none", "tool_timeout", "provider_error",
                      "verifier_reject"}]

States ==
  [status        : {"running", "success", "failed", "budget_exceeded",
                    "awaiting_hitl"},
   spent         : Nat,
   steps         : Seq([id : {"quote", "execute"}, ok : BOOLEAN]),
   last_quote_id : BOOLEAN,
   export_failed : BOOLEAN]   \* partial_artifacts has oscal_export_failed

TypeOK ==
  /\ input \in Inputs
  /\ pc \in {"idle", "limits", "quote", "verify", "approve", "execute",
             "export", "returned", "dead"}
  /\ state \in States
  /\ calls \in 0..MaxCalls
  /\ paid \in Nat
  /\ ExportTypeOK

NewState == [status |-> "running", spent |-> 0, steps |-> <<>>,
             last_quote_id |-> FALSE, export_failed |-> FALSE]

Init ==
  /\ input \in Inputs
  /\ pc = "idle" /\ state = NewState /\ calls = 0 /\ paid = 0
  /\ ExportInit

-----------------------------------------------------------------------------
(* policy.decide: everything run_quote_goal asks for is blocked offline.   *)
(* Execution over an intermittent link is escalated, which only matters to *)
(* a call that is not approved, and that one has stopped before.           *)
Decide(i) ==
  CASE i.connectivity = "offline_first" -> "block"
    [] i.connectivity = "intermittent" -> "escalate"
    [] OTHER -> "allow"

(* payment_adapter.quote, with the fault that the call injected *)
QuoteOk(i) ==
  i.inject_fault \notin {"tool_timeout", "provider_error"} /\ i.amount > 0

(* payment_adapter.execute: only provider_error reaches it *)
ExecuteOk(i) == i.inject_fault # "provider_error"

(* _emit_oscal's three findings, for the state it is given *)
RunFindings_RunOnly(i, s) ==
  [failed |-> IF s.status = "success" THEN {} ELSE {"AB-RUN-1"},
   partial |-> FALSE]

RunFindings(i, s) ==
  [failed |-> (IF s.status = "budget_exceeded" THEN {"AB-BUDGET-1"} ELSE {})
                \cup (IF i.amount > AmlLimit THEN {"AB-AML-1"} ELSE {})
                \cup (IF s.status # "success" THEN {"AB-RUN-1"} ELSE {}),
   partial |-> FALSE]

(* Return after _emit_oscal: with the evidence to be written first *)
Finish(s) ==
  /\ state' = s
  /\ pc' = "export"
  /\ BeginExport(RunFindings(input, s))

Fail(s) == Finish([s EXCEPT !.status = "failed"])

GoTo(s, step) == state' = s /\ pc' = step /\ UNCHANGED export

-----------------------------------------------------------------------------
(* BudgetGuardian.charge: the cost is added whatever the sum, and a sum    *)
(* over the cap ends the call with 402 and partial evidence of its own.    *)
Charged(s, cost) == [s EXCEPT !.spent = @ + cost]

Over_Twice(s) == s.spent > input.cap + 1

Over(s) == s.spent > input.cap

Trip_Failed(s) == Fail(s)

Trip_Status(s) ==
  GoTo([s EXCEPT !.status = "payment_required"], "returned")

Trip(s) ==
  /\ state' = [s EXCEPT !.status = "budget_exceeded"]
  /\ pc' = "export"
  /\ BeginExport([failed |-> {"AB-BUDGET-1"}, partial |-> TRUE])

Appended(s, id, ok) ==
  [s EXCEPT !.steps = Append(@, [id |-> id, ok |-> ok])]

Done(s) == Finish([s EXCEPT !.status = "success", !.last_quote_id = TRUE])

-----------------------------------------------------------------------------
(* The caller: a first call, or another after one that was refused. *)
Callable ==
  \/ pc = "idle"
  \/ pc = "returned" /\ ~Exporting /\ state.status \in {"failed", "awaiting_hitl"}

Invoke(i) ==
  /\ Callable
  /\ calls < MaxCalls
  /\ calls' = calls + 1
  /\ input' = i
  /\ state' = NewState
  /\ pc' = "limits"
  /\ assessment' = NoFile /\ plan' = NoFile /\ export' = NoExport
  /\ UNCHANGED paid

(* The AML limit and the policy gate, before any tool is called *)
CheckLimits ==
  /\ pc = "limits"
  /\ IF input.amount > AmlLimit \/ Decide(input) = "block"
     THEN Fail(state)
     ELSE GoTo(state, "quote")
  /\ UNCHANGED <<input, calls, paid, files>>

(* worker_quote and its charge *)
Quote ==
  /\ pc = "quote"
  /\ LET ok == QuoteOk(input)
         s  == Charged(state, IF ok THEN QUOTE_COST ELSE 0)
         t  == Appended(s, "quote", ok)
     IN  \/ Over(s) /\ Trip(s)
         \/ ~Over(s) /\ ~ok /\ Fail(t)
         \/ ~Over(s) /\ ok /\ GoTo(t, "verify")
  /\ UNCHANGED <<input, calls, paid, files>>

Verify ==
  /\ pc = "verify"
  /\ \/ input.inject_fault = "verifier_reject" /\ Fail(state)
     \/ /\ input.inject_fault # "verifier_reject"
        /\ IF input.execute_payment THEN GoTo(state, "approve") ELSE Done(state)
  /\ UNCHANGED <<input, calls, paid, files>>

Approve_Threshold ==
  /\ pc = "approve"
  /\ \/ /\ ~input.hitl_approved /\ input.connectivity = "intermittent"
        /\ GoTo([state EXCEPT !.status = "awaiting_hitl"], "returned")
     \/ /\ input.hitl_approved \/ input.connectivity # "intermittent"
        /\ GoTo(state, "execute")
  /\ UNCHANGED <<input, calls, paid, files>>

(* HitlGate.evaluate gives every destructive tool a ticket, so a call that *)
(* is not approved stops here, whatever the amount, and leaves no evidence.*)
Approve ==
  /\ pc = "approve"
  /\ \/ /\ ~input.hitl_approved
        /\ GoTo([state EXCEPT !.status = "awaiting_hitl"], "returned")
     \/ input.hitl_approved /\ GoTo(state, "execute")
  /\ UNCHANGED <<input, calls, paid, files>>

(* execute with a new key, and its charge, which comes after the payment:  *)
(* a call that goes over its cap here has paid, and has no execute step.   *)
Execute ==
  /\ pc = "execute"
  /\ LET ok == ExecuteOk(input)
         s  == Charged(state, IF ok THEN EXECUTE_COST ELSE 0)
         t  == Appended(s, "execute", ok)
     IN  /\ paid' = IF ok THEN paid + 1 ELSE paid
         /\ CASE Over(s) -> Trip(s)
              [] ~Over(s) /\ ~ok -> Fail(t)
              [] OTHER -> Done(t)
  /\ UNCHANGED <<input, calls, files>>

-----------------------------------------------------------------------------
(* export_oscal_results, step by step.  An exception is noted in           *)
(* partial_artifacts and the terminal status stays.                        *)
ExportStep ==
  /\ WriteAssessment \/ WritePlan \/ RemovePlan
  /\ pc' = IF export'.step = "done" /\ pc = "export" THEN "returned" ELSE pc
  /\ UNCHANGED <<input, state, calls, paid>>

ExportFails_Status ==
  /\ pc = "export"
  /\ WriteFails
  /\ state' = [state EXCEPT !.export_failed = TRUE, !.status = "failed"]
  /\ pc' = "returned"
  /\ UNCHANGED <<input, calls, paid>>

ExportFails ==
  /\ pc = "export"
  /\ WriteFails
  /\ state' = [state EXCEPT !.export_failed = TRUE]
  /\ pc' = "returned"
  /\ UNCHANGED <<input, calls, paid>>

(* Somebody assesses the run_id again: export_oscal_results is public, and *)
(* says that "a run ID may be re-evaluated".  Its exception is theirs.     *)
Reassess(failed) ==
  /\ pc \in {"returned", "dead"} /\ calls > 0
  /\ ~Exporting
  /\ BeginExport([failed |-> failed, partial |-> FALSE])
  /\ UNCHANGED <<runVars, files>>

ReassessFails ==
  /\ pc \in {"returned", "dead"}
  /\ WriteFails
  /\ UNCHANGED runVars

(* The process of the call dies, and all it had in memory is gone; or that *)
(* of whoever assesses the run again.                                      *)
Running == pc \notin {"idle", "returned", "dead"}

Crash ==
  /\ \/ Running /\ pc' = "dead" /\ state' = NewState
     \/ ~Running /\ Exporting /\ UNCHANGED <<pc, state>>
  /\ CutOff
  /\ UNCHANGED <<input, calls, paid>>

Next ==
  \/ \E i \in Inputs : Invoke(i)
  \/ CheckLimits \/ Quote \/ Verify \/ Approve \/ Execute
  \/ ExportStep \/ ExportFails
  \/ \E failed \in Reassessments : Reassess(failed)
  \/ ReassessFails
  \/ Crash

Spec == Init /\ [][Next]_vars

-----------------------------------------------------------------------------
(* A goal is paid at most once, although each call pays under a key of its *)
(* own, as long as its caller calls again only when it was told "failed"   *)
(* or "awaiting_hitl": neither status may hide a payment.  A 402 may, and  *)
(* so may a call that died.                                                *)
PaysOncePerGoal == paid <= 1

(* Money moves only for a call that was approved, online, within the AML   *)
(* limit, and whose quote succeeded and was verified.                      *)
PaymentsAreApproved ==
  [][paid' # paid =>
       /\ input.execute_payment /\ input.hitl_approved
       /\ input.connectivity # "offline_first"
       /\ input.amount <= AmlLimit
       /\ input.inject_fault # "verifier_reject"
       /\ state.steps = <<[id |-> "quote", ok |-> TRUE]>>]_vars

(* The budget is a hard stop: once a call is over its cap it spends and    *)
(* pays nothing more, and 402 is all it can return.                        *)
HardStop ==
  [][state.spent > input.cap /\ calls' = calls =>
       /\ paid' = paid
       /\ state'.spent \in {0, state.spent}
       /\ pc' = "returned" => state'.status = "budget_exceeded"]_vars

(* What _emit_oscal and the guardian have on disk when a call returns with *)
(* no export failure noted is the outcome: only a 402 fails AB-BUDGET-1,   *)
(* and is partial; AB-AML-1 fails just above the limit; nothing fails only *)
(* if the call succeeded, and paid if it was to pay.                       *)
EvidenceTellsOutcome ==
  [][pc = "export" /\ pc' = "returned" /\ ~state'.export_failed =>
       LET failed == assessment'.failed
           over   == state'.status = "budget_exceeded"
       IN  /\ assessment'.partial = over
           /\ "AB-BUDGET-1" \in failed <=> over
           /\ "AB-AML-1" \in failed <=> input.amount > AmlLimit
           /\ "AB-RUN-1" \in failed <=> state'.status = "failed"
           /\ failed = {} /\ input.execute_payment => paid' = 1]_vars

(* After an export that ended without an exception, whatever earlier ones  *)
(* of the run id left behind, the plan is there exactly for the controls   *)
(* that failed.                                                            *)
PlanFollowsAssessment == export.step = "done" => PlanMatches

=============================================================================
