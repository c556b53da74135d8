-------------------------- MODULE OrchestratorProofs --------------------------
(***************************************************************************)
(* Proofs about Orchestrator, for all amounts, caps, limits and numbers of *)
(* calls.  The invariant IInv says for each point of the call what it has  *)
(* got through (Passed), that a call over its cap is on its way out with   *)
(* 402 (Stopped), that only a call with nothing left but its evidence has  *)
(* paid (Settled), what evidence it is writing (Reported), and how far the *)
(* two files of an export agree (Agreed).                                  *)
(***************************************************************************)
EXTENDS Orchestrator, TLAPS

QuotedOk == <<[id |-> "quote", ok |-> TRUE]>>

(* The gates behind a call, by where it is *)
Passed ==
  /\ pc = "limits" => state = NewState
  /\ pc \in {"quote", "verify", "approve", "execute"} =>
       /\ state.status = "running"
       /\ input.amount <= AmlLimit
       /\ input.connectivity # "offline_first"
  /\ pc = "quote" => state.steps = <<>>
  /\ pc \in {"verify", "approve", "execute"} => state.steps = QuotedOk
  /\ pc \in {"approve", "execute"} =>
       input.execute_payment /\ input.inject_fault # "verifier_reject"
  /\ pc = "execute" => input.hitl_approved

Stopped ==
  state.spent > input.cap =>
    pc \in {"export", "returned"} /\ state.status = "budget_exceeded"

Settled ==
  /\ paid \in {0, 1}
  /\ paid = 1 =>
       \/ pc = "dead"
       \/ /\ pc \in {"export", "returned"}
          /\ state.status \in {"success", "budget_exceeded"}

(* The evidence a call is about to leave *)
Partial == [failed |-> {"AB-BUDGET-1"}, partial |-> TRUE]

Reported ==
  pc = "export" =>
    /\ Exporting
    /\ state.status \in {"success", "failed", "budget_exceeded"}
    /\ export.findings = IF state.status = "budget_exceeded" THEN Partial
                         ELSE RunFindings(input, state)
    /\ state.status = "budget_exceeded" => input.amount <= AmlLimit
    /\ state.status = "success" /\ input.execute_payment => paid = 1

Agreed ==
  /\ Exporting => export.findings \in Findings
  /\ export.step = "plan" => assessment = export.findings
  /\ export.step = "done" => PlanMatches

IInv == TypeOK /\ Passed /\ Stopped /\ Settled /\ Reported /\ Agreed

-----------------------------------------------------------------------------
(* The three findings are findings. *)
LEMMA RunFindingsType ==
  ASSUME NEW i, NEW s PROVE RunFindings(i, s) \in Findings
BY DEF RunFindings, Findings, Controls

LEMMA InputType ==
  ASSUME NEW i \in Inputs
  PROVE  i.cap \in Nat /\ i.amount \in Nat
BY OrchestratorAssumption DEF Inputs

LEMMA InitIInv == Init => IInv
<1> SUFFICES ASSUME Init PROVE IInv
  OBVIOUS
<1>1. input \in Inputs
  BY DEF Init
<1>2. NewState \in States
  BY DEF NewState, States
<1>3. TypeOK
  BY <1>1, <1>2, OrchestratorAssumption
     DEF Init, TypeOK, ExportInit, ExportTypeOK, NoExport
<1>4. Stopped
  <2>1. state.spent = 0
    BY DEF Init, NewState
  <2>2. ~(state.spent > input.cap)
    BY <1>1, <2>1, InputType
  <2>. QED
    BY <2>2 DEF Stopped
<1>. QED
  BY <1>3, <1>4
     DEF IInv, Init, Passed, Settled, Reported, Agreed, ExportInit, NoExport,
         Exporting

-----------------------------------------------------------------------------
(* What the operators that build the next state make of a state. *)
LEMMA StateType ==
  ASSUME NEW s \in States,
         NEW st \in {"running", "success", "failed", "budget_exceeded",
                     "awaiting_hitl"},
         NEW b \in BOOLEAN
  PROVE  /\ [s EXCEPT !.status = st] \in States
         /\ [s EXCEPT !.status = st].status = st
         /\ [s EXCEPT !.status = st].spent = s.spent
         /\ [s EXCEPT !.status = st].steps = s.steps
         /\ [s EXCEPT !.export_failed = b] \in States
         /\ [s EXCEPT !.export_failed = b].status = s.status
         /\ [s EXCEPT !.export_failed = b].spent = s.spent
BY DEF States

LEMMA ChargedType ==
  ASSUME NEW s \in States, NEW cost \in Nat
  PROVE  /\ Charged(s, cost) \in States
         /\ Charged(s, cost).status = s.status
         /\ Charged(s, cost).spent = s.spent + cost
         /\ Charged(s, cost).steps = s.steps
BY DEF States, Charged

LEMMA AppendedType ==
  ASSUME NEW s \in States, NEW id \in {"quote", "execute"}, NEW ok \in BOOLEAN
  PROVE  /\ Appended(s, id, ok) \in States
         /\ Appended(s, id, ok).status = s.status
         /\ Appended(s, id, ok).spent = s.spent
         /\ Appended(s, id, ok).steps = Append(s.steps, [id |-> id, ok |-> ok])
<1> DEFINE Step == [id : {"quote", "execute"}, ok : BOOLEAN]
           new  == [id |-> id, ok |-> ok]
           seq  == Append(s.steps, new)
<1>1. new \in Step
  OBVIOUS
<1>2. s.steps \in Seq(Step)
  BY DEF States
<1> HIDE DEF Step, new
<1>3. seq \in Seq(Step)
  BY <1>1, <1>2
<1>4. Appended(s, id, ok) = [s EXCEPT !.steps = seq]
  BY DEF Appended, new
<1> HIDE DEF seq
<1>5. /\ [s EXCEPT !.steps = seq] \in States
      /\ [s EXCEPT !.steps = seq].steps = seq
      /\ [s EXCEPT !.steps = seq].status = s.status
      /\ [s EXCEPT !.steps = seq].spent = s.spent
  BY <1>3 DEF States, Step
<1>. QED
  BY <1>4, <1>5 DEF seq, new

LEMMA DoneType ==
  ASSUME NEW s \in States
  PROVE  LET t == [s EXCEPT !.status = "success", !.last_quote_id = TRUE]
         IN  t \in States /\ t.status = "success" /\ t.spent = s.spent
BY DEF States

-----------------------------------------------------------------------------
(* The three ways on from a point of the call: to its evidence with an     *)
(* outcome, to its evidence with 402, or to the next point.                *)
LEMMA FinishKeeps ==
  ASSUME IInv, NEW s \in States, Finish(s),
         UNCHANGED <<input, calls, files>>,
         s.status \in {"success", "failed"},
         ~(s.spent > input.cap),
         paid' \in {0, 1},
         paid' = 1 => s.status = "success",
         s.status = "success" /\ input.execute_payment => paid' = 1
  PROVE  IInv'
<1>1. RunFindings(input, s) \in Findings
  BY RunFindingsType
<1>2. /\ state' = s /\ pc' = "export"
      /\ export' = [step |-> "assessment", findings |-> RunFindings(input, s)]
  BY DEF Finish, BeginExport
<1>3. export'.step = "assessment" /\ export'.findings = RunFindings(input, s)
  BY <1>2
<1>4. TypeOK'
  BY <1>1, <1>2 DEF IInv, TypeOK, ExportTypeOK, files
<1>5. Reported'
  BY <1>2, <1>3 DEF Reported, Exporting, RunFindings
<1>6. Agreed'
  BY <1>1, <1>3 DEF Agreed, Exporting
<1>7. Passed' /\ Stopped' /\ Settled'
  BY <1>2 DEF Passed, Stopped, Settled
<1>. QED
  BY <1>4, <1>5, <1>6, <1>7 DEF IInv

LEMMA TripKeeps ==
  ASSUME IInv, NEW s \in States, Trip(s),
         UNCHANGED <<input, calls, files>>,
         input.amount <= AmlLimit,
         paid' \in {0, 1}
  PROVE  IInv'
<1> DEFINE t == [s EXCEPT !.status = "budget_exceeded"]
<1>1. t \in States /\ t.status = "budget_exceeded"
  BY StateType
<1>2. state' = t /\ pc' = "export"
      /\ export' = [step |-> "assessment", findings |-> Partial]
  BY DEF Trip, BeginExport, Partial
<1> HIDE DEF t
<1>3. Partial \in Findings
  BY DEF Partial, Findings, Controls
<1>4. export'.step = "assessment" /\ export'.findings = Partial
  BY <1>2
<1>5. TypeOK'
  BY <1>1, <1>2, <1>3 DEF IInv, TypeOK, ExportTypeOK, files
<1>6. Reported'
  BY <1>1, <1>2, <1>4 DEF Reported, Exporting
<1>7. Agreed'
  BY <1>3, <1>4 DEF Agreed, Exporting
<1>8. Passed' /\ Stopped' /\ Settled'
  BY <1>1, <1>2 DEF Passed, Stopped, Settled
<1>. QED
  BY <1>5, <1>6, <1>7, <1>8 DEF IInv

(* A step to another point writes no evidence; what it must have passed,   *)
(* and that it has paid nothing and is within its cap, is for the caller   *)
(* of the lemma to show.                                                   *)
LEMMA GoToKeeps ==
  ASSUME IInv, NEW s \in States,
         NEW step \in {"quote", "verify", "approve", "execute", "returned"},
         GoTo(s, step),
         UNCHANGED <<input, calls, paid, files>>,
         paid = 0, ~(s.spent > input.cap), Passed'
  PROVE  IInv'
<1>1. state' = s /\ pc' = step /\ export' = export
  BY DEF GoTo
<1>2. TypeOK'
  BY <1>1 DEF IInv, TypeOK, ExportTypeOK, files
<1>3. Stopped' /\ Settled' /\ Reported'
  BY <1>1 DEF Stopped, Settled, Reported
<1>4. Agreed'
  BY <1>1 DEF IInv, Agreed, Exporting, PlanMatches, files
<1>. QED
  BY <1>2, <1>3, <1>4 DEF IInv

(* Before the provider is asked to execute, nothing is paid and the call   *)
(* is within its cap.                                                      *)
LEMMA NothingYet ==
  ASSUME IInv, pc \in {"limits", "quote", "verify", "approve", "execute"}
  PROVE  /\ paid = 0 /\ ~(state.spent > input.cap)
         /\ state \in States /\ input \in Inputs
         /\ state.spent \in Nat /\ input.cap \in Nat /\ input.amount \in Nat
<1>1. state \in States /\ input \in Inputs
  BY DEF IInv, TypeOK
<1>2. state.spent \in Nat
  BY <1>1 DEF States
<1>3. paid = 0
  BY DEF IInv, Settled
<1>4. ~(state.spent > input.cap)
  BY DEF IInv, Stopped
<1>. QED
  BY <1>1, <1>2, <1>3, <1>4, InputType

-----------------------------------------------------------------------------
(* One lemma per action *)
LEMMA CheckLimitsKeeps == ASSUME IInv, CheckLimits PROVE IInv'
<1>1. pc = "limits" /\ state = NewState /\ UNCHANGED <<input, calls, paid, files>>
  BY DEF CheckLimits, IInv, Passed
<1>2. paid = 0 /\ ~(state.spent > input.cap) /\ state \in States
      /\ input.amount \in Nat
  BY <1>1, NothingYet
<1>3. CASE Fail(state)
  <2> DEFINE t == [state EXCEPT !.status = "failed"]
  <2>1. t \in States /\ t.status = "failed" /\ t.spent = state.spent
    BY <1>2, StateType
  <2>2. Finish(t)
    BY <1>3 DEF Fail
  <2> HIDE DEF t
  <2>. QED
    BY <1>1, <1>2, <2>1, <2>2, FinishKeeps
<1>4. CASE /\ GoTo(state, "quote")
           /\ ~(input.amount > AmlLimit) /\ Decide(input) # "block"
  <2>1. input.amount <= AmlLimit
    BY <1>2, <1>4, OrchestratorAssumption
  <2>2. input.connectivity # "offline_first"
    BY <1>4 DEF Decide
  <2>3. state.status = "running" /\ state.steps = <<>>
    BY <1>1 DEF NewState
  <2>4. Passed'
    BY <1>1, <1>4, <2>1, <2>2, <2>3 DEF Passed, GoTo
  <2>. QED
    BY <1>1, <1>2, <1>4, <2>4, GoToKeeps
<1>. QED
  BY <1>3, <1>4 DEF CheckLimits

LEMMA QuoteKeeps == ASSUME IInv, Quote PROVE IInv'
<1> DEFINE ok == QuoteOk(input)
           c  == Charged(state, IF ok THEN QUOTE_COST ELSE 0)
           t  == Appended(c, "quote", ok)
           f  == [t EXCEPT !.status = "failed"]
<1>1. pc = "quote" /\ UNCHANGED <<input, calls, paid, files>>
  BY DEF Quote
<1>2. /\ paid = 0 /\ state \in States /\ input.amount <= AmlLimit
      /\ input.connectivity # "offline_first"
      /\ state.status = "running"
  BY <1>1, NothingYet DEF IInv, Passed
<1>3. ok \in BOOLEAN
  BY DEF QuoteOk
<1>4. c \in States /\ c.status = "running"
  BY <1>2, ChargedType DEF QUOTE_COST
<1> HIDE DEF c
<1>5. /\ t \in States /\ t.status = "running" /\ t.spent = c.spent
      /\ t.steps = Append(c.steps, [id |-> "quote", ok |-> ok])
  BY <1>3, <1>4, AppendedType
<1> HIDE DEF t
<1>6. f \in States /\ f.status = "failed" /\ f.spent = c.spent
  BY <1>5, StateType
<1>7. CASE Over(c) /\ Trip(c)
  BY <1>1, <1>2, <1>4, <1>7, TripKeeps
<1>8. CASE ~Over(c) /\ Fail(t)
  <2>1. ~(f.spent > input.cap)
    BY <1>6, <1>8 DEF Over
  <2>2. Finish(f)
    BY <1>8 DEF Fail
  <2> HIDE DEF f
  <2>. QED
    BY <1>1, <1>2, <1>6, <2>1, <2>2, FinishKeeps
<1>9. CASE ~Over(c) /\ ok /\ GoTo(t, "verify")
  <2>1. ~(t.spent > input.cap)
    BY <1>5, <1>9 DEF Over
  <2>2. c.steps = <<>>
    <3>1. state.steps = <<>>
      BY <1>1 DEF IInv, Passed
    <3>2. c.steps = state.steps
      BY <1>2, ChargedType DEF c, QUOTE_COST
    <3>. QED
      BY <3>1, <3>2
  <2>3. t.steps = QuotedOk
    BY <1>5, <1>9, <2>2 DEF QuotedOk
  <2>4. Passed'
    BY <1>1, <1>2, <1>5, <1>9, <2>3 DEF Passed, GoTo
  <2>. QED
    BY <1>1, <1>2, <1>5, <1>9, <2>1, <2>4, GoToKeeps
<1>. QED
  BY <1>7, <1>8, <1>9 DEF Quote, c, t

(* A call that succeeds without paying *)
LEMMA VerifyKeeps == ASSUME IInv, Verify PROVE IInv'
<1>1. pc = "verify" /\ UNCHANGED <<input, calls, paid, files>>
  BY DEF Verify
<1>2. /\ paid = 0 /\ ~(state.spent > input.cap) /\ state \in States
      /\ input \in Inputs
  BY <1>1, NothingYet
<1>3. CASE Fail(state)
  <2> DEFINE t == [state EXCEPT !.status = "failed"]
  <2>1. t \in States /\ t.status = "failed" /\ t.spent = state.spent
    BY <1>2, StateType
  <2>2. Finish(t)
    BY <1>3 DEF Fail
  <2> HIDE DEF t
  <2>. QED
    BY <1>1, <1>2, <2>1, <2>2, FinishKeeps
<1>4. CASE input.inject_fault # "verifier_reject" /\ input.execute_payment
           /\ GoTo(state, "approve")
  <2>1. Passed'
    BY <1>1, <1>4 DEF IInv, Passed, GoTo
  <2>. QED
    BY <1>1, <1>2, <1>4, <2>1, GoToKeeps
<1>5. CASE ~input.execute_payment /\ Done(state)
  <2> DEFINE t == [state EXCEPT !.status = "success", !.last_quote_id = TRUE]
  <2>1. t \in States /\ t.status = "success" /\ t.spent = state.spent
    BY <1>2, DoneType
  <2>2. Finish(t)
    BY <1>5 DEF Done
  <2> HIDE DEF t
  <2>. QED
    BY <1>1, <1>2, <1>5, <2>1, <2>2, FinishKeeps
<1>. QED
  BY <1>3, <1>4, <1>5 DEF Verify

LEMMA ApproveKeeps == ASSUME IInv, Approve PROVE IInv'
<1>1. pc = "approve" /\ UNCHANGED <<input, calls, paid, files>>
  BY DEF Approve
<1>2. paid = 0 /\ ~(state.spent > input.cap) /\ state \in States
  BY <1>1, NothingYet
<1>3. CASE GoTo([state EXCEPT !.status = "awaiting_hitl"], "returned")
  <2> DEFINE t == [state EXCEPT !.status = "awaiting_hitl"]
  <2>1. t \in States /\ t.spent = state.spent
    BY <1>2, StateType
  <2>2. GoTo(t, "returned")
    BY <1>3
  <2> HIDE DEF t
  <2>3. Passed'
    BY <2>2 DEF Passed, GoTo
  <2>. QED
    BY <1>1, <1>2, <2>1, <2>2, <2>3, GoToKeeps
<1>4. CASE input.hitl_approved /\ GoTo(state, "execute")
  <2>1. Passed'
    BY <1>1, <1>4 DEF IInv, Passed, GoTo
  <2>. QED
    BY <1>1, <1>2, <1>4, <2>1, GoToKeeps
<1>. QED
  BY <1>3, <1>4 DEF Approve

(* The only step that pays: out of it the call has an outcome, or a 402. *)
LEMMA ExecuteKeeps == ASSUME IInv, Execute PROVE IInv'
<1> DEFINE ok == ExecuteOk(input)
           c  == Charged(state, IF ok THEN EXECUTE_COST ELSE 0)
           t  == Appended(c, "execute", ok)
           f  == [t EXCEPT !.status = "failed"]
           d  == [t EXCEPT !.status = "success", !.last_quote_id = TRUE]
<1>1. pc = "execute" /\ UNCHANGED <<input, calls, files>>
  BY DEF Execute
<1>2. paid = 0 /\ state \in States /\ input.amount <= AmlLimit
  BY <1>1, NothingYet DEF IInv, Passed
<1>3. ok \in BOOLEAN
  BY DEF ExecuteOk
<1>4. paid' = IF ok THEN 1 ELSE 0
  BY <1>2 DEF Execute
<1>5. c \in States
  BY <1>2, ChargedType DEF EXECUTE_COST
<1> HIDE DEF c
<1>6. t \in States /\ t.spent = c.spent
  BY <1>3, <1>5, AppendedType
<1> HIDE DEF t
<1>7. /\ f \in States /\ f.status = "failed" /\ f.spent = c.spent
      /\ d \in States /\ d.status = "success" /\ d.spent = c.spent
  BY <1>6, StateType, DoneType
<1>8. CASE Over(c) /\ Trip(c)
  BY <1>1, <1>2, <1>4, <1>5, <1>8, TripKeeps
<1>9. CASE ~Over(c) /\ ~ok /\ Fail(t)
  <2>1. ~(f.spent > input.cap) /\ Finish(f)
    BY <1>7, <1>9 DEF Over, Fail
  <2> HIDE DEF f
  <2>. QED
    BY <1>1, <1>4, <1>7, <1>9, <2>1, FinishKeeps
<1>10. CASE ~Over(c) /\ ok /\ Done(t)
  <2>1. ~(d.spent > input.cap) /\ Finish(d)
    BY <1>7, <1>10 DEF Over, Done
  <2> HIDE DEF d
  <2>. QED
    BY <1>1, <1>4, <1>7, <1>10, <2>1, FinishKeeps
<1>. QED
  BY <1>8, <1>9, <1>10 DEF Execute, c, t

(* Writing the evidence: the call's own export, or one of somebody who     *)
(* assesses its run again                                                  *)
LEMMA ExportStepKeeps == ASSUME IInv, ExportStep PROVE IInv'
<1>1. UNCHANGED <<input, state, calls, paid>>
  BY DEF ExportStep
<1>2. export.findings \in Findings
  BY DEF IInv, Agreed, ExportStep, WriteAssessment, WritePlan, RemovePlan,
         Exporting
<1>3. CASE WriteAssessment
  <2>1. export \in [step : {"none", "assessment", "plan", "done", "raised", "cut"},
                    findings : Findings \cup {NoFile}]
    BY DEF IInv, TypeOK, ExportTypeOK
  <2>2. /\ export' = [export EXCEPT !.step = "plan"]
        /\ assessment' = export.findings /\ plan' = plan
    BY <1>3 DEF WriteAssessment
  <2>3. export'.step = "plan" /\ export'.findings = export.findings
    BY <2>1, <2>2
  <2>4. pc' = pc
    BY <2>3 DEF ExportStep
  <2>5. TypeOK'
    BY <1>1, <1>2, <2>1, <2>2, <2>4 DEF IInv, TypeOK, ExportTypeOK
  <2>6. Passed' /\ Stopped' /\ Settled'
    BY <1>1, <2>4 DEF IInv, Passed, Stopped, Settled
  <2>7. Reported'
    BY <1>1, <2>3, <2>4 DEF IInv, Reported, Exporting, RunFindings
  <2>8. Agreed'
    BY <1>2, <2>2, <2>3 DEF Agreed, Exporting
  <2>. QED
    BY <2>5, <2>6, <2>7, <2>8 DEF IInv
<1>4. CASE WritePlan \/ RemovePlan
  <2>1. /\ export' = [step |-> "done", findings |-> NoFile]
        /\ assessment' = assessment
        /\ plan' = IF export.findings.failed = {} THEN NoFile
                   ELSE export.findings.failed
    BY <1>4 DEF WritePlan, RemovePlan, EndExport
  <2>2. export'.step = "done"
    BY <2>1
  <2>3. assessment = export.findings
    BY <1>4 DEF IInv, Agreed, WritePlan, RemovePlan
  <2>4. assessment # NoFile
    BY <1>2, <2>3, NoFileAssumption
  <2>5. export.findings.failed \in SUBSET Controls
    BY <1>2 DEF Findings
  <2>6. pc' = IF pc = "export" THEN "returned" ELSE pc
    BY <2>2 DEF ExportStep
  <2>7. TypeOK'
    BY <1>1, <2>1, <2>5, <2>6 DEF IInv, TypeOK, ExportTypeOK
  <2>8. Passed' /\ Stopped' /\ Settled'
    BY <1>1, <2>6 DEF IInv, Passed, Stopped, Settled
  <2>9. Reported'
    BY <2>6 DEF Reported
  <2>10. Agreed'
    BY <2>1, <2>2, <2>3, <2>4 DEF Agreed, Exporting, PlanMatches
  <2>. QED
    BY <2>7, <2>8, <2>9, <2>10 DEF IInv
<1>. QED
  BY <1>3, <1>4 DEF ExportStep

(* An export that ends without success claims nothing about the files. *)
LEMMA CutShort ==
  ASSUME IInv, NEW how \in {"raised", "cut"}, EndExport(how), UNCHANGED files
  PROVE  Agreed' /\ ExportTypeOK'
<1>1. export' = [step |-> how, findings |-> NoFile]
  BY DEF EndExport
<1>2. export'.step = how
  BY <1>1
<1>. QED
  BY <1>1, <1>2 DEF IInv, Agreed, Exporting, TypeOK, ExportTypeOK, files

LEMMA ExportFailsKeeps == ASSUME IInv, ExportFails PROVE IInv'
<1> DEFINE t == [state EXCEPT !.export_failed = TRUE]
<1>1. /\ pc = "export" /\ pc' = "returned" /\ state' = t
      /\ UNCHANGED <<input, calls, paid, files>> /\ EndExport("raised")
  BY DEF ExportFails, WriteFails
<1>2. state \in States
  BY DEF IInv, TypeOK
<1>3. t \in States /\ t.status = state.status /\ t.spent = state.spent
  BY <1>2, StateType
<1> HIDE DEF t
<1>4. Agreed' /\ ExportTypeOK'
  BY <1>1, CutShort
<1>5. TypeOK'
  BY <1>1, <1>3, <1>4 DEF IInv, TypeOK
<1>6. Passed' /\ Stopped' /\ Settled' /\ Reported'
  BY <1>1, <1>3 DEF IInv, Passed, Stopped, Settled, Reported
<1>. QED
  BY <1>4, <1>5, <1>6 DEF IInv

LEMMA ReassessKeeps ==
  ASSUME IInv, NEW failed \in Reassessments, Reassess(failed) PROVE IInv'
<1> DEFINE g == [failed |-> failed, partial |-> FALSE]
<1>1. g \in Findings
  BY OrchestratorAssumption DEF Findings
<1>2. /\ export' = [step |-> "assessment", findings |-> g]
      /\ pc \in {"returned", "dead"}
      /\ UNCHANGED <<input, pc, state, calls, paid, assessment, plan>>
  BY DEF Reassess, BeginExport, runVars, files
<1> HIDE DEF g
<1>3. export'.step = "assessment" /\ export'.findings = g
  BY <1>2
<1>4. TypeOK'
  BY <1>1, <1>2 DEF IInv, TypeOK, ExportTypeOK
<1>5. Passed' /\ Stopped' /\ Settled' /\ Reported'
  BY <1>2 DEF IInv, Passed, Stopped, Settled, Reported
<1>6. Agreed'
  BY <1>1, <1>3 DEF Agreed, Exporting
<1>. QED
  BY <1>4, <1>5, <1>6 DEF IInv

LEMMA ReassessFailsKeeps == ASSUME IInv, ReassessFails PROVE IInv'
<1>1. /\ pc \in {"returned", "dead"} /\ EndExport("raised")
      /\ UNCHANGED <<input, pc, state, calls, paid, files>>
  BY DEF ReassessFails, WriteFails, runVars
<1>2. Agreed' /\ ExportTypeOK'
  BY <1>1, CutShort
<1>. QED
  BY <1>1, <1>2 DEF IInv, TypeOK, Passed, Stopped, Settled, Reported

LEMMA CrashKeeps == ASSUME IInv, Crash PROVE IInv'
<1>1. UNCHANGED <<input, calls, paid, files>>
  BY DEF Crash, CutOff
<1>2. Agreed' /\ ExportTypeOK'
  <2>1. CASE Exporting
    BY <1>1, <2>1, CutShort DEF Crash, CutOff
  <2>2. CASE ~Exporting
    BY <1>1, <2>2
       DEF Crash, CutOff, IInv, Agreed, Exporting, PlanMatches, TypeOK,
           ExportTypeOK, files
  <2>. QED
    BY <2>1, <2>2
<1>3. CASE pc' = "dead" /\ state' = NewState
  <2>1. NewState \in States /\ NewState.spent = 0
    BY DEF NewState, States
  <2>2. input.cap \in Nat
    BY InputType DEF IInv, TypeOK
  <2>3. ~(state'.spent > input'.cap)
    BY <1>1, <1>3, <2>1, <2>2
  <2>4. TypeOK'
    BY <1>1, <1>2, <1>3, <2>1 DEF IInv, TypeOK
  <2>. QED
    BY <1>1, <1>2, <1>3, <2>3, <2>4
       DEF IInv, Passed, Stopped, Settled, Reported
<1>4. CASE ~Running /\ UNCHANGED <<pc, state>>
  BY <1>1, <1>2, <1>4
     DEF IInv, TypeOK, Passed, Stopped, Settled, Reported, Running
<1>. QED
  BY <1>3, <1>4 DEF Crash

LEMMA InvokeKeeps == ASSUME IInv, NEW i \in Inputs, Invoke(i) PROVE IInv'
<1>1. /\ input' = i /\ state' = NewState /\ pc' = "limits" /\ paid' = paid
      /\ calls' = calls + 1 /\ calls < MaxCalls
      /\ assessment' = NoFile /\ plan' = NoFile /\ export' = NoExport
  BY DEF Invoke
<1>2. NewState \in States /\ NewState.spent = 0
  BY DEF NewState, States
<1>3. export'.step = "none"
  BY <1>1 DEF NoExport
<1>4. calls' \in 0..MaxCalls
  BY <1>1, OrchestratorAssumption DEF IInv, TypeOK
<1>5. TypeOK'
  BY <1>1, <1>2, <1>4 DEF IInv, TypeOK, ExportTypeOK, NoExport
<1>6. Settled'
  BY <1>1 DEF IInv, Settled, Invoke, Callable
<1>7. Stopped'
  BY <1>1, <1>2, InputType DEF Stopped
<1>8. Passed' /\ Reported' /\ Agreed'
  BY <1>1, <1>3 DEF Passed, Reported, Agreed, Exporting
<1>. QED
  BY <1>5, <1>6, <1>7, <1>8 DEF IInv

LEMMA StutterKeeps == ASSUME IInv, UNCHANGED vars PROVE IInv'
BY DEF IInv, vars, runVars, files, TypeOK, ExportTypeOK, Passed, Stopped,
       Settled, Reported, Agreed, Exporting, PlanMatches, RunFindings

-----------------------------------------------------------------------------
LEMMA NextKeeps == IInv /\ [Next]_vars => IInv'
<1> SUFFICES ASSUME IInv, [Next]_vars PROVE IInv'
  OBVIOUS
<1>1. ASSUME NEW i \in Inputs, Invoke(i) PROVE IInv'
  BY <1>1, InvokeKeeps
<1>2. CASE CheckLimits
  BY <1>2, CheckLimitsKeeps
<1>3. CASE Quote
  BY <1>3, QuoteKeeps
<1>4. CASE Verify
  BY <1>4, VerifyKeeps
<1>5. CASE Approve
  BY <1>5, ApproveKeeps
<1>6. CASE Execute
  BY <1>6, ExecuteKeeps
<1>7. CASE ExportStep
  BY <1>7, ExportStepKeeps
<1>8. CASE ExportFails
  BY <1>8, ExportFailsKeeps
<1>9. ASSUME NEW failed \in Reassessments, Reassess(failed) PROVE IInv'
  BY <1>9, ReassessKeeps
<1>10. CASE ReassessFails
  BY <1>10, ReassessFailsKeeps
<1>11. CASE Crash
  BY <1>11, CrashKeeps
<1>12. CASE UNCHANGED vars
  BY <1>12, StutterKeeps
<1>. QED
  BY <1>1, <1>2, <1>3, <1>4, <1>5, <1>6, <1>7, <1>8, <1>9, <1>10, <1>11,
     <1>12 DEF Next

(* run_quote_goal and its exporter keep their inductive invariant. *)
THEOREM OrchestratorInvariant == Spec => []IInv
BY InitIInv, NextKeeps, PTL DEF Spec

(* All variables keep their types, whatever amounts and caps are asked. *)
THEOREM OrchestratorTypeCorrect == Spec => []TypeOK
<1>1. IInv => TypeOK
  BY DEF IInv
<1>. QED
  BY <1>1, OrchestratorInvariant, PTL

(* However often the goal is called for again after "failed" or            *)
(* "awaiting_hitl", run_quote_goal pays it at most once.                   *)
THEOREM GoalPaidOnce == Spec => []PaysOncePerGoal
<1>1. IInv => PaysOncePerGoal
  BY DEF IInv, Settled, PaysOncePerGoal
<1>. QED
  BY <1>1, OrchestratorInvariant, PTL

(* export_oscal_results leaves the plan that fits its assessment, whatever *)
(* earlier exports for the run id left behind.                             *)
THEOREM PlansFitAssessments == Spec => []PlanFollowsAssessment
<1>1. IInv => PlanFollowsAssessment
  BY DEF IInv, Agreed, PlanFollowsAssessment
<1>. QED
  BY <1>1, OrchestratorInvariant, PTL

(* Only execute's step pays, and all gates of run_quote_goal are behind it.*)
THEOREM OnlyApprovedPayments == Spec => PaymentsAreApproved
<1> DEFINE Gated ==
      paid' # paid =>
        /\ input.execute_payment /\ input.hitl_approved
        /\ input.connectivity # "offline_first"
        /\ input.amount <= AmlLimit
        /\ input.inject_fault # "verifier_reject"
        /\ state.steps = <<[id |-> "quote", ok |-> TRUE]>>
<1>1. IInv /\ [Next]_vars => [Gated]_vars
  <2> SUFFICES ASSUME IInv, Next, paid' # paid PROVE Gated
    BY DEF vars, runVars
  <2>1. Execute
    BY DEF Next, Invoke, CheckLimits, Quote, Verify, Approve, ExportStep,
           ExportFails, Reassess, ReassessFails, Crash, runVars
  <2>2. pc = "execute"
    BY <2>1 DEF Execute
  <2>. QED
    BY <2>2 DEF IInv, Passed, QuotedOk
<1>. QED
  BY <1>1, OrchestratorInvariant, PTL DEF PaymentsAreApproved, Spec

(* A call over its cap neither spends nor pays again, and returns 402. *)
THEOREM BudgetStopsHard == Spec => HardStop
<1> DEFINE Stays ==
      state.spent > input.cap /\ calls' = calls =>
        /\ paid' = paid
        /\ state'.spent \in {0, state.spent}
        /\ pc' = "returned" => state'.status = "budget_exceeded"
<1>1. IInv /\ [Next]_vars => [Stays]_vars
  <2> SUFFICES ASSUME IInv, Next, state.spent > input.cap, calls' = calls
               PROVE  /\ paid' = paid
                      /\ state'.spent \in {0, state.spent}
                      /\ pc' = "returned" => state'.status = "budget_exceeded"
    OBVIOUS
  <2>1. pc \in {"export", "returned"} /\ state.status = "budget_exceeded"
    BY DEF IInv, Stopped
  <2>2. state \in States
    BY DEF IInv, TypeOK
  <2>3. ASSUME NEW i \in Inputs PROVE ~Invoke(i)
    BY OrchestratorAssumption DEF Invoke, IInv, TypeOK
  <2>4. CASE ExportStep \/ \E failed \in Reassessments : Reassess(failed)
    BY <2>1, <2>4 DEF ExportStep, Reassess, runVars
  <2>5. CASE ExportFails
    <3>1. state' = [state EXCEPT !.export_failed = TRUE] /\ paid' = paid
      BY <2>5 DEF ExportFails
    <3>. QED
      BY <2>1, <2>2, <3>1, StateType
  <2>6. CASE ReassessFails
    BY <2>1, <2>6 DEF ReassessFails, runVars
  <2>7. CASE Crash
    <3>1. NewState.spent = 0
      BY DEF NewState
    <3>. QED
      BY <2>1, <2>7, <3>1 DEF Crash
  <2>. QED
    BY <2>1, <2>3, <2>4, <2>5, <2>6, <2>7
       DEF Next, CheckLimits, Quote, Verify, Approve, Execute
<1>. QED
  BY <1>1, OrchestratorInvariant, PTL DEF HardStop, Spec

(* What _emit_oscal and the guardian leave on disk is the call's outcome. *)
THEOREM EvidenceIsTrue == Spec => EvidenceTellsOutcome
<1> DEFINE Told ==
      pc = "export" /\ pc' = "returned" /\ ~state'.export_failed =>
        LET failed == assessment'.failed
            over   == state'.status = "budget_exceeded"
        IN  /\ assessment'.partial = over
            /\ "AB-BUDGET-1" \in failed <=> over
            /\ "AB-AML-1" \in failed <=> input.amount > AmlLimit
            /\ "AB-RUN-1" \in failed <=> state'.status = "failed"
            /\ failed = {} /\ input.execute_payment => paid' = 1
<1>1. IInv /\ [Next]_vars => [Told]_vars
  <2> SUFFICES ASSUME IInv, Next, pc = "export", pc' = "returned",
                      ~state'.export_failed
               PROVE  Told
    OBVIOUS
  <2>1. state \in States
    BY DEF IInv, TypeOK
  <2>2. input.amount \in Nat
    BY InputType DEF IInv, TypeOK
  <2>3. ~ExportFails
    <3>1. [state EXCEPT !.export_failed = TRUE].export_failed = TRUE
      BY <2>1 DEF States
    <3>. QED
      BY <3>1 DEF ExportFails
  <2>4. ExportStep
    BY <2>3 DEF Next, Invoke, CheckLimits, Quote, Verify, Approve, Execute,
                Reassess, ReassessFails, Crash, runVars, GoTo, Callable
  <2>5. /\ state' = state /\ paid' = paid
        /\ export.step = "plan" /\ assessment' = assessment
    <3>1. CASE WriteAssessment
      <4>1. export'.step = "plan"
        BY <3>1 DEF WriteAssessment, IInv, TypeOK, ExportTypeOK
      <4>. QED
        BY <2>4, <4>1 DEF ExportStep
    <3>2. CASE WritePlan \/ RemovePlan
      BY <2>4, <3>2 DEF ExportStep, WritePlan, RemovePlan
    <3>. QED
      BY <2>4, <3>1, <3>2 DEF ExportStep
  <2>6. assessment' = IF state.status = "budget_exceeded" THEN Partial
                      ELSE RunFindings(input, state)
    BY <2>5 DEF IInv, Agreed, Reported
  <2>7. CASE state.status = "budget_exceeded"
    <3>1. assessment'.failed = {"AB-BUDGET-1"} /\ assessment'.partial = TRUE
      BY <2>6, <2>7 DEF Partial
    <3>2. ~(input.amount > AmlLimit)
      BY <2>2, <2>7, OrchestratorAssumption DEF IInv, Reported
    <3>. QED
      BY <2>5, <2>7, <3>1, <3>2
  <2>8. CASE state.status # "budget_exceeded"
    <3>1. /\ assessment'.partial = FALSE
          /\ assessment'.failed =
               (IF input.amount > AmlLimit THEN {"AB-AML-1"} ELSE {})
                 \cup (IF state.status # "success" THEN {"AB-RUN-1"} ELSE {})
      BY <2>6, <2>8 DEF RunFindings
    <3>2. state.status \in {"success", "failed"}
      BY <2>8 DEF IInv, Reported
    <3>3. state.status = "success" /\ input.execute_payment => paid = 1
      BY DEF IInv, Reported
    <3>. QED
      BY <2>5, <2>8, <3>1, <3>2, <3>3
  <2>. QED
    BY <2>7, <2>8
<1>. QED
  BY <1>1, OrchestratorInvariant, PTL DEF EvidenceTellsOutcome, Spec

=============================================================================
