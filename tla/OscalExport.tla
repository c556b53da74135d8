----------------------------- MODULE OscalExport ------------------------------
(***************************************************************************)
(* The evidence directory of one run and export_oscal_results, which       *)
(* replaces its two documents: first the assessment results, then the plan *)
(* of action and milestones, which exists only if a control failed.  Each  *)
(* document is replaced atomically (a temporary file, fsync, rename); the  *)
(* two together are not, and either write may fail or be cut off.          *)
(*                                                                         *)
(* A module that EXTENDS this one says when an export begins and what      *)
(* becomes of the exception of one that fails.                             *)
(***************************************************************************)
CONSTANT NoFile

Controls == {"AB-BUDGET-1", "AB-AML-1", "AB-RUN-1"}

VARIABLES
  assessment,  \* assessment-results.oscal.json: the controls it finds
               \* not-satisfied, and whether it is marked partial
  plan,        \* poam.oscal.json: the controls its items remediate
  export       \* the export under way, or how the latest one ended

files == <<assessment, plan>>

Findings == [failed : SUBSET Controls, partial : BOOLEAN]

ASSUME NoFileAssumption == \A f \in Findings : f # NoFile

ExportTypeOK ==
  /\ assessment \in Findings \cup {NoFile}
  /\ plan \in (SUBSET Controls) \cup {NoFile}
  /\ export \in [step : {"none", "assessment", "plan", "done", "raised", "cut"},
                 findings : Findings \cup {NoFile}]

NoExport == [step |-> "none", findings |-> NoFile]

ExportInit == assessment = NoFile /\ plan = NoFile /\ export = NoExport

Exporting == export.step \in {"assessment", "plan"}

BeginExport(findings) ==
  export' = [step |-> "assessment", findings |-> findings]

EndExport(how) == export' = [step |-> how, findings |-> NoFile]

WriteAssessment ==
  /\ export.step = "assessment"
  /\ assessment' = export.findings
  /\ export' = [export EXCEPT !.step = "plan"]
  /\ UNCHANGED plan

WritePlan ==
  /\ export.step = "plan"
  /\ export.findings.failed # {}
  /\ plan' = export.findings.failed
  /\ EndExport("done")
  /\ UNCHANGED assessment

RemovePlan_Kept ==
  /\ export.step = "plan"
  /\ export.findings.failed = {}
  /\ EndExport("done")
  /\ UNCHANGED files

RemovePlan ==
  /\ export.step = "plan"
  /\ export.findings.failed = {}
  /\ plan' = NoFile
  /\ EndExport("done")
  /\ UNCHANGED assessment

(* Either write raises an OSError; the document keeps its old contents. *)
WriteFails ==
  /\ Exporting
  /\ EndExport("raised")
  /\ UNCHANGED files

(* The process stops between two writes. *)
CutOff ==
  /\ IF Exporting THEN EndExport("cut") ELSE UNCHANGED export
  /\ UNCHANGED files

(* The plan names exactly what the assessment beside it found. *)
PlanMatches ==
  plan = IF assessment = NoFile \/ assessment.failed = {}
         THEN NoFile ELSE assessment.failed

=============================================================================
