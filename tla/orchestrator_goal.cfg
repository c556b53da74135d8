SPECIFICATION Spec
CONSTANTS
  NoFile = NoFile
  Amounts <- MCAmounts
  AmlLimit = 1
  Caps <- MCCaps
  Connectivities <- MCConnectivities
  Reassessments <- MCReassessments
  MaxCalls = 2
INVARIANTS
  TypeOK
  PaysOncePerGoal
  PlanFollowsAssessment
PROPERTIES
  PaymentsAreApproved
  HardStop
  EvidenceTellsOutcome
