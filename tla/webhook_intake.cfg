SPECIFICATION IntakeSpec
CONSTANTS
  t1 = t1  t2 = t2
  Nil = Nil
  Txns = {t1, t2}
  EventIds <- MCEventIds
  Deliveries <- MCDeliveries
  EventOf <- MCEventOf
  TxnOf <- MCTxnOf
  Workers = {}
  Pollers = {p1}
  Limit = 1
  MaxAttempts = 1
  Requests <- Requested
  CallbackOf <- MCCallback
  Proof <- MCProof
  Json <- MCJson
  Token = "token"
  Identities = {"spiffe"}
  KeyIds = {"k1", "k2"}
  Subjects <- MCSubjects
  Forms <- MCForms
  Codes <- MCCodes
  MaxNesting = 4
INVARIANTS
  IntakeTypeOK
  RedeliveryAcknowledged
  ProjectionsAccepted
  SubjectsRecognised
  CallbackTracked
CHECK_DEADLOCK FALSE
