SPECIFICATION FairSpec
CONSTANTS
  t1 = t1
  Nil = Nil
  Txns = {t1}
  EventIds <- EventsOfTwo
  Deliveries <- TwoDeliveries
  EventOf <- MCEventOf
  TxnOf <- MCTxnOf
  Workers = {w1, w2}
  Pollers = {}
  Limit = 2
  MaxAttempts = 2
INVARIANTS TypeOK FinalityFromHeadEnd CompletedImpliesFinal CallbackTracked
PROPERTIES LeaseRespected LeasesBounded LedgerImplementsFsm JobsResolve
CHECK_DEADLOCK FALSE
