SPECIFICATION FairSpec
CONSTANTS
  t1 = t1
  Nil = Nil
  Txns = {t1}
  EventIds <- EventsOfTwo
  Deliveries <- TwoDeliveries
  EventOf <- MCEventOf
  TxnOf <- MCTxnOf
  Workers = {w1}
  Pollers = {}
  Limit = 1
  MaxAttempts = 1
PROPERTY OrphansAreMatched
CHECK_DEADLOCK FALSE
