SPECIFICATION Spec
CONSTANTS
  s1 = s1  s2 = s2
  t1 = t1
  e1 = e1  e2 = e2
  d1 = d1  d2 = d2  d3 = d3
  w1 = w1  w2 = w2
  Nil = Nil
  Sessions = {s1, s2}
  Txns = {t1}
  EventIds = {e1, e2}
  Deliveries = {d1, d2, d3}
  EventOf <- MCEventOf
  TxnOf <- MCTxnOf
  Workers = {w1, w2}
  Limit = 2
  MaxAttempts = 1
SYMMETRY SessionSymmetry
INVARIANTS TypeOK OnlyClaimsDeadlock
PROPERTY CallsAreAtomic
CHECK_DEADLOCK FALSE
