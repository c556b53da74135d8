SPECIFICATION Spec
CONSTANTS
  r1 = r1  customer = customer
  k1 = k1  k2 = k2  unset = unset
  Nil = Nil
  Threads = {r1, customer}
  OpaqueIds = {r1}
  Channels = {"goal", "steps"}
  Primitive = {"goal"}
  Keys = {k1, k2}
  BadKeys = {unset}
  NodeCount = 3
SYMMETRY KeySymmetry
INVARIANTS TypeOK ConfidentialAtRest ContinuesFromCheckpoint
CHECK_DEADLOCK FALSE
