SPECIFICATION AuthSpec
CONSTANTS
  Nil = Nil
  Runs = {r1, r2}
  Providers = {mpesa}
  Tools <- MCTools
  Destructive <- Push
  ReadOnly <- Query
  StatusTools <- Query
  Registered <- MCTools
  Tokens <- MCTokens
  Evidence = {otp}
  Verified = {otp}
  Offline = {r2}
  Handler = TRUE
  Tickets = {}
  Resumed = {0}
  Costs = {}
  Cap = 1
  MaxSpend = 0
  Escapes <- AllEscapes
  FailureThreshold = 1
  HalfOpenMaxCalls = 1
  Remote = {r1}
  Clients = {agent, console}
  Verifiers = {v1, v2}
  Redirects <- MCRedirects
  AllowedRedirects <- MCAllowed
  Asked <- MCAsked
  Codes = {c1, c2}
  Accesses = {a1, a2}
SYMMETRY FlowSymmetry
INVARIANTS LeastPrivilege OneTokenPerGrant
CHECK_DEADLOCK FALSE
