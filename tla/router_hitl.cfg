SPECIFICATION Spec
CONSTANTS
  Nil = Nil
  Runs = {r1}
  Providers = {mpesa}
  Tools <- MCPushAndQuote
  Destructive <- MCPush
  ReadOnly <- MCReadOnly
  StatusTools <- MCStatusTools
  Registered <- MCRegistered
  Tokens <- NoToken
  Evidence = {otp, forged}
  Verified = {otp}
  Offline = {}
  Handler = FALSE
  Tickets = {t1}
  Resumed = {1, 3}
  Costs = {1}
  Cap = 1
  MaxSpend = 3
  Escapes <- AllEscapes
  FailureThreshold = 2
  HalfOpenMaxCalls = 1
INVARIANT PausedUntilApproved
