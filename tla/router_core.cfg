SPECIFICATION FairSpec
CONSTANTS
  Nil = Nil
  Runs = {r1, r2}
  Providers = {mpesa}
  Tools <- MCPush
  Destructive <- MCPush
  ReadOnly <- MCReadOnly
  StatusTools <- MCStatusTools
  Registered <- MCRegistered
  Tokens <- NoToken
  Evidence = {otp, forged}
  Verified = {otp}
  Offline = {}
  Handler = FALSE
  Tickets = {t1}
  Resumed = {1, 3}
  Costs = {0, 1}
  Cap = 1
  MaxSpend = 3
  Escapes <- NoEscapes
  FailureThreshold = 2
  HalfOpenMaxCalls = 1
INVARIANTS
  TypeOK
  OverspendFlagged
  ConfirmedCalls
  BreakersConsistent
PROPERTIES
  StoppedRunsStayStopped
  RejectsNotForever
