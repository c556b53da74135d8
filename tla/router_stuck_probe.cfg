SPECIFICATION FairSpec
CONSTANTS
  Nil = Nil
  Runs = {r1}
  Providers = {mpesa}
  Tools <- MCQuoteOnly
  Destructive <- NoTools
  ReadOnly <- MCReadOnly
  StatusTools <- MCStatusTools
  Registered <- MCRegistered
  Tokens <- NoToken
  Evidence = {otp}
  Verified = {otp}
  Offline = {}
  Handler = FALSE
  Tickets = {}
  Resumed = {0}
  Costs = {}
  Cap = 1
  MaxSpend = 0
  Escapes <- AllEscapes
  FailureThreshold = 2
  HalfOpenMaxCalls = 1
PROPERTY RejectsNotForever
