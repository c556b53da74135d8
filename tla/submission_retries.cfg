SPECIFICATION Spec
CONSTANTS
  Nil = Nil
  ghana = ghana  nigeria = nigeria  kenya = kenya
  uganda = uganda  dollars = dollars
  Intents = {ghana, nigeria, kenya, uganda, dollars}
  CorridorOf <- MCCorridorOf
  Attempts = {a1, a2, a3}
  Configured <- Rails
  Outages <- MCOutages
  Installed <- Packs
SYMMETRY AttemptSymmetry
INVARIANTS
  TypeOK
  OneProviderPerIntent
  PaysOnce
  FailuresAreOver
  Reconcilable
  VerdictsStand
CHECK_DEADLOCK FALSE
