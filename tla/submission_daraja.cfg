SPECIFICATION Spec
CONSTANTS
  Nil = Nil
  ghana = ghana  nigeria = nigeria  kenya = kenya
  uganda = uganda  dollars = dollars
  Intents = {kenya}
  CorridorOf <- KenyaOnly
  Attempts = {a1, a2}
  Configured <- Rails
  Outages <- NoOutages
  Installed <- Packs
INVARIANT RetriesKeepReference
CHECK_DEADLOCK FALSE
