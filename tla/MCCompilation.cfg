CONSTANTS
  Width = 8
  Fuel = 250
  SourceFuel = 14
  InlineThreshold = 4
  RoundLimit = 5
  Sources <- MCSources
  Tree <- MCTree
  Dictionary <- MCDictionary
  Inputs <- MCInputs
SPECIFICATION Spec
INVARIANTS
  TypeOK
  Resolved
  AcceptedAsWritten
  MeaningKept
CHECK_DEADLOCK FALSE
