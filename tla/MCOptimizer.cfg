CONSTANTS
  Width = 2
  Fuel = 30
  InlineThreshold = 4
  RoundLimit = 5
  Programs <- MCPrograms
  Inputs <- MCInputs
  Behaviour <- Meaning
SPECIFICATION Spec
INVARIANTS
  TypeOK
  MeaningKept
  CodeWhole
  ChainsCollapsed
CHECK_DEADLOCK FALSE
