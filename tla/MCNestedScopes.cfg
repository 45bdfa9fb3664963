CONSTANTS
  Width = 8
  Fuel = 250
  SourceFuel = 14
  InlineThreshold = 4
  RoundLimit = 5
  Sources <- ScopeSources
  Tree <- MCTree
  Dictionary <- MCDictionary
  Inputs <- MCInputs
SPECIFICATION Spec
INVARIANT ScopesKept
CHECK_DEADLOCK FALSE
