CONSTANTS
  Width = 8
  Fuel = 250
  SourceFuel = 14
  InlineThreshold = 4
  RoundLimit = 5
  Sources <- AfterBreak
  Tree <- MCTree
  Dictionary <- MCDictionary
  Inputs <- MCInputs
SPECIFICATION Spec
INVARIANT AssertionHolds
CHECK_DEADLOCK FALSE
