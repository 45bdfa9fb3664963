CONSTANTS
  Top <- MCTop
  IncludeDirs <- MCIncludeDirs
  Initial <- MCInitial
  Names <- MCNames
  Digits <- MCDigits
  Quoted <- MCQuoted
  WordWidth = 12
  Holds <- EvaluatedHolds
  Malformed <- EvaluatedMalformed
  Expanded <- MacroExpanded
  Header <- HeaderRead
  Worlds <- MCWorlds
  Loaded <- MCLoaded
SPECIFICATION FairSpec
INVARIANTS
  TypeOK
  TakenRight
  LinesMapped
  NoFileWithinItself
PROPERTIES
  SelectedOnly
  ExpandedRight
  ConditionsRight
  Terminates
