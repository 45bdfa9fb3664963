CONSTANTS
  CallerSaved = {10}
  CalleeSaved = {19}
  MaxIntervals = 3
  LastPosition = 3
  Inputs <- MCInputs
SPECIFICATION FairSpec
INVARIANTS
  TypeOK
  AllocationValid
  PoolsExact
PROPERTIES
  NoNeedlessSpill
  AllDecided
  Refinement
CHECK_DEADLOCK FALSE
