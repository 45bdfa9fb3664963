CONSTANTS
  CallerSaved = {10, 11, 12, 13, 17}
  CalleeSaved = {}
  Targets <- MCTargets
  Parking <- MCParking
  Explicit <- MCExplicit
  Shapes <- MCShapes
SPECIFICATION FairSpec
INVARIANTS
  TypeOK
  OperandsLoaded
  OthersUndisturbed
  OutputsArrive
PROPERTY Emitted
CHECK_DEADLOCK FALSE
