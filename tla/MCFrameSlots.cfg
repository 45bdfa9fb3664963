CONSTANTS
  t1 = t1
  t2 = t2
  t3 = t3
  v1 = v1
  v2 = v2
  Temp <- MCTemp
  Var <- MCVar
  Fixed = 1
SPECIFICATION Spec
INVARIANTS
  TypeOK
  FrameSuffices
  SlotsPartitioned
PROPERTY SlotsStay
CHECK_DEADLOCK FALSE
