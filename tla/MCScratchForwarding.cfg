CONSTANTS
  CallerSaved = {10}
  CalleeSaved = {19}
  t1 = t1
  t2 = t2
  t3 = t3
  Temp <- MCTemp
  Var = {x}
  LongVar = {x}
  Label = {s}
  NumArgRegs = 2
  MaxArgs = 3
  NoTemp = NoTemp
  Junk = Junk
  Imm = Imm
  Address = Address
SYMMETRY MCSymmetry
CONSTRAINT MCGoesOn
SPECIFICATION Spec
INVARIANTS
  TypeOK
  OperandsRight
  BeliefsTrue
CHECK_DEADLOCK FALSE
