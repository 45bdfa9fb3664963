CONSTANTS
  CallerSaved = {10}
  CalleeSaved = {19}
  Middle = 2
  Temp <- MCTemp
  Programs <- MCPrograms
SPECIFICATION CompileSpec
INVARIANTS
  TypeOK
  ReadsOwnValue
CHECK_DEADLOCK FALSE
