CONSTANTS
  CallerSaved = {10}
  CalleeSaved = {19}
  Middle = 1
  Temp <- MCTemp
  Programs <- MCLoops
SPECIFICATION CompileSpec
INVARIANT SurvivesCalls
CHECK_DEADLOCK FALSE
