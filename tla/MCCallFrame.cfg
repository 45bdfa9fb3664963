CONSTANTS
  NumArgRegs = 2
  CalleeSaved = {19, 20}
  StackTop = 30
  MaxDepth = 3
  MaxArgs = 3
  Shapes <- MCShapes
SPECIFICATION Spec
INVARIANTS
  TypeOK
  FramesIntact
  ArgumentsReceived
PROPERTY ReturnRestores
CHECK_DEADLOCK FALSE
