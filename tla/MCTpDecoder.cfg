CONSTANTS
  MaxParams = 2
  Inputs <- MCInputs
SPECIFICATION Spec
INVARIANT TypeOK
INVARIANT CursorWithinBuffer
PROPERTY DecodeRefinesSpec
PROPERTY LoopMakesProgress
