CONSTANTS
  MaxParams = 1
  Inputs <- MCInputs
SPECIFICATION Spec
PROPERTY DecodeRefinesStrictSpec
