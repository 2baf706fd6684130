CONSTANTS
  MaxParams = 2
  Inputs <- MCInputs
SPECIFICATION Spec
INVARIANT FlaggedValuesInRange
