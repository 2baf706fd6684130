CONSTANTS
  Inputs <- MCInputs
SPECIFICATION Spec
PROPERTY ReadInitialRefinesStrictSpec
