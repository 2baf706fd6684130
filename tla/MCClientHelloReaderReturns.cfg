CONSTANTS
  Inputs <- MCInputsSmall
SPECIFICATION FairSpec
PROPERTY ReadInitialReturns
