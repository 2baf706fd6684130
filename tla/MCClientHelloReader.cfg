CONSTANTS
  Inputs <- MCInputs
SPECIFICATION Spec
INVARIANT BorrowedSlicesInBuffer
INVARIANT NoReadPastBuffer
INVARIANT PendingAtFirstIncompleteMessage
INVARIANT SuccessMeansTransportParameters
INVARIANT ClientRandomOfFirstHello
PROPERTY ReadInitialRefinesSpec
