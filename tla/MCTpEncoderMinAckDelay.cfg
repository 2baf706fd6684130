CONSTANTS
  MaxParams = 1
  NoTestParam = NoTestParam
  Records <- MCLocalRecords
  TestParams <- MCTestParams
SPECIFICATION Spec
INVARIANT EncodeRoundTrip
