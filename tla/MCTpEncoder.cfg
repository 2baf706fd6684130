CONSTANTS
  MaxParams = 2
  NoTestParam = NoTestParam
  Records <- DecodedRecords
  TestParams <- MCTestParams
SPECIFICATION Spec
INVARIANT TypeOK
INVARIANT EncodeRoundTrip
INVARIANT WritesWithinAllocation
INVARIANT DecodedRecordsEncode
