SPECIFICATION Spec
CONSTANTS
  Configs <- OversizeConfigs
  MaxHeaders = 2
  MaxArgs = 2
  MaxBodySize = 4
  MaxValueLen = 3
  Threshold = 2
  JoinScanLimit = 12
  Lines <- OversizeLines
  Headers <- MCHeaders
  Arguments <- MCArguments
  Bodies <- OversizeBodies
  Samples <- MCSamples
  Chunks <- MCChunks
  MaxCalls = 4
  MaxAnyCalls = 4
INVARIANT TooLargeIsDecision
