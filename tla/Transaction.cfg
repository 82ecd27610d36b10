SPECIFICATION Spec
CONSTANTS
  Configs <- MCConfigs
  MaxHeaders = 2
  MaxArgs = 2
  MaxBodySize = 4
  MaxValueLen = 3
  Threshold = 2
  JoinScanLimit = 12
  Lines <- MCLines
  Headers <- MCHeaders
  Arguments <- MCArguments
  Bodies <- MCBodies
  Samples <- MCSamples
  Chunks <- MCChunks
  MaxCalls = 4
  MaxAnyCalls = 4
INVARIANTS
  CleanMeansInspected
  FailClosedRefuses
  CountedOnce
  FramingNotSoftened
  ViewsPartitionArguments
  SplitPayloadRefused
  ResponseReadWhole
PROPERTIES
  RefusalIsFinal
