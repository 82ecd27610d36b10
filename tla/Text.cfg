CONSTANTS
  MaxReadings = 13
  MaxEntityLen = 32
  ByteRange = 16
  MaxHostToken = 24
  Requests <- MCRequests
  Unknown = Unknown
SPECIFICATION Spec
INVARIANTS
  EncodedRead
  TransformContract
  PathResolved
  HostCanonical
CHECK_DEADLOCK FALSE
