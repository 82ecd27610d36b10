SPECIFICATION Spec
CONSTANTS
  MinTextRun = 2
  MaxTextRuns = 4
  WideTextMinChars = 3
  MinBase64Run = 7
  MinBase64Text = 4
  MinBase64Body = 3
  Encoded <- MCEncoded
  MaxDepth = 3
  MaxFields = 12
  MaxKeyLen = 10
  MaxValueLen = 12
  MaxTotalSize = 60
  MaxParts = 4
  MaxPartHeader = 20
  MaxFileContent = 6
  MaxFrames = 3
  MaxFrameLen = 20
  MaxProtoDepth = 2
  MaxProtoFields = 4
  MaxBodySize = 60
  Requests <- MCRequests
INVARIANTS
  LeavesRecorded
  PayloadSeen
  AcceptsExactly
