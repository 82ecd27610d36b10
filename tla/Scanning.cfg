SPECIFICATION ScanSpec
CONSTANTS
  MinOverlap = 2
  MaxOverlap = 3
  WindowSizes = {0, 1, 2, 3, 5, 8, 26}
  Lengths = {0, 1, 4, 9, 14, 29}
  Marked <- MCMarked
  Enough <- MCEnough
INVARIANTS
  NothingMissed
PROPERTIES
  ScanEnds
