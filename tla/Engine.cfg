SPECIFICATION Spec
CONSTANTS
  Data <- MCData
  Size <- MCSize
  Transforms = {1, 2, 3}
  Image <- MCImage
  Decoded <- MCDecoded
  MaxReadings = 3
  Kinds = {"arg", "head"}
  Rulesets <- MCRulesets
  Depth = 3
  Values <- MCValues
  Dispatch = 1
  Limits = {0, 1, 3, 4, 6, 9, 14}
  MaxEvals = 2
INVARIANTS
  StepsSound
  FindingsExact
  WorkBounded
CHECK_DEADLOCK FALSE
