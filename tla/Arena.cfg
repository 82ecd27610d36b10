SPECIFICATION Spec
CONSTANTS
  Kinds <- MCKinds
  Keys <- MCKeys
  Texts <- MCTexts
  CookieKeys <- MCCookieKeys
  PositionalKeys <- MCPositionalKeys
  BodyKey <- MCBodyKey
  DefaultSize = 3
  MaxRetained = 8
  Limit = 14
  SpanMod = 16
  Declared = {6}
  MaxValueLen = 8
  MaxPairs = 2
  MaxCalls = 4
INVARIANTS
  CapacityBounded
PROPERTIES
  StoreImplemented
CHECK_DEADLOCK FALSE
