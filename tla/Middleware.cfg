SPECIFICATION ExchangeSpec
CONSTANTS
  Limit = 2
  RespLimit = 3
  Requests <- MCRequests
  Sizes = {1, 2}
  MaxWrites = 4
INVARIANTS
  BodyIntact
  NothingUnseen
  ResponseInOrder
  InspectedFirst
  OutcomeReported
CHECK_DEADLOCK FALSE
