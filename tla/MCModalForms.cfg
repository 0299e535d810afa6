CONSTANTS
  IOMayFail = FALSE
  ItemIds = {1, 2}
  LocationIds = {1}
  OrderIds = {1}
  Values = {1, 2}
  Places = {"boston"}
  Dates = {1, 2}
  MaxQuantity = 1
  MaxLines = 2
  Seed <- MCSeed
SPECIFICATION Spec
INVARIANTS TypeOK FormIsOnAsked
PROPERTIES CostFollowsLines ImplementsWriteThrough
