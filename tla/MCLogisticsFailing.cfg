CONSTANTS
  IOMayFail = TRUE
  ItemIds = {1}
  LocationIds = {1}
  OrderIds = {1}
  Values = {1, 2}
  Places = {"boston"}
  Dates = {1}
  MaxQuantity = 1
  MaxLines = 1
  VisibleRows = 2
  Seed <- MCSeed
SPECIFICATION Spec
PROPERTIES ImplementsWriteThrough
CHECK_DEADLOCK TRUE
