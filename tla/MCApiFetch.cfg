CONSTANTS
  IOMayFail = TRUE
  ItemIds = {1, 2}
  LocationIds = {1}
  OrderIds = {1}
  Values = {1}
  Places = {"boston"}
  MaxRows = 2
  Served <- MCServed
  Seed <- MCSeed
SPECIFICATION Spec
INVARIANTS TypeOK SettledRows IdsUniqueUnlessOvertaken OrdersOnFile
PROPERTIES SettledSwipeTakesOne
CHECK_DEADLOCK TRUE
