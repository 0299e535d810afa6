CONSTANTS
  Targets = {t}
  Docs = {a, b}
  MaxVersion = 2
  MaxRequests = 2
  MaxResponses = 2
  Faults = {"fail", "filter", "reset", "refuse"}
SPECIFICATION FairSpec
INVARIANTS TypeOK CurrentIsConsistent FileMatchesToken AnswersCounted
PROPERTY ListensSettle
CHECK_DEADLOCK FALSE
