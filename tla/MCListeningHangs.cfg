CONSTANTS
  Targets = {t}
  Docs = {a}
  MaxVersion = 1
  MaxRequests = 3
  MaxResponses = 2
  Faults = {}
SPECIFICATION Spec
INVARIANTS UnknownIsTimed
CHECK_DEADLOCK FALSE
