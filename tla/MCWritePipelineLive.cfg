SPECIFICATION FairSpec
CONSTANTS
  Users = {a, b}
  Writes = {w1, w2}
  Bad = {w2}
  MaxPendingWrites = 1
  MaxJobs = 1
  OkEnds = TRUE
INVARIANT NoAssertionFails
PROPERTIES
  ImplementsOutbox
  EventuallySettled
