SPECIFICATION Spec
CONSTANTS
  Users = {a, b}
  Writes = {w1, w2, w3}
  Bad = {w2}
  MaxPendingWrites = 2
  MaxJobs = 1
  OkEnds = FALSE
INVARIANTS
  TypeOK
  PipelineIsHeadOfQueue
  ResponsesCorrelate
  OutcomeIsTrue
  NothingLost
  WaitIsHonest
  OwnCredentials
  NeededStreamRuns
SYMMETRY Symmetry
