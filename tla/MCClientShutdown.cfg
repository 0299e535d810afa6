SPECIFICATION FairSpec
CONSTANTS
  Worker = Worker
  Apps = {a, b}
  Jobs = {}
  Clears = {c}
  Terms = {x, y}
  Timed = {t, u}
  Owned = {t}
  None = None
CHECK_DEADLOCK FALSE
INVARIANTS TypeOK RefsAreOwned CancelIsFinal NothingRunsAfterDispose
PROPERTY ComesToRest
