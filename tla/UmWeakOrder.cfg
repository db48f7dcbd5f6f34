CONSTANTS
  Updaters = {u}
  Readers = {r}
  MaxUpdates = 2
SPECIFICATION Spec
INVARIANT TearsAreDetected
CHECK_DEADLOCK FALSE
