\* The janitor unlinks a lock file a session waits on.
SPECIFICATION Spec
CONSTANTS
  Fetches = {f1, f2}
  Janitor = j
  Clones = {d1}
  Inodes = {i1, i2, i3}
  Capped = TRUE
  MaxFailures = 0
  None = None
SYMMETRY Interchangeable
INVARIANT NeverTwoWorkers
CHECK_DEADLOCK FALSE
