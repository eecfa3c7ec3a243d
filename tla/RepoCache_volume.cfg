\* Two sessions of one caller on one repository and a janitor that fails once.
SPECIFICATION FairSpec
CONSTANTS
  Fetches = {f1, f2}
  Janitor = j
  Clones = {d1}
  Inodes = {i1, i2, i3}
  Capped = TRUE
  MaxFailures = 1
  None = None
INVARIANTS OneWorker HandedOutIsComplete LeftoversAreGone
PROPERTY StaleCloneGoes
CHECK_DEADLOCK FALSE
