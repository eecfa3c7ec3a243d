\* Docker refuses one stop or removal.
SPECIFICATION FairSpec
CONSTANTS
  Calls = {c1, c2}
  Watchdog = w
  Sessions = {s1}
  Runs = {}
  Limits = {1, 2}
  MaxFailures = 1
  MaxCrashes = 0
  None = None
PROPERTY AbandonedIsCleaned
CHECK_DEADLOCK FALSE
