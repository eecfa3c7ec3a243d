\* One session two packs share: extensions, expiry, one restart.
SPECIFICATION FairSpec
CONSTANTS
  Calls = {c1, c2}
  Watchdog = w
  Sessions = {s1}
  Runs = {r1}
  Limits = {1, 2, 3}
  MaxFailures = 0
  MaxCrashes = 1
  None = None
PROPERTIES DeadlineNeverShrinks EverySessionEnds
CHECK_DEADLOCK FALSE
