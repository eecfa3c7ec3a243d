\* Two callers, two sessions, one run; docker may refuse once, one crash.
SPECIFICATION Spec
CONSTANTS
  Calls = {c1, c2}
  Watchdog = w
  Sessions = {s1, s2}
  Runs = {r1}
  Limits = {1}
  MaxFailures = 1
  MaxCrashes = 1
  None = None
SYMMETRY Interchangeable
INVARIANTS NothingForgotten EphemeralSessionEnds CancelReclaims EntryHasContainer
CHECK_DEADLOCK FALSE
