\* The life of one run of a two-step pipeline, with good or bad inputs, two
\* callers competing for startMu and two crashes; fair, so no symmetry.
SPECIFICATION FairSpec
CONSTANTS
  Clients = {c1, c2}
  Runs = {r1}
  Fingerprints = {f1, f2}
  BadInputs = {f2}
  NSteps = 2
  MaxCrashes = 2
  None = None
INVARIANTS InFlightRowsAccounted HistoryConsistent KilledIsCancelled
PROPERTIES SettledViewFinal CancelEndsGoroutine StartReturns EveryGoroutineEnds
