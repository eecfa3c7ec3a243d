\* Two callers race for one request; two run ids; the process may die once.
SPECIFICATION Spec
CONSTANTS
  Clients = {c1, c2}
  Runs = {r1, r2}
  Fingerprints = {f1}
  BadInputs = {}
  NSteps = 1
  MaxCrashes = 1
  None = None
SYMMETRY Interchangeable
INVARIANTS
  AtMostOneInFlight
  NoDuplicateExecution
  IndexNeverRefuses
PROPERTIES
  ImplementsSingleFlight
