\* The comment on runRegistry, refuted: what GetRun reported as ended stays ended.
SPECIFICATION Spec
CONSTANTS
  Clients = {c1}
  Runs = {r1}
  Fingerprints = {f1}
  BadInputs = {}
  NSteps = 1
  MaxCrashes = 0
  None = None
PROPERTIES
  ReportedEndIsDurable
