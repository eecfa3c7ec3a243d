CONSTANTS
  Visits = {v1, v2, v3}
  Browsers = {b1}
  MaxDials = 3
  Servers = {s1}
  McpCalls = {m1, m2, m3, m4}
  Configs = {1, 2}
  Callers = {n1, n2}
  Names <- Keyed
  Patterns = {"packs", "pipelines", "run", "fact"}
  Meant <- MeantBy
  Matches <- MatchedBy
  Scopes <- ForgetScopes
  MemCalls = {o1, o2, o3}
  MaxPuts = 3
  MaxNow = 3
  Errands = {e1, e2}
  Releases = 2
  Parts = {handler, library}
  Entrypoint = handler
  Chats = {c1}
  KeyRequests = {q1, q2}
  KeyIds = {k1, k2}
  Candidates <- TwoCandidates
  RuleSets = {{}, {"timeout"}}
  MaxAttempts = 2
  MaxSecrets = 4
  VaultCalls = {w1, w2}
  Actors = {a1}
  CredNames = {1, 2}
  EnvName = 1
  Scores = {1, 2}
  MaxCreds = 2
  MaxStored = 3
  MaxCrashes = 1
  Files = {f1, f2}
  PackTTLs = {0, 1}
  DefaultTTL = 2
  MaxArtifactStarts = 1
  Deliveries = {d1, d2}
  MaxMerges = 1
  Nowhere = Nowhere
SPECIFICATION Spec
INVARIANTS NoClientIsLost ManifestIsOfConfig PutsStay InstalledIsWhole AsksAreDue SecretsAreDue HandlesStand ToldBranchesStand
CHECK_DEADLOCK FALSE
