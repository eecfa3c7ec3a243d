\* One call of every pack this repository ships; and calls of three packs that
\* meet, with facts between them: two callers, two inputs, one session.
SPECIFICATION MCSpec
CONSTANTS
  Calls = {c1, c2}
  Caller <- CallerOf
  Catalogue <- Shipped
  LateRefusers <- Late
  LateRetriers <- LateToStore
  Inputs = {i1, i2}
  MaxCalls = 3
  MaxSessions = 1
SYMMETRY Interchangeable
INVARIANTS RetryIsSafe RefusedIsClean CacheServesOwn
CHECK_DEADLOCK FALSE
