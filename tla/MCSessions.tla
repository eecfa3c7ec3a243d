----------------------------- MODULE MCSessions -----------------------------
EXTENDS SessionsInv, TLC

\* The callers, the sessions and the runs are interchangeable: the
\* specification names none of them.
Interchangeable ==
  Permutations(Calls) \cup Permutations(Sessions) \cup Permutations(Runs)
=============================================================================
