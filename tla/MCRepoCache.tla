---------------------------- MODULE MCRepoCache ----------------------------
EXTENDS RepoCacheInv, TLC

\* The specification names no fetch, no clone and no inode.
Interchangeable ==
  Permutations(Fetches) \cup Permutations(Clones) \cup Permutations(Inodes)
=============================================================================
