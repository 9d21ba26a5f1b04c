--------------------------- MODULE MCCacheManager ---------------------------
EXTENDS CacheManager, TLC

Symmetric == Permutations(MgrCallers) \cup Permutations(Runs) \cup Permutations(Stores)
=============================================================================
