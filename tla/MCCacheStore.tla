---------------------------- MODULE MCCacheStore ----------------------------
EXTENDS CacheStore, TLC

\* Groups, items and callers are interchangeable.
Symmetric == Permutations(Groups) \cup Permutations(Items) \cup Permutations(Callers)
=============================================================================
