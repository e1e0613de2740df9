--------------------------- MODULE MCCacheControl ---------------------------
EXTENDS CacheControl, TLC

CONSTANTS c1, c2
Cores == Permutations({c1, c2})
=============================================================================
