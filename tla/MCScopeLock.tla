---------------------------- MODULE MCScopeLock ----------------------------
\* Instances of ScopeLock.  Threads, and objects other than the first, are
\* interchangeable.
EXTENDS ScopeLock, TLC

Symmetry == Permutations(Threads) \cup Permutations(Objects \ {Proto})
=============================================================================
