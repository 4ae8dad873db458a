----------------------------- MODULE MCThinLock -----------------------------
\* Instances of ThinLock: threads, locks and fat locks are interchangeable.
EXTENDS ThinLock, TLC

Symmetry == Permutations(Threads) \cup Permutations(Locks) \cup Permutations(FatLocks)
=============================================================================
