--------------------------- MODULE MCFatLockTable ---------------------------
\* Instances of FatLockTable: the threads are interchangeable, and so are the
\* fat locks.
EXTENDS FatLockTable, TLC

Symmetry == Permutations(Users) \cup Permutations(Memory)
=============================================================================
