\* Three threads, two locks that draw on one pool of fat locks.
CONSTANTS
  Threads = {t1, t2, t3}
  Locks = {p1, p2}
  FatLocks = {f1, f2, f3}
  NoThread = NoThread
  NoLock = NoLock
  NoFat = NoFat
  Busy = Busy
SPECIFICATION Spec
SYMMETRY Symmetry
INVARIANTS
  TypeOK
  MutualExclusion
  AssertionsHold
  FatLocksSound
PROPERTY
  ImplementsMutex
