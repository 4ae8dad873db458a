\* A third thread suspends after its wait bit was consumed.
CONSTANTS
  Threads = {t1, t2, t3}
  Locks = {p1}
  FatLocks = {f1, f2}
  NoThread = NoThread
  NoLock = NoLock
  NoFat = NoFat
  Busy = Busy
SPECIFICATION Spec
SYMMETRY Symmetry
INVARIANT
  NoLostWakeup
