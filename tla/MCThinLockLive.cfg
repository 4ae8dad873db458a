\* Two threads: a suspended thread is resumed.
CONSTANTS
  Threads = {t1, t2}
  Locks = {p1}
  FatLocks = {f1, f2}
  NoThread = NoThread
  NoLock = NoLock
  NoFat = NoFat
  Busy = Busy
SPECIFICATION FairSpec
PROPERTY
  SleeperWakes
