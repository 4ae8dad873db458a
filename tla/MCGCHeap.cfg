\* Two contexts, two arenas of an object and a string each; counts stick at two.
\* The system may stop: memory runs out half-way.
CONSTANTS
  Contexts = {c1, c2}
  MaxArenas = 2
  Per = 2
  MaxBytes = 3
  LockMask = 2
  MaxRoots = 2
  MaxHeld = 3
  Objects <- ObjectPlaces
  Ops = {"Finalizer", "NoMemory", "Lock"}
  Nothing = Nothing
SPECIFICATION Spec
SYMMETRY Symmetry
INVARIANTS
  HeapExact
  NothingLost
PROPERTY
  GarbageFreed
CHECK_DEADLOCK FALSE
