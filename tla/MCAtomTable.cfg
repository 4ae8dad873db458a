\* Two threads, three atoms; any caller, any allocation fails.
\* The program may stop: atoms and characters are bounded.
CONSTANTS
  Threads = {t1, t2}
  Keys = {k1, k2, k3}
  k3 = k3
  HashBits = 2
  Hash <- MCHash
  MinLog = 0
  Atoms = {a1, a2, a3}
  Buffers = {b1, b2, b3}
  Ops = {"Pin", "NoCopy", "NoArray", "NoEntry"}
  NoKey = NoKey
  NoBuffer = NoBuffer
  NoCell = NoCell
  FreedCell = FreedCell
  NoAtom = NoAtom
SPECIFICATION Spec
SYMMETRY Symmetry
CONSTRAINT Bounded
INVARIANTS
  TableSound
PROPERTY
  ImplementsInterning
CHECK_DEADLOCK FALSE
