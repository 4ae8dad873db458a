\* Four threads, four of the five fat locks there is memory for, the table set up and cleaned up twice.
\* The program may stop: it crashes on the last fat lock, or has cleaned up for good.
CONSTANTS
  Users = {u1, u2, u3, u4}
  Memory = {f1, f2, f3, f4, f5}
  Initial = 4
  MaxGlobals = 2
  DEBUG = TRUE
  Nobody = Nobody
SPECIFICATION Spec
SYMMETRY Symmetry
INVARIANTS
  TableSound
PROPERTY
  ImplementsPool
CHECK_DEADLOCK FALSE
