\* Three contexts that make every call, unlocked yields included; requestCount wraps at 4.
\* The system may stop: JS_SuspendRequest can strand a collector and all who wait for it.
CONSTANTS
  Contexts = {c1, c2, c3}
  NoContext = NoContext
  Ops = {"Finalizer", "Suspend", "Yield"}
  MaxDepth = 1
  MaxLevel = 2
  MaxCount = 3
SPECIFICATION Spec
INVARIANTS
  SingleCollector
  WaiterNotStranded
CHECK_DEADLOCK FALSE
