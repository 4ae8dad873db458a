\* Three threads make and destroy contexts and collect at will.
\* The program may stop: a collector may use a freed context.
CONSTANTS
  Contexts = {c1, c2, c3}
  Root = Root
  Veto = TRUE
  NoContext = NoContext
SPECIFICATION Spec
INVARIANTS
  ListSafe
  MarkVisitsAll
CHECK_DEADLOCK FALSE
