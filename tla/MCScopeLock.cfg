\* Two threads, two objects.  Callers lock one object at a time and collect in
\* between, with assertions; or they collect with an object locked; or lock
\* several and leave one locked.  The program may stop: an assertion can fail,
\* and collections and locks can wait for each other.
CONSTANTS
  Threads = {t1, t2}
  Objects = {o1, o2}
  Proto = o1
  Scopes = {s1, s2}
  MaxEntries = 2
  MaxCount = 2
  Callers = {{"Collect", "Assert"}, {"CollectLocked"}, {"Nest", "Enumerate"}}
  NoThread = NoThread
  NoObject = NoObject
  NoScope = NoScope
SPECIFICATION FairSpec
INVARIANTS
  ObjectExclusive
  CountExact
  RefsExact
  RaceLostOnce
PROPERTIES
  ImplementsMutex
  
CHECK_DEADLOCK FALSE
