\* Three contexts: requests, collections, nobody collects or suspends inside a collection.
CONSTANTS
  Contexts = {c1, c2, c3}
  NoContext = NoContext
  Ops = {}
  MaxDepth = 2
  MaxLevel = 2
  MaxCount = 7
SPECIFICATION FairSpec
INVARIANTS
  MarkExclusive
  RequestCountExact
  CollectorNotStranded
PROPERTIES
  ImplementsStopTheWorld
  CollectionEnds
