CONSTANTS
  AggregateIds = {a1, a2}
  AggregateTypes = {Task, Project}
  EventTypes <- Created
  EventData <- Whole
  Writers = {w1, w2, w3}
  MaxSkew = 0
  MaxEvents = 3
  MaxTime = 2
  Undefined = Undefined
  Contents <- MCContents
  open = open
  done = done
  first = first
SPECIFICATION Spec
SYMMETRY Symmetry
INVARIANTS
  TypeOK
  OccurredAtFollowsVersion
  ReplayIsPrefix
  RebuildMatchesHistory
  RebuildReadsContents
PROPERTIES
  ImplementsLog
