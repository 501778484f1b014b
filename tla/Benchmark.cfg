SPECIFICATION MCSpec
CONSTANTS
  Count = 3
  Concurrency = 2
  MaxTime = 3
  None = None
INVARIANTS
  BadAnswersAreReported
  LatenciesAreOfTheLoad
PROPERTIES
  RunEnds
