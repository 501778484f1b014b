SPECIFICATION FairSpec
CONSTANTS
  Requests = {r1, r2}
  Convs = {c1}
  Bases = {b1}
  MaxSuffix = 2
  LastDay = 1
  MaxTracked = 1
  Retention = 1
  Outcomes = {"200", "500", "504"}
  DiskFaults = {"read", "write"}
  MaxCrashes = 1
  None = None
  Empty = Empty
  Torn = Torn
PROPERTIES
  CallersAreAnswered
