SPECIFICATION Spec
CONSTANTS
  Requests = {r1, r2, r3}
  Convs = {c1, c2}
  Bases = {b1}
  MaxSuffix = 3
  LastDay = 2
  MaxTracked = 1
  Retention = 0
  Outcomes = {"200"}
  DiskFaults = {}
  MaxCrashes = 0
  None = None
  Empty = Empty
  Torn = Torn
SYMMETRY Symmetry
INVARIANTS
  ConversationsStayTogether
