SPECIFICATION Spec
CONSTANTS
  Requests = {r1, r2, r3}
  Convs = {c1, c2}
  Bases = {b1}
  MaxSuffix = 3
  LastDay = 3
  MaxTracked = 1
  Retention = 1
  Outcomes = {"200"}
  DiskFaults = {"read", "write"}
  MaxCrashes = 1
  None = None
  Empty = Empty
  Torn = Torn
SYMMETRY Symmetry
INVARIANTS
  SavedTurnsAreKept
  TurnsHaveTheirAudio
  EmptyFilesAreCrashes
  OneFilePerFolder
  KeptFoldersStay
PROPERTIES
  ImplementsTraceLog
