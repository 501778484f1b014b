SPECIFICATION Spec
CONSTANTS
  None = None
  Requests = {r1, r2, r3}
  Keys = {k1, k2}
  Speech <- MCSpeech
  NBytes <- MCNBytes
  MaxParts = 2
  MaxBytes = 2
  CleanTruncation = FALSE
SYMMETRY Symmetry
INVARIANTS
  TypeOK
  CachedAreWhole
  CachedWereTagged
  CompleteBodiesAreOneTake
  FailuresAreTold
