SPECIFICATION ServiceFairSpec
CONSTANTS
  None = None
  Requests = {r1, r2}
  Keys = {k1}
  Speech <- MCSpeech
  NBytes <- MCNBytes
  MaxParts = 2
  MaxBytes = 2
  CleanTruncation = FALSE
  Asks <- MCAsks
  Workers = 1
  QueueTimeout = 2
  Margin = 3
  Transit = 1
INVARIANTS
  OverloadIsTold
PROPERTIES
  SlowStreamsAreNotCut
  RequestsEnd
