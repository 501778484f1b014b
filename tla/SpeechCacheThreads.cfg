SPECIFICATION FairSpec
CONSTANTS
  None = None
  Threads = {t1, t2}
  Keys = {k1, k2}
  short = short
  long = long
  huge = huge
  Speech <- MCSpeech
  NBytes <- MCNBytes
  MaxBytes = 2
  MaxCalls = 3
INVARIANTS
  TypeOK
  Accounting
  WithinCap
  EvictionSparesTheNewEntry
  ColdestFirst
PROPERTIES
  Linearizable
  CallsReturn
