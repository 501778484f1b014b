SPECIFICATION EngineSpec
CONSTANTS
  Window = 3
  Shift = 2
  Pad = 2
  MaxClips = 3
  MaxWords = 3
  BatchSize = 2
  WritesFail = TRUE
  None = None
  MaxFrames = 2
  MaxHeard = 8
INVARIANTS
  OneTranscriptPerClip
  AllOrNothing
  OnlyFailedWritesLeave
  NothingSaidIsLost
PROPERTIES
  RequestEnds
