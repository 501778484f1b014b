SPECIFICATION Spec
CONSTANTS
  Char = {"x", " ", ".", ",", "n", "t"}
  Strong = {".", "n"}
  Soft = {","}
  White = {" ", "n", "t"}
  Blank = {" "}
  MaxChars = 16
  SoftChars = 32
  Deltas = {}
  MaxFeeds = 1
  Requests = {r1, r2}
  Texts <- MCTexts
  LongestText = 22
  Voices = {aditi}
  Unknown = nobody
  MaxSamples = 1
  None = None
INVARIANTS
  StreamIsSpeech
  AllIsSpoken
PROPERTIES
  ServesTakes
