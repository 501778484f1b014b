SPECIFICATION FairChunker
CONSTANTS
  Char = {"x", " ", ".", ",", "n", "t"}
  Strong = {".", "n"}
  Soft = {","}
  White = {" ", "n", "t"}
  Blank = {" "}
  MaxChars = 16
  SoftChars = 8
  Deltas <- MCDeltas
  MaxFeeds = 3
INVARIANTS NothingIsLost ClausesFit SentencesEnd PendingIsShort
PROPERTY CallsEnd
CHECK_DEADLOCK FALSE
