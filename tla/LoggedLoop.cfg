SPECIFICATION LoopSpec
CONSTANTS
  NoFile = NoFile
  b1 = b1
  b2 = b2
  Blocks = {b1, b2}
  ReadBlocks <- MCReadBlocks
  RowBlocks = {b1}
  MillisMod = 3
  PollRate = 0
  Interval = 1
  MaxLag = 2
  MaxGen = 2
  MaxCount = 1
  MaxLines = 3
  MaxBoots = 2
INVARIANTS HeaderOnlyFirst RowsNeverGoBack RowsFollowData
PROPERTIES LinesSurvive AttemptsSpaced LoggerInLoop RowsAreFresh
