SPECIFICATION Spec
CONSTANTS
  Blocks <- MCBlocks
  ReadBlocks <- MCReadBlocks
  MillisMod = 5
  PollRate = 1
  MaxLag = 3
  MaxGen = 2
  MaxCount = 1
INVARIANTS CacheFromInverter CycleIsFresh ReportMatchesCycle CountMeansData
PROPERTIES CacheNeverGoesBack PollSpacing PollEnds ChangesReachCache
