SPECIFICATION Spec
CONSTANTS
  NoFile = NoFile
  MillisMod = 7
  Interval = 2
  MaxLag = 4
  MaxLines = 4
  MaxBoots = 3
INVARIANT RowsUnderHeader
