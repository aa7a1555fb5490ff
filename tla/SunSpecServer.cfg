SPECIFICATION Spec
CONSTANTS
  c1 = c1
  c2 = c2
  Blocks <- MCBlocks
  Registers <- MCRegisters
  BootRegisters = {}
  Sources <- MCSources
  Windows <- MCWindows
  Clients <- MCClients
  MaxGen = 2
  Unset = Unset
  Written = Written
  None = None
SYMMETRY MCSymmetry
INVARIANTS ReplyUntorn
PROPERTIES RepliesAreCurrent WritesLastOnePass
