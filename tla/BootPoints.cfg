SPECIFICATION Spec
CONSTANTS
  c1 = c1
  c2 = c2
  Blocks <- MCBootBlocks
  Registers <- MCAllRegisters
  BootRegisters <- MCBootRegisters
  Sources <- MCBootSources
  Windows <- MCBootWindows
  Clients <- MCClients
  MaxGen = 1
  Unset = Unset
  Written = Written
  None = None
INVARIANTS BootPointsFollowInverter
