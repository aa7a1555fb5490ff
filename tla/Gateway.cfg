SPECIFICATION Spec
CONSTANTS
  c1 = c1
  Blocks <- MCBlocks
  ReadBlocks <- MCReadBlocks
  MillisMod = 2
  PollRate = 0
  MaxLag = 1
  MaxGen = 2
  MaxCount = 1
  Registers <- MCRegisters
  BootRegisters = {}
  Sources <- MCSources
  Windows <- MCWindows
  Clients <- MCClients
  Unset = Unset
  Written = Written
  None = None
PROPERTIES RepliesAreFresh ImplementsView MasterKeepsRunning ClientsAnswered ChangesReachClients
