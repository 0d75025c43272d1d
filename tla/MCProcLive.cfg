SPECIFICATION FairSpec
CONSTANTS
  NPROC = 2
  CPU = {c1, c2}
  Null = Null
  IntMod = 16
  DefaultTickets = 1
  TicketArgs = {}
  ModeArgs = {}
  KillArgs = {2}
  InitMode = 0
  MaxPid = 2
PROPERTIES RRNoStarvation WaitReturns
