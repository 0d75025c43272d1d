SPECIFICATION Spec
CONSTANTS
  NPROC = 2
  CPU = {c1, c2}
  Null = Null
  IntMod = 16
  DefaultTickets = 1
  TicketArgs = {0, 2}
  ModeArgs = {0, 1, 2}
  KillArgs = {}
  InitMode = 1
  MaxPid = 2
SYMMETRY CPUSymmetry
INVARIANT HandoverInv
