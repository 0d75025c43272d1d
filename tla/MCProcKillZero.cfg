SPECIFICATION Spec
CONSTANTS
  NPROC = 2
  CPU = {c1, c2}
  Null = Null
  IntMod = 16
  DefaultTickets = 1
  TicketArgs = {}
  ModeArgs = {}
  KillArgs = {0}
  InitMode = 0
  MaxPid = 2
SYMMETRY CPUSymmetry
INVARIANT KillsProcesses
