SPECIFICATION Spec
CONSTANTS
  NPROC = 3
  CPU = {c1, c2}
  Null = Null
  IntMod = 16
  DefaultTickets = 1
  TicketArgs = {}
  ModeArgs = {}
  KillArgs = {2}
  InitMode = 0
  MaxPid = 3
SYMMETRY CPUSymmetry
INVARIANTS NoLostExit LiveParent
PROPERTY ReapedByParent
