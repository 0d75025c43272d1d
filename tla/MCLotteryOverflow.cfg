SPECIFICATION Spec
CONSTANTS
  NPROC = 2
  CPU = {c1}
  IntMod = 16
  TicketValues = {1}
  TicketArgs = {4}
  None = None
INVARIANT TotalCounted
