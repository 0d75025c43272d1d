SPECIFICATION LotterySpec
CONSTANTS
  NPROC = 3
  CPU = {c1, c2}
  BootHart = c1
  IntMod = 32
  TicketValues = {1, 2, 3}
  TicketArgs = {0, 2}
  None = None
INVARIANTS ProportionalShare
PROPERTIES AloneEveryoneWins SomeoneRuns
