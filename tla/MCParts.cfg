SPECIFICATION PSpec
CONSTANTS
  Proc = {p1, p2}
  Page = {1, 2, 3, 4, 5, 6, 7, 8, 9, 10, 11, 12, 13, 14, 15, 16}
  Fan = 2
  PGSIZE = 2
  MaxSz = 6
  Programs <- SmallPrograms
  USERSTACK = 1
  Null = Null
  Reader = {r1}
  Writer = {w1}
  None = None
  INPUT_BUF_SIZE = 2
  IndexMod = 4
  UART_TX_BUF_SIZE = 1
  MaxRead = 2
  Sleeper = {s1, s2}
  TickMod = 8
  SleepArgs <- Args
  Lag = 2
  MAXARGS = 3
  MaxLine = 5
  HeapMax = 7
  Chunk = 3
  MaxUnits = 4
  BufSize = 3
  MaxRe = 3
  MaxIn = 4
  MemSize = 4
  DIRSIZ = 2
  MaxPath = 5
  Width = 8
  Thread = {t1}
  Core = {c1, c2}
  Lock = {k1}
  BSIZE = 2
  NDIRECT = 1
  NINDIRECT = 2
  NMETA = 2
  FSSIZE = 8
  BPB = 1
  MAXOPBLOCKS = 6
  MaxFiles = 2
  MaxCall = 3
INVARIANTS MemoryChecked ConsoleAwake SleepExact LocksChecked FilesChecked
           ParserChecked HeapChecked TextChecked
PROPERTIES InputKept
CHECK_DEADLOCK FALSE
VIEW View
