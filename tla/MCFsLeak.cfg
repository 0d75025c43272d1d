SPECIFICATION FsSpec
CONSTANTS
  Proc = {p1, p2}
  InitProc = p1
  Inum = {1, 2, 3, 4}
  Blk = {1, 2, 3}
  Fd = {1, 2}
  File = {1, 2}
  NINODE = 3
  DirPerBlock = 4
  Null = Null
  MaxCalls = 2
  Writer = {w1, w2}
  Reader = {r1}
  Byte = {x, y}
  NoByte = NoByte
  Nobody = Nobody
  PIPESIZE = 2
  UintMod = 4
  Sizes = {1, 3}
  Ops <- PathOps
INVARIANTS UnlinkedIsFreed
CHECK_DEADLOCK FALSE
