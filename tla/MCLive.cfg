SPECIFICATION LiveSpec
CONSTANTS
  Caller = {p1, p2, p3}
  Third = p3
  Blockno = {b1, b2}
  Content = {v1, v2}
  NoValue = NoValue
  Nobody = Nobody
  MAXOPBLOCKS = 2
  LOGSIZE = 4
  nlog = 4
  Proc = {q1, q2, q3}
  Buf = {c1, c2, c3}
  Null = Null
  Block = {k1}
  Value = {v0}
  NUM = 7
  MAXARGS = 3
  NTask = 7
  NPipe = 2
  PipeSize = 1
  Sessions <- SmallSessions
INVARIANTS EndedIsDurable Reserved PinnedIffLogged LineDone
PROPERTIES Refines SleepersWoken IOReturns PromptReturns
CHECK_DEADLOCK FALSE
