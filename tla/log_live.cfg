CONSTANTS
  Proc = {p1, p2, p3}
  Block = {b1}
  LOGBLOCKS = 3
  MAXOPBLOCKS = 1
  MaxOps = 3
  MaxCrashes = 0
SPECIFICATION FairSpec
PROPERTIES WaitEnds
