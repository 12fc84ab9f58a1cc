CONSTANTS
  Proc = {p1, p2}
  None = None
  Name = {"a", "d"}
  NINODES = 4
  NBLOCKS = 5
  NINODE = 4
  NFILE = 2
  NDIRECT = 1
  NINDIRECT = 1
  EPB = 3
  NLINK_MAX = 2
  Images <- SmallImages
  Calls <- SmallCalls
  MaxOps = 3
  MaxCrashes = 1
SPECIFICATION Spec
SYMMETRY Symm
INVARIANTS TypeOK SavedConsistent Settled NoPanic
