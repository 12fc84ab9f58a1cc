CONSTANTS
  None = None
  Proc = {p1, p2}
  Block = {b1, b2, b3}
  Value = {0, 1}
  NBUF = 2
  NUM = 7
  Rings <- SmallRings
  MaxPinned = 1
  MayKill = {p1, p2}
SPECIFICATION Spec
SYMMETRY Symm
INVARIANTS TypeOK DescOwned NoLostWakeup
PROPERTIES BlocksCoherent
