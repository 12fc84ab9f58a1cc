CONSTANTS
  Proc = {p1, p2, p3}
  Block = {b1, b2, b3}
  LOGBLOCKS = 4
  MAXOPBLOCKS = 2
  MaxOps = 3
  MaxCrashes = 2
SPECIFICATION Spec
SYMMETRY Symm
INVARIANTS EvictionSafe SpaceReserved NoLostWakeup SyncDurable
PROPERTIES CrashAtomic
