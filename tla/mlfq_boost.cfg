CONSTANTS
  c1 = c1
  c2 = c2
  NPROC = 2
  CPU = {c1, c2}
  Machines <- Two
  NMLFQ = 4
  mlfq_slice <- SliceTable
  BOOST_TICKS = 1
  NoProc = NoProc
SPECIFICATION Spec
INVARIANTS BoostSticks
