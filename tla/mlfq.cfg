CONSTANTS
  c1 = c1
  c2 = c2
  NPROC = 3
  CPU = {c1, c2}
  Machines <- OneOrTwo
  NMLFQ = 2
  mlfq_slice <- Slice12
  BOOST_TICKS = 1
  NoProc = NoProc
SPECIFICATION FairSpec
INVARIANTS TypeOK SliceKept RoundRobin
PROPERTIES ScanPriority NoStarvation
CONSTRAINT Small
