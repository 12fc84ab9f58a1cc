CONSTANTS
  NPROC = 3
  CPU = {c1, c2}
  None = None
  MaxPid = 3
  KillPid = {0, 3}
  UserCalls = {"fork", "wait", "exit", "kill"}
SPECIFICATION Spec
SYMMETRY Symm
INVARIANTS StackExclusive SchedAsserts LiveParent
