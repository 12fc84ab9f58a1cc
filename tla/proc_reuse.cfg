CONSTANTS
  NPROC = 3
  CPU = {c1}
  None = None
  MaxPid = 4
  KillPid = {0, 1, 3}
  UserCalls = {"fork", "wait", "exit", "kill", "pause"}
SPECIFICATION Spec
SYMMETRY Symm
INVARIANTS TypeOK UniquePids NoLostWakeup
PROPERTIES ZombieIsFinal
