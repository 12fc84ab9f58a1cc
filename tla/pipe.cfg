CONSTANTS
  shell = shell
  reader = reader
  writer = writer
  Proc = {shell, reader, writer}
  Byte = {0, 1}
  PIPESIZE = 2
  UINT = 4
  Sizes = {3}
  MayKill = {reader, writer}
  MayHold <- TwoChildren
SPECIFICATION Spec
INVARIANTS NoLostWakeup NoUseAfterFree
PROPERTIES FifoQueue EofIsFinal
CHECK_DEADLOCK FALSE
