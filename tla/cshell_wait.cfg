SPECIFICATION Spec
CONSTANTS
  MaxPids = 3
  MaxLines = 2
  MaxPending = 1
  Typed <- TypedLines
  InCwd <- Names
  InPath <- Names
  Files <- NoFiles
  LexAlphabet = {"a"}
  LexLength = 1
  TokenAlphabet = {"a"}
  ParseLength = 1
INVARIANT ForegroundWaited
CHECK_DEADLOCK FALSE
