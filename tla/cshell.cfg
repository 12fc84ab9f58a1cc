SPECIFICATION Spec
CONSTANTS
  MaxPids = 3
  MaxLines = 4
  MaxPending = 1
  Typed <- TypedLines
  InCwd <- Names
  InPath <- Names
  Files <- NoFiles
  LexAlphabet <- ToLex
  LexLength = 2
  TokenAlphabet = {"a", "b", "|", "&", ";", "<", ">"}
  ParseLength = 5
INVARIANTS TypeOK PlainJobsTrue Announced LinesRight
PROPERTY PromptAgain
CHECK_DEADLOCK FALSE
