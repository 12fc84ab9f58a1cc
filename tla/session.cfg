CONSTANTS
  Slot <- Slots
  Proc <- Slots
  PGSIZE = 2
  DEPTH = 2
  USERSTACK = 1
  MaxPages = 18
  Programs <- Images
  Chars <- Typed
  INPUT_BUF_SIZE = 3
  BATCH = 2
  WordChars <- Names
  MAXARGS = 3
  ParseAlphabet <- ToParse
  ParseLength = 5
  GREPBUF = 4
  PatternChars = {"a", ".", "*", "^", "$"}
  PatternLength = 4
  TextChars = {"a", "b"}
  TextLength = 3
  Boot = 1
  Calls <- CallsOf
  MORECORE = 2
  MAXLINE = 9
  PipeIds = {1, 2}
  Scenes <- Script
SPECIFICATION Spec
INVARIANTS MemorySane NoLostWakeup CommandRight GrepRight
PROPERTIES LinesWhole
CHECK_DEADLOCK FALSE
