SPECIFICATION Spec
CONSTANTS
  Keys <- FewKeys
  InBuf = 4
  CsiLen = 6
  MaxKeys = 2
  Splits = TRUE
  Hangups = FALSE
INVARIANTS OnlyPressedCommands
CHECK_DEADLOCK FALSE
