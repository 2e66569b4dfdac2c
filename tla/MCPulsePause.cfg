CONSTANTS
  mp3 = mp3
  flac = flac
  NULL = NULL
  Formats <- MCFormats
  Target = 1
  Block = 1
  MaxStreams = 2
  MaxPending = 2
  Muting = TRUE
SPECIFICATION Spec
INVARIANTS
  PauseIsTold
SYMMETRY MCSymmetry
CHECK_DEADLOCK FALSE
