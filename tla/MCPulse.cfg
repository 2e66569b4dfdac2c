CONSTANTS
  mp3 = mp3
  flac = flac
  NULL = NULL
  Formats <- MCFormats
  Target = 2
  Block = 2
  MaxStreams = 3
  MaxPending = 2
  Muting = FALSE
SPECIFICATION Spec
INVARIANTS
  StreamsKept
  WritesAreExpected
  OneAtATime
  GivesWay
PROPERTIES
  NothingCutOff
  HeardInOrder
SYMMETRY MCSymmetry
CHECK_DEADLOCK FALSE
