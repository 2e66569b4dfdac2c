CONSTANTS
  t1 = t1
  t2 = t2
  t3 = t3
  mp3 = mp3
  flac = flac
  NULL = NULL
  Streams <- MCStreams
  Length <- MCLength
  Format <- MCFormat
  Seeks <- MCSeeks
  Capacity = 3
  Second = 2
  MaxTime = 5
  MaxOps = 3
  Fails = FALSE
SPECIFICATION Spec
INVARIANTS
  InputsOwned
  LastIsDecoded
  NoStarvation
  TrackTimerSet
  NotEarly
PROPERTIES
  PositionShown
CHECK_DEADLOCK FALSE
