SPECIFICATION Spec
CONSTANTS
  Directory <- MCDirectory
  Files <- MCFiles
  Formats <- MCFormats
  Range <- MCRange
  SeekRate = 2
  Diffs <- MCDiffs
  Tags <- MCTags
  DateLen = 8
  Genres = 12
  Buffer = 2
  PosBits = 8
  MaxOpens = 4
  MaxReads = 2
  NULL = NULL
INVARIANTS StreamsSound MetadataMeant
CHECK_DEADLOCK FALSE
