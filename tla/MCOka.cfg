CONSTANTS
  MaxKeys <- MCMaxKeys
  MaxTells <- MCMaxTells
  MaxTracks <- MCMaxTracks
SPECIFICATION Spec
INVARIANTS
  SinkBeforeInput
  NothingUsedAfterFree
  SinkReleased
  PositionCaughtUp
PROPERTIES
  ExitCompletes
  DelegatesServed
CHECK_DEADLOCK FALSE
