CONSTANTS
  main = main
  other = other
  scan = scan
  load = load
  plain = plain
  bit1 = bit1
  bit2 = bit2
  NULL = NULL
  Owner = main
  Clients <- MCClients
  Jobs <- MCJobs
  Bits <- MCBits
  Type <- MCType
  MaxCancels = 2
SPECIFICATION Spec
INVARIANTS
  JobsOwned
  NoStaleCancel
PROPERTIES
  CancelMissesOnlyTheGap
  FreeReturns
CHECK_DEADLOCK FALSE
