CONSTANTS
  delegator = delegator
  io = io
  pos = pos
  once = once
  d1 = d1
  d2 = d2
  NULL = NULL
  DelegatorWatch = delegator
  Watches <- MCWatches
  Timers <- MCTimers
  Periodic <- MCPeriodic
  Defers <- MCDefers
  MaxOps <- MCMaxOps
SPECIFICATION Spec
INVARIANTS
  MemorySafe
  DefersServed
PROPERTIES
  CalledAlive
SYMMETRY MCSymmetry
CHECK_DEADLOCK FALSE
