CONSTANTS
  io = io
  t1 = t1
  d1 = d1
  NULL = NULL
  Ios <- MCIos
  Times <- MCTimes
  Defers <- MCDefers
  MaxTime = 2
  MaxOps = 5
SPECIFICATION Spec
PROPERTIES
  PromisesKept
  NobodyStarves
