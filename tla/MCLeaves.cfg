CONSTANTS
  k1 = k1
  k2 = k2
  k3 = k3
  k4 = k4
  v1 = v1
  v2 = v2
  Empty = Empty
  Deleted = Deleted
  d1 = d1
  d2 = d2
  d3 = d3
  NULL = NULL
  Cap = 4
  MaxLen = 9
  MaxBytes = 12
SPECIFICATION LeavesSpec
INVARIANTS
  InputUnderstood
PROPERTIES
  KeysHandled
  InOrder
  IsDictionary
  ListServed
CHECK_DEADLOCK FALSE
