CONSTANTS
  main = main
  diag = diag
  message = message
  NULL = NULL
  Posters <- MCPosters
  Delegates <- MCDelegates
  MaxPosts <- MCMaxPosts
SPECIFICATION Spec
INVARIANTS
  NoLostWakeup
  FramesAlive
PROPERTIES
  SyncCallReturns
  ImplementsDelegateQueue
CHECK_DEADLOCK FALSE
