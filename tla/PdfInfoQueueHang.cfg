SPECIFICATION FairSpec
CONSTANTS
  NQueries  = 2
  NStops    = 1
  Policy    = "t"
  Reentrant = TRUE
  Split     = FALSE
  Garbled   = FALSE
PROPERTY
  SyncReturns
CHECK_DEADLOCK FALSE
