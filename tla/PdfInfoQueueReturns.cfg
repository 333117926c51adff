SPECIFICATION FairSpec
CONSTANTS
  NQueries  = 3
  NStops    = 2
  Policy    = "t"
  Reentrant = TRUE
  Split     = TRUE
  Garbled   = TRUE
PROPERTY
  ReturnsUnlessOrphaned
CHECK_DEADLOCK FALSE
