SPECIFICATION Spec
CONSTANTS
  NQueries  = 4
  NStops    = 2
  Policy    = "ask"
  Reentrant = TRUE
  Split     = FALSE
  Garbled   = TRUE
INVARIANTS
  IInv
  OwnAnswer
PROPERTY
  ServiceSpec
CHECK_DEADLOCK FALSE
