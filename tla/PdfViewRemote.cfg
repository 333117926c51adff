SPECIFICATION Spec
CONSTANTS
  NPages     = 1
  ImageLimit = 2
  Busy       = {"local", "remote"}
  NEdits     = 2
  NWrites    = 0
  NCrashes   = 0
  MaxStack   = 2
  MaxImages  = 1
INVARIANT
  ReopenedIsNew
CHECK_DEADLOCK FALSE
