SPECIFICATION Spec
CONSTANTS
  NPages     = 2
  ImageLimit = 2
  Busy       = {"local"}
  NEdits     = 2
  NWrites    = 1
  NCrashes   = 1
  MaxStack   = 2
  MaxImages  = 1
INVARIANTS
  CacheCurrent
  EditsKept
CHECK_DEADLOCK FALSE
