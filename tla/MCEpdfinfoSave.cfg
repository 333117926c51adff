SPECIFICATION Spec
CONSTANTS
  Files   = {fa}
  Locked  = {fa}
  NPages  = 1
  Uids    <- MCFewUids
  Props   = {"flags", "icon"}
  Vals    = {a, b}
  Options = {colors}
  OptVals = {off, on}
  OnDisk  <- MCLinkOnDisk
CONSTRAINT EditsUnsaved
INVARIANTS
  IInv
PROPERTIES
  ErrorsChangeNothing
CHECK_DEADLOCK FALSE
