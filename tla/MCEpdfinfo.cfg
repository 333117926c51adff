SPECIFICATION Spec
CONSTANTS
  Files   = {fa}
  Locked  = {}
  NPages  = 2
  Uids    <- MCUids
  Props   = {"label"}
  Vals    = {a}
  Options = {colors}
  OptVals = {off}
  OnDisk  <- MCOnDisk
CONSTRAINT NothingSaved
INVARIANTS
  RegistryCoherent
  ListingComplete
PROPERTIES
  KeysStable
CHECK_DEADLOCK FALSE
