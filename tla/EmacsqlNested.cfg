SPECIFICATION TransactionSpec
CONSTANTS
  Emacsen = {e1, e2}
  Nested  = TRUE
  NTries  = 2
INVARIANT AllOrNothing
CHECK_DEADLOCK FALSE
