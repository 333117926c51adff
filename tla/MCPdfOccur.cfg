SPECIFICATION OccurFairSpec
CONSTANTS
  NPages     <- MCNPages
  BatchSize  = 2
  MaxMatches = 2
  NSearches  = 3
  NCrashes   = 1
INVARIANTS
  OwnMatches
  MatchesCounted
  PagesLeft
PROPERTY
  SearchEnds
CHECK_DEADLOCK FALSE
