SPECIFICATION QuerySpec
CONSTANTS
  NumberOfLists = 2
  RefPlaces = {"hbox"}
  Records <- MCRecords
  Mixes <- MCMixes
  Points <- MCPoints
  Pages = {1, 2}
  Lines = {2, 5}
  PerUnit = 1
  XOffset = 1
  YOffset = 0
  Bound = 1
INVARIANTS
  NearestLine
  BestFirst
  LinesShown
  AnswersRepeat
  EditInside
CHECK_DEADLOCK FALSE
