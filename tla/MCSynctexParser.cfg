SPECIFICATION Spec
CONSTANTS
  NumberOfLists = 2
  RefPlaces = {"hbox"}
  Records <- MCRecords
  Mixes <- MCMixes
INVARIANTS
  TreeCoherent
  FriendLists
  SheetNodesFound
  NextHboxes
  ProxiesFound
  VisiblePoints
CHECK_DEADLOCK FALSE
