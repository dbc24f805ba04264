SPECIFICATION SortSpec
CONSTANTS
  Sizes = {0, 1, 4}
  Depths = {0, 2, 3, 5}
  Radix = 2
  DenseBuckets = 4
INVARIANTS
  NodesAreKept
  PlacedInOrder
  GroupKeepsNodes
  RangesAreSeparated
  RangesTileTheOrder
  ResultIsStable
  EndsGrouped
PROPERTIES
  SettledNodesStay
  AlwaysReturns
