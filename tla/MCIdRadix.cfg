SPECIFICATION FairSpec
CONSTANTS
  Radix = 2
  CachedBytes = 4
  TraitsKinds <- Kinds
  Sizes = {0, 1, 2, 3, 4, 5}
  Ids = {0, 1, 2, 9}
  Sorts = 2
  ChunkBytes = 2
  SmallThreshold = 3
  TouchedMax = 4
INVARIANTS
  CountersAreClear
  RangesAreSeparated
  SortedStably
PROPERTIES
  Terminates
