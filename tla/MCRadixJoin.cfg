SPECIFICATION RadixSpec
CONSTANTS
  NodeCount = 3
  Ids = {0, 1, 2, 3, 5}
  Sentinels = {0}
  NoParent = NoParent
  Radix = 2
  CachedBytes = 2
  TraitsKinds <- Kinds
  ChunkBytes = 1
  SmallThreshold = 2
  TouchedMax = 3
INVARIANTS
  PassedIdsAreSmaller
  JoinIsExact
  DuplicatesAreRejected
PROPERTIES
  ImplementsParentIndex
