SPECIFICATION FairSpec
CONSTANTS
  NodeCount = 4
  MaxDepth = 2
  NoParent = NoParent
  StrayIndexes = {4}
  ParentSizes = {3, 4}
INVARIANTS
  TypeOK
  StackIsTheVisitingChain
  DepthsConsistent
  ErrorsAreReal
  AcceptsNoCycle
  ReturnsTrueDepths
PROPERTIES
  Terminates
