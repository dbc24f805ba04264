SPECIFICATION FairSpec
CONSTANTS
  Ops = {"order", "withDepths", "copy", "inPlace"}
  Sizes = {0, 1, 2, 3}
  Ids = {0, 1, 2, 3}
  ParentIds = {0, 1, 2, 3}
  Sentinels = {0}
  NoParent = NoParent
  Depths = {0, 1, 2, 4, 15, 16}
  Radix = 2
INVARIANTS
  DepthErrorsComeFirst
  AnswerIsDetermined
PROPERTIES
  KeepsPromise
