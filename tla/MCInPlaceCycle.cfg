SPECIFICATION Spec
CONSTANTS
  Ops = {"order", "copy", "inPlace"}
  Sizes = {0, 1, 2, 3}
  Ids = {0, 1, 2, 3}
  ParentIds = {0, 1, 2, 3}
  Sentinels = {0}
  NoParent = NoParent
  Depths = {0}
  Radix = 2
INVARIANTS
  RejectsCycles
