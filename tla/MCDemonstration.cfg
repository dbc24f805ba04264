SPECIFICATION DemonstrationSpec
CONSTANTS
  NodeCount = 4
  Ids = {0, 1, 2, 3, 4}
  Sentinels = {0}
  MaxDepth = 1
  NoParent = NoParent
INVARIANTS
  AcceptedIsCanonical
  RejectedIsNotCanonical
  DemonstrationVerifies
