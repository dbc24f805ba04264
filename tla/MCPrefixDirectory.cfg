SPECIFICATION LookupSpec
CONSTANTS
  Sizes = {0, 1, 2, 3}
  Ids = {0, 1, 2, 3}
  Sentinels = {0}
  NoParent = NoParent
  HashFunctions <- ManyHashes
  Fingerprints = 4
  PrefixSize = 3
  ProbeLimits <- Limits
INVARIANTS
  EntriesAreReachable
  AgreesWithJoin
