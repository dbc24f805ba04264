SPECIFICATION BenchmarkSpec
CONSTANTS
  Corpora = 2
  Registered = {linear, binary, shell}
  Unstable = {shell}
  Unset = Unset
  Warmup = 1
  Iterations = 2
  SourceSize = 8
  Limit = 2
  Threshold = 3
INVARIANTS
  CorpusHoldsSelectedTails
  SelectionIsUniform
  OwnersAreGoneFirst
  OnlyVerifiedRowsAreTimed
