SPECIFICATION SorterSpec
CONSTANTS
  RangeSizes = {5}
  MaxRangeSize = 5
  Bits = 2
  GapSequences <- BenchmarkGaps
INVARIANTS
  MatchesOracle
