SPECIFICATION SorterSpec
CONSTANTS
  RangeSizes = {1, 5, 6}
  MaxRangeSize = 5
  Bits = 2
  GapSequences <- BenchmarkGaps
INVARIANTS
  ProgressIsKept
  SortsById
