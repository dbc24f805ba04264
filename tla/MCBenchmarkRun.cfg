SPECIFICATION RunSpec
CONSTANTS
  Contexts = 2
  Registry <- TwoEach
  Defaults <- OneEach
  NoName = NoName
  Warmup = 1
  Iterations = 2
  MaxArguments = 3
  MaxMismatches = 1
INVARIANTS
  SamplesArePaired
  ComparisonsAreFair
