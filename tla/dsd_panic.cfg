\* Configurations the documentation allows, among them Inclusive ranges with min = max and kind weights whose u8 sum overflows.
SPECIFICATION Spec
CONSTANTS
  ContextRanges <- MCAllRanges
  NameRanges <- MCAllRanges
  KindWeightSets <- MCAllKindWeights
  MetricWeightSets <- MCMetricWeights
  Builds = {"debug", "release"}
  TextLengths <- MCTextLengths
  MaxBytesSet = {0}
INVARIANT NoPanicOnValidConfig
