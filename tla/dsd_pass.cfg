\* Every range over 0..2, weight tables that are valid, zero or overflow a u8, both builds, budgets 0 to 9.
SPECIFICATION Spec
CONSTANTS
  ContextRanges <- MCAllRanges
  NameRanges <- MCAllRanges
  KindWeightSets <- MCAllKindWeights
  MetricWeightSets <- MCMetricWeights
  Builds = {"debug", "release"}
  TextLengths <- MCTextLengths
  MaxBytesSet <- MCBudgets
INVARIANT TypeOK
INVARIANT PackedTight
PROPERTY ToBytesReturns
