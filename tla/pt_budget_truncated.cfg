\* Budgets of 2^width + 4 bytes, which the u32 cast turns into 4.
SPECIFICATION Spec
CONSTANTS
  a = a
  b = b
  none = none
  noarg = noarg
  GeneratorConfigs <- MCGeneratorConfigs
  MaxGenerators = 2
  Ids <- MCIds
  NoId = none
  NoArg = noarg
  Supported = {"tcp"}
  BlockSizes = {2, 3}
  SerializerFills = FALSE
  CastWidth <- MCCastWidth
INVARIANT CheckedConfiguredBudget
