\* Configs of up to two generators; the serializer may write any length up to its budget.
SPECIFICATION Spec
CONSTANTS
  a = a
  b = b
  none = none
  noarg = noarg
  GeneratorConfigs <- MCGeneratorConfigs
  MaxGenerators = 2
  Ids <- MCIds
  NoId = none
  NoArg = noarg
  Supported = {"tcp"}
  BlockSizes = {2, 3}
  SerializerFills = FALSE
  CastWidth <- MCCastWidth
INVARIANT TypeOK
INVARIANT ExitCodeFaithful
