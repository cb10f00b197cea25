\* Two children of a fixed-cache generator.
SPECIFICATION Spec
CONSTANTS
  Connections <- MCConnections
  ByteQuantities <- MCByteQuantities
  CacheMethods <- MCCacheMethods
  BuildMayFail = TRUE
  CastWidth <- MCCastWidth
INVARIANT FixedChildrenIdentical
