\* A configured byte quantity above u32::MAX.
SPECIFICATION Spec
CONSTANTS
  Connections <- MCConnections
  ByteQuantities <- MCByteQuantities
  CacheMethods <- MCCacheMethods
  BuildMayFail = TRUE
  CastWidth <- MCCastWidth
INVARIANT RateFaithful
