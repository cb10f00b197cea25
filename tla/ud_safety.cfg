\* A reliable socket (where a child's socket setup may still fail), one where connect and send may fail for any reason, and one with no connection.
SPECIFICATION Spec
CONSTANTS
  c1 = c1
  c2 = c2
  Children <- MCChildren
  BlockSizes <- MCBlockSizes
  KernelLimit <- MCKernelLimit
  ChannelCapacity <- MCChannelCapacity
  UsizeMax <- MCUsizeMax
  Environments <- MCReliableOrFaulty
INVARIANT TypeOK
INVARIANT NoRecurringRejection
INVARIANT CeilingSoundOnSizeErrors
PROPERTY ShutdownTerminatesWhenSomeBlockFits
PROPERTY BlockStreamRefined
PROPERTY NewFailureReleasesChildren
 
