\* A send error that is not about size still lowers the ceiling.
SPECIFICATION Spec
CONSTANTS
  c1 = c1
  c2 = c2
  Children <- MCChildren
  BlockSizes <- MCBlockSizes
  KernelLimit <- MCKernelLimit
  ChannelCapacity <- MCChannelCapacity
  UsizeMax <- MCUsizeMax
  Environments <- MCTransientOnly
INVARIANT CeilingSound
