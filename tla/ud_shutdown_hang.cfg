\* The target's socket may be absent and sends may fail transiently: a child may retry connect, or skip blocks, forever.
SPECIFICATION Spec
CONSTANTS
  c1 = c1
  c2 = c2
  Children <- MCChildren
  BlockSizes <- MCBlockSizes
  KernelLimit <- MCKernelLimit
  ChannelCapacity <- MCChannelCapacity
  UsizeMax <- MCUsizeMax
  Environments <- MCFaulty
PROPERTY ShutdownTerminates
