SPECIFICATION Spec
CONSTANTS
  RingSize = 8
  Commands <- MCCommands
  VCounts <- MCVCounts
  Consumers <- MCIrq
  FlushQueued = FALSE
  MaxCommands = 2
INVARIANT ArgumentsKept
