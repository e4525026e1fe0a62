SPECIFICATION Spec
CONSTANTS
  RingSize = 8
  Commands <- MCCommands
  VCounts <- MCVCounts
  Consumers <- MCAllConsumers
  FlushQueued = FALSE
  MaxCommands = 4
INVARIANTS FifoTypeOK RingHoldsQueue ProgramArgumentsKept
