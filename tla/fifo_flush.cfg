SPECIFICATION Spec
CONSTANTS
  RingSize = 8
  Commands <- MCCommands
  VCounts <- MCVCounts
  Consumers <- MCProgram
  FlushQueued = TRUE
  MaxCommands = 2
INVARIANT ReturnsToCaller
