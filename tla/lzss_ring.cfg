SPECIFICATION Spec
CONSTANTS
  N = 16
  F = 4
  Threshold = 1
  Masks <- MCMasks
  PosLow = 4
  Bytes = {0, 32, 65}
  Space = 32
  Inputs <- MCInputs
INVARIANT DecodedExactly
CHECK_DEADLOCK FALSE
