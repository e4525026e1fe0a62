SPECIFICATION Spec
CONSTANTS
  N = 16
  F = 4
  Threshold = 1
  Masks <- MCMasks
  PosLow = 4
  Bytes = {0, 32, 65}
  Space = 32
  Inputs <- MCInputs
INVARIANTS LzssTypeOK SearchTree LongestMatch Decoded
PROPERTY Ends
CHECK_DEADLOCK FALSE
