SPECIFICATION Spec
CONSTANTS
  HeapLen = 20
  Requests <- MCRequests
  Data <- MCData
INVARIANTS HeapTypeOK HeapInv NoOverlap
PROPERTIES ContentsKept FailsOnlyWhenFull CallsEnd
