SPECIFICATION Spec
CONSTANTS
  MaxLen = 3
  MaxGroups = 1
  ReqByteMax = 3
INVARIANTS TypeOK SearchFindsLeftmost RequiredIsAhead OffsetsWritten
PROPERTIES SearchReturns
CHECK_DEADLOCK FALSE
