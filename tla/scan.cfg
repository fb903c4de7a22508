SPECIFICATION Spec
CONSTANTS
  Lengths = {0, 1, 2, 3, 4}
  BlockLengths = {0, 1, 2}
INVARIANTS TypeOK ScanFindsAll ScanRepeatsOnlyEmpty ScanOrdered
PROPERTIES ScanTerminates
CHECK_DEADLOCK FALSE
