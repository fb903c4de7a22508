SPECIFICATION Spec
CONSTANTS
  Lengths = {0, 1, 2, 3}
  BlockLengths = {0}
INVARIANTS ScanNoRepeat
CHECK_DEADLOCK FALSE
