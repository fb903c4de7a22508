SPECIFICATION Spec
CONSTANTS
  Lengths = {0, 1}
  ContextLengths = {0, 1}
  BlockLengths = {0}
INVARIANTS GsubFindsAllInContext
CHECK_DEADLOCK FALSE
