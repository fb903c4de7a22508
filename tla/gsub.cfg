SPECIFICATION Spec
CONSTANTS
  Lengths = {0, 1, 2, 3, 4}
  ContextLengths = {0, 1, 2}
  BlockLengths = {0, 1, 2}
INVARIANTS TypeOK GsubTiles GsubFindsAll GsubRepeatsOnlyEmpty
PROPERTIES GsubTerminates
CHECK_DEADLOCK FALSE
