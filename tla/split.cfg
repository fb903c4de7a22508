SPECIFICATION Spec
CONSTANTS
  MaxLen = 4
  MaxLimit = 3
  MaxGroups = 1
INVARIANTS TypeOK SplitTiles SplitComplete SplitWithinLimit
PROPERTIES SplitReturnsUnlessBlank
CHECK_DEADLOCK FALSE
