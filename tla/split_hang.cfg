SPECIFICATION Spec
CONSTANTS
  MaxLen = 2
  MaxLimit = 0
  MaxGroups = 0
PROPERTIES SplitTerminates
CHECK_DEADLOCK FALSE
