SPECIFICATION Spec
CONSTANTS
  MaxLen = 2
  MaxGroups = 2
  MaxArg = 3
  MaxSubLen = 1
  MaxTemplate = 4
  Symbols <- MCSymbols
  IntMax = 3
INVARIANTS AccessorsAgree ExpandsTemplate LastMatchAfterCall AssignReplacesWhatIsRead
PROPERTIES CallsReturn
CHECK_DEADLOCK FALSE
