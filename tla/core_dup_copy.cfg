SPECIFICATION Spec
CONSTANTS
  p1 = p1  p1i = p1i  p2 = p2  bad = bad
  re1 = re1  re2 = re2
  RegexpClass = RegexpClass
  NULL = NULL
  Regexps <- MCOneRegexp
  MatchDatas = {m1, m2}
  Blocks = {1, 3, 5, 6, 7, 8, 9, 10}
  Malloc <- MCMalloc
  Patterns <- MCOnePattern
  SourceText <- MCSourceText
  BadPatterns <- MCBadPatterns
  CaptureCount <- MCCaptureCount
  NumNames = 0
  NameTable <- MCNameTable
  Subjects = {s1, s2}
  Classes <- MCClasses
  ClassOf <- MCClassOf
  NumGlobals = 1
  MayFail = FALSE
  UseDup = TRUE
PROPERTIES DupEqualsSource
CHECK_DEADLOCK FALSE
