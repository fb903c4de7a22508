SPECIFICATION Spec
CONSTANTS
  p1 = p1  p1i = p1i  p2 = p2  bad = bad
  re1 = re1  re2 = re2
  RegexpClass = RegexpClass
  NULL = NULL
  Regexps <- MCRegexps
  MatchDatas = {m1}
  Blocks = {1, 2, 3, 4, 5, 6, 7, 8, 9, 10}
  Malloc <- MCMalloc
  Patterns <- MCPatterns
  SourceText <- MCSourceText
  BadPatterns <- MCBadPatterns
  CaptureCount <- MCCaptureCount
  NumNames = 2
  NameTable <- MCNameTable
  Subjects = {s1}
  Classes <- MCClasses
  ClassOf <- MCClassOf
  NumGlobals = 2
  MayFail = FALSE
  UseDup = TRUE
INVARIANTS CodeIsSource EqualRunsSameText  GlobalsAgree
CHECK_DEADLOCK FALSE
