SPECIFICATION Spec
CONSTANTS
  r = r
  s = s
  x = x
  f1 = f1
  f2 = f2
  f3 = f3
  Dirs <- MCDirs
  Files <- MCFiles
  Below <- MCBelow
  Suffix <- MCSuffix
  Contents <- MCContents
  Threshold <- MCThreshold
INVARIANT GateMatchesCoverage
CHECK_DEADLOCK FALSE
