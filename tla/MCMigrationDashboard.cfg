SPECIFICATION Spec
CONSTANTS
  a = a
  b = b
  c = c
  Files <- MCFiles
  Shown <- MCShown
INVARIANT DependenciesFirst
CHECK_DEADLOCK FALSE
