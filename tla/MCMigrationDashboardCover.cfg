SPECIFICATION Spec
CONSTANTS
  a = a
  b = b
  c = c
  Files <- MCFiles
  Shown <- MCShown
INVARIANT PriorityCoversCategory
CHECK_DEADLOCK FALSE
