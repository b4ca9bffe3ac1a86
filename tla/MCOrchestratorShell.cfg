CONSTANTS
  Files = {f1, f2, f3}
  r1 = r1
  r2 = r2
  e0 = e0
  Refs = {r1, r2, e0}
  EmptyRef = e0
  TopN = 2
  Omit <- MCOmit
  Entries <- MCEntriesShell
SPECIFICATION Spec
INVARIANT EdgesAreReferences
CHECK_DEADLOCK FALSE
