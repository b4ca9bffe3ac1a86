CONSTANTS
  Files = {f1, f2, f3}
  r1 = r1
  r2 = r2
  e0 = e0
  Refs = {r1, r2, e0}
  EmptyRef = e0
  TopN = 2
  Entries <- MCEntries
  Omit <- MCOmit
SPECIFICATION Spec
INVARIANTS TypeOK CountsMatchScan GraphEdgesFromScan KeysAreSources SummaryMatchesTree TopEmittersRanked
PROPERTY ImplementsScanSpec
CHECK_DEADLOCK FALSE
