SPECIFICATION Spec
CONSTANTS
  root = root
  kdir = kdir
  bdir = bdir
  f1 = f1
  f2 = f2
  f3 = f3
  f4 = f4
  f5 = f5
  hdn = hdn
  lnk = lnk
  Root = root
  Entries <- MCEntries
  Parent <- MCParent
  Kind <- MCKind
  Hidden = {hdn}
  Excluded = {bdir}
  Dup = {f2}
  Jargon = {f3}
  Component <- MCComponent
  Exts = {".c", ".py", ""}
  ExtChoices <- MCExtChoices
  MayFailStat = {f1}
  MayFailOpen = {f2}
  Size <- MCSize
  LineCount <- MCLineCount
  TopTypes = 2
  MaxIssues = 2
INVARIANTS InventoryListsVisibleFiles StatsMatchInventory
CHECK_DEADLOCK FALSE
