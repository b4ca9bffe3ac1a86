---------------------------- MODULE RepoInventory ----------------------------
(***************************************************************************)
(* RepositoryInventory of src/tools/repo_inventory.py: generate_report     *)
(* scans the tree with the recursive scan_directory, which builds the      *)
(* nested inventory and, through analyze_file and count_lines, updates the *)
(* stats counters and the issue list as a side effect; the report is then  *)
(* computed from both.                                                     *)
(*                                                                         *)
(* The recursion is an explicit stack of frames, one per directory being  *)
(* scanned, each holding the entries iterdir has still to yield (in an     *)
(* order the file system chooses) and the items built so far.  A name is   *)
(* abstracted to the facts the code tests of it: hidden, excluded, " 2."   *)
(* in it, a jargon word in it, its suffix, and for a top-level directory   *)
(* the component its relative paths start with.                            *)
(***************************************************************************)
EXTENDS Naturals, Sequences, FiniteSets, FiniteSetsExt, TLC

CONSTANTS
  Root,          \* the repository root
  Entries,       \* every file or directory below it
  Parent(_),     \* the directory an entry is in
  Kind(_),       \* "file", "dir" or "other" (neither is_file nor is_dir)
  Hidden,        \* entries whose name starts with '.'
  Excluded,      \* entries named build, cleanup_backups or .xmake
  Dup,           \* files with ' 2.' in the name
  Jargon,        \* files with one of the jargon words in the name
  Component(_),  \* for a top-level directory, the component it is, or "none"
  Exts,          \* the suffixes a file may have ("" for none)
  ExtChoices(_), \* the suffixes a given file may have
  MayFailStat,   \* files that can vanish between iterdir and stat()
  MayFailOpen,   \* files whose open() in count_lines can fail
  Size(_),       \* st_size of a file
  LineCount(_),  \* the lines of a text file
  TopTypes,      \* extensions[:10]
  MaxIssues      \* len(self.issues) <= 20

ASSUME InventoryAssumption ==
  /\ TopTypes \in Nat \ {0} /\ MaxIssues \in Nat
  /\ \A e \in Entries : Size(e) \in Nat /\ LineCount(e) \in Nat

Files == {e \in Entries : Kind(e) = "file"}

Children(d) == {e \in Entries : Parent(e) = d}

\* is_text_file
TEXT_EXTENSIONS == {".cpp", ".c", ".hpp", ".h", ".py", ".sh", ".lua",
                    ".md", ".txt", ".cmake", ".json", ".yml", ".yaml"}

COMPONENTS == {"kernel", "commands", "tests", "crypto", "fs", "lib", "mm"}

RECURSIVE AncestorsOf(_)
AncestorsOf(e) == IF Parent(e) = Root THEN {} ELSE {Parent(e)} \cup AncestorsOf(Parent(e))

\* The top-level directory an entry is under (the entry itself at top level):
\* its relative path starts with that directory's name and a '/'.
TopLevel(e) ==
  IF Parent(e) = Root THEN e ELSE CHOOSE t \in AncestorsOf(e) : Parent(t) = Root

\* An inventory item; "contents" is empty for a file.
FileItem(f, ok) == [type |-> "file", node |-> f, ok |-> ok, contents |-> <<>>]
DirItem(d, items) == [type |-> "directory", node |-> d, ok |-> TRUE, contents |-> items]

\* walk_inventory: the file items, depth first, in inventory order.
RECURSIVE WalkInventory(_)
WalkInventory(items) ==
  IF items = <<>> THEN <<>>
  ELSE (IF Head(items).type = "file" THEN <<Head(items)>>
        ELSE WalkInventory(Head(items).contents))
       \o WalkInventory(Tail(items))

\* extensions.sort(key=count, reverse=True) is stable: the key at position
\* i of the stats dict goes to 1 + #{greater count} + #{earlier, equal count}.
SortedExtensions(keys, count) ==
  LET pos(i) == 1 + Cardinality({j \in 1..Len(keys) :
                                   \/ count[keys[j]] > count[keys[i]]
                                   \/ count[keys[j]] = count[keys[i]] /\ j < i})
  IN  [k \in 1..Len(keys) |-> keys[CHOOSE i \in 1..Len(keys) : pos(i) = k]]

\* The FILE TYPES section: the first TopTypes of the sorted list, then "if
\* ext" drops the files without a suffix.
FileTypesShown(keys, count) ==
  LET sorted == SortedExtensions(keys, count)
      top    == SubSeq(sorted, 1, IF Len(sorted) < TopTypes THEN Len(sorted) ELSE TopTypes)
  IN  SelectSeq(top, LAMBDA e : e # "")

\* The counters analyze_file and count_lines add to for file f, whose stat()
\* succeeded (ok) and whose lines were counted (counted).
\* Mutant: total_files moved into the try, after stat().
AnalyzeStatsAfterStat(s, f, ok, counted) ==
  [s EXCEPT !.total_files = @ + (IF ok THEN 1 ELSE 0),
            !.duplicate_files = @ + (IF f \in Dup THEN 1 ELSE 0),
            !.jargon_files = @ + (IF f \in Jargon THEN 1 ELSE 0),
            !.total_size = @ + (IF ok THEN Size(f) ELSE 0),
            !.total_lines = @ + (IF counted THEN LineCount(f) ELSE 0)]

AnalyzeStats(s, f, ok, counted) ==
  [s EXCEPT !.total_files = @ + 1,
            !.duplicate_files = @ + (IF f \in Dup THEN 1 ELSE 0),
            !.jargon_files = @ + (IF f \in Jargon THEN 1 ELSE 0),
            !.total_size = @ + (IF ok THEN Size(f) ELSE 0),
            !.total_lines = @ + (IF counted THEN LineCount(f) ELSE 0)]

-----------------------------------------------------------------------------
VARIABLES
  ext,        \* the suffix of each file
  statOk,     \* the files whose stat() succeeds
  openOk,     \* the files count_lines can open
  stack,      \* frames [dir, todo, items] of the scan_directory calls
  stats,      \* the scalar counters of self.stats
  extKeys,    \* the 'files_<ext>' keys of self.stats, in insertion order
  extCount,   \* their counts
  issues,     \* self.issues: [kind, node] records
  inventory,  \* self.inventory
  report,     \* what the report prints
  status      \* "scanning" or "reported"

vars == <<ext, statOk, openOk, stack, stats, extKeys, extCount, issues,
          inventory, report, status>>

Init ==
  /\ ext \in {x \in [Files -> Exts] : \A f \in Files : x[f] \in ExtChoices(f)}
  /\ statOk \in {Files \ S : S \in SUBSET MayFailStat}
  /\ openOk \in {Files \ S : S \in SUBSET MayFailOpen}
  /\ stack = <<[dir |-> Root, todo |-> Children(Root), items |-> <<>>]>>
  /\ stats = [total_files |-> 0, total_size |-> 0, total_lines |-> 0,
              duplicate_files |-> 0, jargon_files |-> 0]
  /\ extKeys = <<>>
  /\ extCount = [e \in Exts |-> 0]
  /\ issues = <<>>
  /\ inventory = <<>>
  /\ report = [types |-> <<>>, components |-> [c \in COMPONENTS |-> 0],
               issuesShown |-> <<>>]
  /\ status = "scanning"

Top == stack[Len(stack)]

\* The current frame after taking entry e from its todo set.
Taken(e) == [Top EXCEPT !.todo = @ \ {e}]

\* A name starting with '.', or build / cleanup_backups: continue.
SkipEntry ==
  /\ status = "scanning"
  /\ \E e \in Top.todo :
       /\ e \in Hidden \cup Excluded
       /\ stack' = [stack EXCEPT ![Len(stack)] = Taken(e)]
  /\ UNCHANGED <<ext, statOk, openOk, stats, extKeys, extCount, issues,
                 inventory, report, status>>

\* Neither a file nor a directory (a broken link): nothing is recorded.
SkipOther ==
  /\ status = "scanning"
  /\ \E e \in Top.todo :
       /\ e \notin Hidden \cup Excluded /\ Kind(e) = "other"
       /\ stack' = [stack EXCEPT ![Len(stack)] = Taken(e)]
  /\ UNCHANGED <<ext, statOk, openOk, stats, extKeys, extCount, issues,
                 inventory, report, status>>

\* analyze_file: the counters and the name checks come first, then stat()
\* and count_lines inside the try; a failed stat records an error item.
VisitFile ==
  /\ status = "scanning"
  /\ \E f \in Top.todo :
       /\ f \notin Hidden \cup Excluded /\ Kind(f) = "file"
       /\ LET ok     == f \in statOk
              counted == ok /\ ext[f] \in TEXT_EXTENSIONS /\ f \in openOk
          IN  /\ stats' = AnalyzeStats(stats, f, ok, counted)
              /\ issues' = issues
                             \o (IF f \in Dup THEN <<[kind |-> "duplicate", node |-> f]>> ELSE <<>>)
                             \o (IF f \in Jargon THEN <<[kind |-> "jargon", node |-> f]>> ELSE <<>>)
                             \o (IF ok THEN <<>> ELSE <<[kind |-> "error", node |-> f]>>)
              /\ stack' = [stack EXCEPT ![Len(stack)] =
                             [Taken(f) EXCEPT !.items = Append(@, FileItem(f, ok))]]
       /\ extKeys' = IF extCount[ext[f]] = 0 THEN Append(extKeys, ext[f]) ELSE extKeys
       /\ extCount' = [extCount EXCEPT ![ext[f]] = @ + 1]
  /\ UNCHANGED <<ext, statOk, openOk, inventory, report, status>>

\* A directory: the recursive call scan_directory(item).
EnterDir ==
  /\ status = "scanning"
  /\ \E d \in Top.todo :
       /\ d \notin Hidden \cup Excluded /\ Kind(d) = "dir"
       /\ stack' = Append([stack EXCEPT ![Len(stack)] = Taken(d)],
                          [dir |-> d, todo |-> Children(d), items |-> <<>>])
  /\ UNCHANGED <<ext, statOk, openOk, stats, extKeys, extCount, issues,
                 inventory, report, status>>

\* Mutant: the subdirectory's item is never appended to its parent.
LeaveDirDropped ==
  /\ status = "scanning" /\ Len(stack) > 1 /\ Top.todo = {}
  /\ stack' = SubSeq(stack, 1, Len(stack) - 1)
  /\ UNCHANGED <<ext, statOk, openOk, stats, extKeys, extCount, issues,
                 inventory, report, status>>

\* The recursive call returns its items; items.append(subdir_info).
LeaveDir ==
  /\ status = "scanning" /\ Len(stack) > 1 /\ Top.todo = {}
  /\ LET parent == stack[Len(stack) - 1] IN
     stack' = Append(SubSeq(stack, 1, Len(stack) - 2),
                     [parent EXCEPT !.items = Append(@, DirItem(Top.dir, Top.items))])
  /\ UNCHANGED <<ext, statOk, openOk, stats, extKeys, extCount, issues,
                 inventory, report, status>>

\* The scan of the root returns; the statistics, file types, components and
\* issues sections are computed.
Report ==
  /\ status = "scanning" /\ Len(stack) = 1 /\ Top.todo = {}
  /\ inventory' = Top.items
  /\ LET walked == WalkInventory(Top.items) IN
     report' = [types |-> FileTypesShown(extKeys, extCount),
                components |-> [c \in COMPONENTS |->
                                  Cardinality({i \in 1..Len(walked) :
                                                 Component(TopLevel(walked[i].node)) = c})],
                issuesShown |-> IF Len(issues) <= MaxIssues THEN issues
                                ELSE SubSeq(issues, 1, MaxIssues)]
  /\ status' = "reported"
  /\ UNCHANGED <<ext, statOk, openOk, stack, stats, extKeys, extCount, issues>>

Next == SkipEntry \/ SkipOther \/ VisitFile \/ EnterDir \/ LeaveDir \/ Report

Spec == Init /\ [][Next]_vars

-----------------------------------------------------------------------------
\* A file the scan should reach: neither it nor a directory above it is
\* hidden or excluded.
Visible(e) == \A a \in AncestorsOf(e) \cup {e} : a \notin Hidden \cup Excluded

\* Across the recursion, every visible file ends up in the nested inventory
\* exactly once, and nothing else does.
InventoryListsVisibleFiles ==
  status = "reported" =>
    LET w == WalkInventory(inventory) IN
    /\ {w[i].node : i \in 1..Len(w)} = {f \in Files : Visible(f)}
    /\ \A i, j \in 1..Len(w) : i # j => w[i].node # w[j].node

\* The counters updated as a side effect of analyze_file agree with the
\* inventory the recursion returned: the file count, the size of the files
\* stat() could read, and the count of every extension.
StatsMatchInventory ==
  status = "reported" =>
    LET w == WalkInventory(inventory) IN
    /\ stats.total_files = Len(w)
    /\ stats.total_size = MapThenSumSet(LAMBDA i : Size(w[i].node), {i \in 1..Len(w) : w[i].ok})
    /\ \A x \in Exts : extCount[x] = Cardinality({i \in 1..Len(w) : ext[w[i].node] = x})

=============================================================================
