------------------------- MODULE MigrationDashboard -------------------------
(***************************************************************************)
(* generate_report of src/tools/migration_dashboard.py: the files of the   *)
(* K&R summary are split by path prefix, and for each category the        *)
(* dependencies between its files (one file's text names another file) are *)
(* turned into a graph whose topological order is the priority list; the   *)
(* first entries of the list are printed.                                  *)
(*                                                                         *)
(* A file is a model value.  Its path is abstracted to the one prefix of   *)
(* CATEGORY_PREFIXES it starts with (or "other"), its text to the set of   *)
(* files whose basename it contains ("mentions"), and read_text to        *)
(* whether it succeeds.  nx.topological_sort returns one topological order *)
(* of the graph's nodes, which one is the library's business: the model    *)
(* takes any.                                                              *)
(***************************************************************************)
EXTENDS Naturals, Sequences, FiniteSets, Functions, Graphs, TLC

CONSTANTS
  Files,      \* the files listed in kr_cpp_summary.json
  Shown       \* the length of the printed priority list (order[:5])

ASSUME ShownAssumption == Shown \in Nat \ {0}

\* The summary's file list is a finite JSON array.
ASSUME FilesAssumption == IsFiniteSet(Files)

CATEGORY_PREFIXES == <<"fs/", "kernel/", "mm/", "lib/", "commands/", "tools/", "test/">>

Orderings == {s \in [1..Cardinality(Files) -> Files] : Range(s) = Files}

\* categories[p]: the files of the summary that start with p, in list order.
Subset(files, top, p) == SelectSeq(files, LAMBDA f : top[f] = p)

\* The graph with add_edge(f, d) in place of add_edge(d, f).
DepGraphEdgeReversed(subset, mentions) ==
  LET edges == {e \in Range(subset) \X Range(subset) :
                  e[1] # e[2] /\ <<e[1], e[2]>> \in mentions}
  IN  [node |-> {e[1] : e \in edges} \cup {e[2] : e \in edges}, edge |-> edges]

\* analyze_dependencies then prioritize's add_edge(d, f) for each d in
\* deps[f]: an edge from every other file of the category that f's text
\* names, to f.
DepGraph(subset, mentions) ==
  LET edges == {e \in Range(subset) \X Range(subset) :
                  e[1] # e[2] /\ <<e[2], e[1]>> \in mentions}
  IN  [node |-> {e[1] : e \in edges} \cup {e[2] : e \in edges}, edge |-> edges]

\* The lists nx.topological_sort can return for a graph without a cycle.
TopologicalOrders(G) ==
  {s \in SetToSeqs(G.node) :
     \A i, j \in 1..Len(s) : i < j => <<s[j], s[i]>> \notin G.edge}

\* sorted(files, key=G.in_degree): stable, so the file at position i goes to
\* 1 + #{smaller key} + #{earlier file with an equal key}.
SortedByInDegree(subset, G) ==
  LET key(i) == InDegree(G, subset[i])
      pos(i) == 1 + Cardinality({j \in 1..Len(subset) :
                                   \/ key(j) < key(i)
                                   \/ key(j) = key(i) /\ j < i})
  IN  [k \in 1..Len(subset) |-> subset[CHOOSE i \in 1..Len(subset) : pos(i) = k]]

(***************************************************************************)
(* prioritize: the possible results, or {} when it raises.  On a cycle the *)
(* fallback sorts by G.in_degree(x); for a file that is not a node of G,   *)
(* networkx's DiDegreeView returns a degree view instead of a number, and  *)
(* comparing it with another key raises TypeError.                        *)
(***************************************************************************)
Prioritize(subset, G) ==
  IF IsDag(G) THEN TopologicalOrders(G)
  ELSE IF Range(subset) \subseteq G.node THEN {SortedByInDegree(subset, G)}
  ELSE {}

\* What the loop prints for one category: "(n files)", the numbered list
\* order[:Shown] and, when there are more than Shown files, "... and k more".
Printout(subset, order) ==
  [count |-> Len(subset),
   shown |-> SubSeq(order, 1, IF Len(order) < Shown THEN Len(order) ELSE Shown),
   more  |-> IF Len(subset) > Shown THEN Len(subset) - Shown ELSE 0]

\* printed extended with the printout v of category p (an earlier printout
\* of p, if any, is kept).
WithPrintout(printed, p, v) ==
  [x \in DOMAIN printed \cup {p} |-> IF x \in DOMAIN printed THEN printed[x] ELSE v]

-----------------------------------------------------------------------------
VARIABLES
  files,      \* data['files']: the summary's list
  top,        \* the category prefix each file's path starts with, or "other"
  mentions,   \* <<f, d>>: the text of f contains the basename of d
  readable,   \* the files whose read_text succeeds
  pc,         \* the index of the next category of the loop
  printed,    \* category -> its printout, for the categories printed so far
  status      \* "running", "done" or "raised"

vars == <<files, top, mentions, readable, pc, printed, status>>

Init ==
  /\ files \in Orderings
  /\ top \in [Files -> {"kernel/", "lib/", "other"}]
  /\ mentions \in SUBSET {m \in Files \X Files : m[1] # m[2]}
  /\ readable \in SUBSET Files
  /\ pc = 1
  /\ printed = <<>>
  /\ status = "running"

\* if not subset: continue
SkipCategory ==
  /\ status = "running" /\ pc \in 1..Len(CATEGORY_PREFIXES)
  /\ Subset(files, top, CATEGORY_PREFIXES[pc]) = <<>>
  /\ pc' = pc + 1
  /\ UNCHANGED <<files, top, mentions, readable, printed, status>>

\* analyze_dependencies reads every file of the category: the first one
\* that cannot be read raises out of generate_report.
ReadFails ==
  /\ status = "running" /\ pc \in 1..Len(CATEGORY_PREFIXES)
  /\ ~(Range(Subset(files, top, CATEGORY_PREFIXES[pc])) \subseteq readable)
  /\ status' = "raised"
  /\ UNCHANGED <<files, top, mentions, readable, pc, printed>>

\* deps, order = prioritize(...), then the printout of the category.
PrintCategory ==
  /\ status = "running" /\ pc \in 1..Len(CATEGORY_PREFIXES)
  /\ LET p      == CATEGORY_PREFIXES[pc]
         subset == Subset(files, top, p)
         G      == DepGraph(subset, mentions)
     IN  /\ subset # <<>>
         /\ Range(subset) \subseteq readable
         /\ \/ \E order \in Prioritize(subset, G) :
                 /\ printed' = WithPrintout(printed, p, Printout(subset, order))
                 /\ status' = status
            \/ /\ Prioritize(subset, G) = {}
               /\ status' = "raised"
               /\ UNCHANGED printed
  /\ pc' = pc + 1
  /\ UNCHANGED <<files, top, mentions, readable>>

\* The loop is over.
Finish ==
  /\ status = "running" /\ pc = Len(CATEGORY_PREFIXES) + 1
  /\ status' = "done"
  /\ UNCHANGED <<files, top, mentions, readable, pc, printed>>

Next == SkipCategory \/ ReadFails \/ PrintCategory \/ Finish

Spec == Init /\ [][Next]_vars

-----------------------------------------------------------------------------
\* The dependency graph of a printed category, from the current state.
CategoryGraph(p) == DepGraph(Subset(files, top, p), mentions)

\* The priority list puts dependencies first: in a category where
\* topological_sort succeeds (its graph has no cycle), no printed file's
\* text names a file printed after it.  It is stated over what the files
\* name (mentions), not over the graph prioritize builds, so it checks the
\* direction of analyze_dependencies' deps and add_edge(d, f) as well.
DependenciesFirst ==
  \A p \in DOMAIN printed :
    IsDag(CategoryGraph(p)) =>
      \A i, j \in 1..Len(printed[p].shown) :
        i < j => <<printed[p].shown[i], printed[p].shown[j]>> \notin mentions

\* Every file of a printed category is accounted for: the list shows
\* min(Shown, n) of its n files and "... and k more" counts the others.
PriorityCoversCategory ==
  \A p \in DOMAIN printed :
    Len(printed[p].shown) + printed[p].more = printed[p].count

=============================================================================
