------------------------------ MODULE DepGraph ------------------------------
(***************************************************************************)
(* The DependencyGraph dataclass of src/scripts/generate_ast_dependencies.py *)
(* A graph is the defaultdict edges: source -> set of reference strings.  *)
(* A source is a key of the dict exactly when its set is non-empty, so    *)
(* the dict is a function over all Files with {} for the missing keys,    *)
(* plus the order in which keys were inserted, which dict iteration in    *)
(* summarize_graphs follows.                                              *)
(***************************************************************************)
EXTENDS Extraction, FiniteSetsExt

CONSTANT Files   \* source paths (relative to the scan root), as model values

Graph == [edges : [Files -> SUBSET Refs], keys : Seq(Files)]

\* DependencyGraph(): edges = defaultdict(set).
EmptyGraph == [edges |-> [s \in Files |-> {}], keys |-> <<>>]

\* Mutant: the `if target:` filter dropped, so "" becomes an edge.
AddUnfiltered(g, source, targets) ==
  IF targets = {} THEN g
  ELSE [edges |-> [g.edges EXCEPT ![source] = @ \cup targets],
        keys  |-> IF g.edges[source] = {} THEN Append(g.keys, source) ELSE g.keys]

\* Mutant: the key is created even when no target is added, as
\* edges[source].update(...) on the defaultdict would.
AddKeyAlways(g, source, targets) ==
  [edges |-> [g.edges EXCEPT ![source] = @ \cup (targets \ {EmptyRef})],
   keys  |-> IF g.edges[source] = {} THEN Append(g.keys, source) ELSE g.keys]

\* add(source, targets): nothing when targets is empty; otherwise each
\* truthy target joins edges[source], and the first one creates the key.
Add(g, source, targets) ==
  LET new == targets \ {EmptyRef} IN
  IF new = {} THEN g
  ELSE [edges |-> [g.edges EXCEPT ![source] = @ \cup new],
        keys  |-> IF g.edges[source] = {} THEN Append(g.keys, source)
                  ELSE g.keys]

\* The sources of the dict, in insertion order.
Sources(g) == {g.keys[i] : i \in 1..Len(g.keys)}

\* edge_count(): the sum of the set sizes over the keys.
EdgeCount(g) == MapThenSumSet(LAMBDA s : Cardinality(g.edges[s]), Sources(g))

=============================================================================
