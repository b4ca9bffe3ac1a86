------------------------------ MODULE Summary ------------------------------
(***************************************************************************)
(* The Summary Aggregator, summarize_graphs of                             *)
(* src/scripts/generate_ast_dependencies.py: per language the file count,  *)
(* the edge count and the TopN sources by out-degree; and the totals.      *)
(***************************************************************************)
EXTENDS DepGraph

CONSTANT TopN   \* the [:10] of heavy_hitters

ASSUME SummaryAssumption == TopN \in Nat \ {0}

Degree(g, s) == Cardinality(g.edges[s])

\* Mutant: ties reversed, as sorted(...)[::-1] on an ascending sort would.
SortedPositionTiesReversed(g, i) ==
  1 + Cardinality({j \in 1..Len(g.keys) :
        \/ Degree(g, g.keys[j]) > Degree(g, g.keys[i])
        \/ Degree(g, g.keys[j]) = Degree(g, g.keys[i]) /\ j > i})

(***************************************************************************)
(* sorted(degree_counter.items(), key=degree, reverse=True): Python's sort *)
(* is stable, and reverse=True keeps equal keys in their original order,   *)
(* so the key at position i of the dict lands at position                  *)
(*   1 + #(keys of higher degree) + #(earlier keys of equal degree).       *)
(***************************************************************************)
SortedPosition(g, i) ==
  1 + Cardinality({j \in 1..Len(g.keys) :
        \/ Degree(g, g.keys[j]) > Degree(g, g.keys[i])
        \/ Degree(g, g.keys[j]) = Degree(g, g.keys[i]) /\ j < i})

\* heavy_hitters: the first TopN entries of the sorted (source, degree) list.
HeavyHitters(g) ==
  LET n == IF Len(g.keys) < TopN THEN Len(g.keys) ELSE TopN IN
  [p \in 1..n |->
     LET i == CHOOSE i \in 1..Len(g.keys) : SortedPosition(g, i) = p
     IN  <<g.keys[i], Degree(g, g.keys[i])>>]

\* Mutant: the file total counts the sources with edges instead of counts.
SummarizeGraphsCountingSources(graphs, counts, present) ==
  [languages |-> [l \in present |->
                    [files        |-> counts[l],
                     edges        |-> EdgeCount(graphs[l]),
                     top_emitters |-> HeavyHitters(graphs[l])]],
   totals    |-> [languages |-> Cardinality(present),
                  files     |-> MapThenSumSet(LAMBDA l : Cardinality(Sources(graphs[l])), present),
                  edges     |-> MapThenSumSet(LAMBDA l : EdgeCount(graphs[l]), present)]]

\* summarize_graphs(graphs, counts); the dict graphs has the keys present.
SummarizeGraphs(graphs, counts, present) ==
  [languages |-> [l \in present |->
                    [files        |-> counts[l],
                     edges        |-> EdgeCount(graphs[l]),
                     top_emitters |-> HeavyHitters(graphs[l])]],
   totals    |-> [languages |-> Cardinality(present),
                  files     |-> MapThenSumSet(LAMBDA l : counts[l], DOMAIN counts),
                  edges     |-> MapThenSumSet(LAMBDA l : EdgeCount(graphs[l]), present)]]

=============================================================================
