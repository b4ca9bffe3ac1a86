--------------------- MODULE MigrationDashboardProofs ----------------------
(***************************************************************************)
(* Proofs about generate_report of src/tools/migration_dashboard.py: the   *)
(* printed priority list of a category without a dependency cycle never    *)
(* shows a file whose text names a file shown after it, for every file     *)
(* list, every text and every length of the printed list.                  *)
(*                                                                         *)
(* The argument: files, top and mentions never change, so the dependency   *)
(* graph of a category is the same in every state; a printout, once made,  *)
(* is never replaced; a new printout is a prefix of a topological order of *)
(* that graph, which keeps the order's property; and the graph has an edge *)
(* d -> f for each file f of the category whose text names d               *)
(* (EdgeIsMention), so the order's property is the one about the texts.    *)
(***************************************************************************)
EXTENDS MigrationDashboard, FiniteSetTheorems, TLAPS

\* The dependency graph only has files as nodes, whatever the category.
LEMMA NodesAreFiles ==
  ASSUME NEW subset, NEW m \in SUBSET (Files \X Files)
  PROVE  /\ DepGraph(subset, m).node \subseteq Files
         /\ IsFiniteSet(DepGraph(subset, m).node)
<1>1. DepGraph(subset, m).node \subseteq Files
  BY DEF DepGraph
<1>2. IsFiniteSet(DepGraph(subset, m).node)
  BY <1>1, FilesAssumption, FS_Subset
<1>. QED  BY <1>1, <1>2

\* A topological order of a graph with finitely many nodes is a sequence of
\* them, as long as the graph has nodes.
LEMMA OrderIsSequence ==
  ASSUME NEW G, IsFiniteSet(G.node), NEW order \in TopologicalOrders(G)
  PROVE  /\ order \in Seq(G.node)
         /\ Len(order) = Cardinality(G.node)
         /\ \A i, j \in 1..Len(order) :
              i < j => <<order[j], order[i]>> \notin G.edge
         /\ \A i, j \in 1..Len(order) : i # j => order[i] # order[j]
<1>1. Cardinality(G.node) \in Nat
  BY FS_CardinalityType
<1>2. order \in [1..Cardinality(G.node) -> G.node]
  BY DEF TopologicalOrders, SetToSeqs
<1>3. order \in Seq(G.node) /\ Len(order) = Cardinality(G.node)
  BY <1>1, <1>2
<1>4. \A i, j \in 1..Len(order) : i < j => <<order[j], order[i]>> \notin G.edge
  BY DEF TopologicalOrders
<1>5. \A i, j \in 1..Len(order) : i # j => order[i] # order[j]
  BY <1>3 DEF TopologicalOrders, SetToSeqs
<1>. QED  BY <1>3, <1>4, <1>5

\* The first entries of a topological order, as many as the loop prints
\* (order[:Shown]), are again in topological order, distinct and nodes.
LEMMA ShownPrefixOrdered ==
  ASSUME NEW G, IsFiniteSet(G.node), NEW order \in TopologicalOrders(G),
         NEW subset
  PROVE  LET shown == Printout(subset, order).shown IN
         \A i, j \in 1..Len(shown) :
           i < j => /\ <<shown[j], shown[i]>> \notin G.edge
                    /\ shown[i] # shown[j]
                    /\ shown[i] \in G.node /\ shown[j] \in G.node
<1>. DEFINE k == IF Len(order) < Shown THEN Len(order) ELSE Shown
<1>1. /\ order \in Seq(G.node)
      /\ \A i, j \in 1..Len(order) :
           i < j => <<order[j], order[i]>> \notin G.edge
      /\ \A i, j \in 1..Len(order) : i # j => order[i] # order[j]
  BY OrderIsSequence
<1>2. k \in 0..Len(order)
  BY <1>1, ShownAssumption
<1>3. Printout(subset, order).shown = SubSeq(order, 1, k)
  BY DEF Printout
<1>4. /\ Len(SubSeq(order, 1, k)) = k
      /\ \A i \in 1..k : SubSeq(order, 1, k)[i] = order[i]
  BY <1>1, <1>2
<1>. QED  BY <1>1, <1>2, <1>3, <1>4

\* Two distinct nodes of a category's graph with no edge from the second to
\* the first: the first file's text does not name the second, since
\* add_edge(d, f) is called for every d that f's text names.
LEMMA EdgeIsMention ==
  ASSUME NEW subset, NEW m, NEW x, NEW y,
         x \in DepGraph(subset, m).node, y \in DepGraph(subset, m).node, x # y,
         <<y, x>> \notin DepGraph(subset, m).edge
  PROVE  <<x, y>> \notin m
<1>1. x \in Range(subset) /\ y \in Range(subset)
  BY DEF DepGraph
<1>. QED  BY <1>1 DEF DepGraph

-----------------------------------------------------------------------------
(***************************************************************************)
(* The inductive invariant: mentions relates files, which keeps every      *)
(* dependency graph finite, and DependenciesFirst itself.                  *)
(***************************************************************************)
PrintInv ==
  /\ mentions \in SUBSET (Files \X Files)
  /\ DependenciesFirst

LEMMA PrintInit == Init => PrintInv
<1>. SUFFICES ASSUME Init PROVE PrintInv  OBVIOUS
<1>1. mentions \in SUBSET (Files \X Files)
  BY DEF Init
<1>2. DOMAIN printed = {}
  BY DEF Init
<1>. QED  BY <1>1, <1>2 DEF PrintInv, DependenciesFirst

LEMMA PrintStep == PrintInv /\ [Next]_vars => PrintInv'
<1>. SUFFICES ASSUME PrintInv, [Next]_vars PROVE PrintInv'  OBVIOUS
<1>. USE DEF PrintInv
\* No step changes what the dependency graphs are built from.
<1>1. UNCHANGED <<files, top, mentions>>
  BY DEF Next, vars, SkipCategory, ReadFails, PrintCategory, Finish
<1>2. \A p : CategoryGraph(p)' = CategoryGraph(p)
  BY <1>1 DEF CategoryGraph
<1>3. CASE printed' = printed
  BY <1>1, <1>2, <1>3 DEF DependenciesFirst
<1>4. CASE PrintCategory /\ printed' # printed
  <2>. DEFINE p      == CATEGORY_PREFIXES[pc]
              subset == Subset(files, top, p)
              G      == DepGraph(subset, mentions)
  <2>1. PICK order \in Prioritize(subset, G) :
                printed' = WithPrintout(printed, p, Printout(subset, order))
    BY <1>4 DEF PrintCategory
  <2>2. G = CategoryGraph(p)
    BY DEF CategoryGraph
  <2>3. IsFiniteSet(G.node)
    BY NodesAreFiles
  <2>4. IsDag(G) => order \in TopologicalOrders(G)
    BY <2>1 DEF Prioritize
  <2>5. \A q \in DOMAIN printed' :
          IsDag(CategoryGraph(q)) =>
            \A i, j \in 1..Len(printed'[q].shown) :
              i < j => <<printed'[q].shown[i], printed'[q].shown[j]>>
                         \notin mentions
    <3>. SUFFICES ASSUME NEW q \in DOMAIN printed', IsDag(CategoryGraph(q))
                  PROVE  \A i, j \in 1..Len(printed'[q].shown) :
                           i < j => <<printed'[q].shown[i], printed'[q].shown[j]>>
                                      \notin mentions
      OBVIOUS
    <3>1. CASE q \in DOMAIN printed
      <4>1. printed'[q] = printed[q]
        BY <2>1, <3>1 DEF WithPrintout
      <4>. QED  BY <3>1, <4>1 DEF DependenciesFirst
    <3>2. CASE q \notin DOMAIN printed
      <4>1. q = p /\ printed'[q] = Printout(subset, order)
        BY <2>1, <3>2 DEF WithPrintout
      <4>2. order \in TopologicalOrders(G)
        BY <4>1, <2>2, <2>4
      <4>3. \A i, j \in 1..Len(printed'[q].shown) :
               i < j => /\ <<printed'[q].shown[j], printed'[q].shown[i]>> \notin G.edge
                        /\ printed'[q].shown[i] # printed'[q].shown[j]
                        /\ printed'[q].shown[i] \in G.node
                        /\ printed'[q].shown[j] \in G.node
        BY <4>1, <4>2, <2>3, ShownPrefixOrdered
      <4>. QED  BY <4>3, EdgeIsMention
    <3>. QED  BY <3>1, <3>2
  <2>6. DependenciesFirst'
    <3>. SUFFICES ASSUME NEW q \in DOMAIN printed', IsDag(CategoryGraph(q)')
                  PROVE  \A i, j \in 1..Len(printed'[q].shown) :
                           i < j => <<printed'[q].shown[i], printed'[q].shown[j]>>
                                      \notin mentions'
      BY DEF DependenciesFirst
    <3>1. CategoryGraph(q)' = CategoryGraph(q) /\ mentions' = mentions
      BY <1>1, <1>2
    <3>. QED  BY <3>1, <2>5
  <2>. QED  BY <1>1, <2>6
<1>. QED  BY <1>3, <1>4 DEF Next, vars, SkipCategory, ReadFails, Finish

\* For every file list, every categorization, every dependency relation and
\* every length of the printed list: in every state of generate_report, the
\* printed priority list of a category whose dependency graph has no cycle
\* never shows a file whose text names a file shown after it.
THEOREM DependenciesFirstCorrect == Spec => []DependenciesFirst
<1>1. Init => PrintInv  BY PrintInit
<1>2. PrintInv /\ [Next]_vars => PrintInv'  BY PrintStep
<1>3. PrintInv => DependenciesFirst  BY DEF PrintInv
<1>. QED  BY <1>1, <1>2, <1>3, PTL DEF Spec

=============================================================================
