------------------------- MODULE TopEmittersProofs --------------------------
(***************************************************************************)
(* The ranking of summarize_graphs (heavy_hitters of                       *)
(* src/scripts/generate_ast_dependencies.py), for every instance.          *)
(*                                                                         *)
(* sorted(..., key=degree, reverse=True) is stable: the key at position i  *)
(* of the dict goes to SortedPosition(g, i), one more than the number of   *)
(* keys that rank before it (a higher degree, or the same degree and an    *)
(* earlier insertion).  When the degrees are numbers that order is strict  *)
(* and total, SortedPosition is strictly increasing along it, and so it is *)
(* a one-to-one map of the key indices onto 1..Len(keys): HeavyHitters     *)
(* lists the first min(TopN, #keys) of them in order.                      *)
(***************************************************************************)
EXTENDS OrchestratorRefinement

\* Key number j of g ranks before key number i.
RankBefore(g, j, i) ==
  \/ Degree(g, g.keys[j]) > Degree(g, g.keys[i])
  \/ Degree(g, g.keys[j]) = Degree(g, g.keys[i]) /\ j < i

\* The key indices that rank before key number i.
Ahead(g, i) == {j \in 1..Len(g.keys) : RankBefore(g, j, i)}

\* The degrees of g's keys are numbers.
DegreesKnown(g) ==
  /\ g.keys \in Seq(Files)
  /\ \A i \in 1..Len(g.keys) : Degree(g, g.keys[i]) \in Nat

\* RankBefore is a strict total order on the key indices.
LEMMA RankOrder ==
  ASSUME NEW g, DegreesKnown(g),
         NEW i \in 1..Len(g.keys), NEW j \in 1..Len(g.keys),
         NEW k \in 1..Len(g.keys)
  PROVE  /\ ~RankBefore(g, i, i)
         /\ RankBefore(g, j, i) => ~RankBefore(g, i, j)
         /\ i # j => RankBefore(g, j, i) \/ RankBefore(g, i, j)
         /\ RankBefore(g, k, j) /\ RankBefore(g, j, i) => RankBefore(g, k, i)
BY DEF DegreesKnown, RankBefore

\* A key's position is within 1..Len(keys).
LEMMA PositionRange ==
  ASSUME NEW g, DegreesKnown(g), NEW i \in 1..Len(g.keys)
  PROVE  /\ IsFiniteSet(Ahead(g, i))
         /\ SortedPosition(g, i) = 1 + Cardinality(Ahead(g, i))
         /\ SortedPosition(g, i) \in 1..Len(g.keys)
<1>. DEFINE n == Len(g.keys)
<1>1. n \in Nat
  BY DEF DegreesKnown
<1>2. IsFiniteSet((1..n) \ {i}) /\ Cardinality((1..n) \ {i}) = n - 1
  <2>1. IsFiniteSet(1..n) /\ Cardinality(1..n) = n
    BY <1>1, FS_Interval
  <2>. QED  BY <2>1, FS_RemoveElement
<1>3. Ahead(g, i) \subseteq (1..n) \ {i}
  BY RankOrder DEF Ahead
<1>4. IsFiniteSet(Ahead(g, i)) /\ Cardinality(Ahead(g, i)) <= n - 1
  BY <1>2, <1>3, FS_Subset
<1>5. Cardinality(Ahead(g, i)) \in Nat
  BY <1>4, FS_CardinalityType
<1>6. SortedPosition(g, i) = 1 + Cardinality(Ahead(g, i))
  BY DEF SortedPosition, Ahead, RankBefore
<1>. QED  BY <1>1, <1>4, <1>5, <1>6

\* A key that ranks before another gets a smaller position.
LEMMA PositionMonotone ==
  ASSUME NEW g, DegreesKnown(g),
         NEW i \in 1..Len(g.keys), NEW j \in 1..Len(g.keys),
         RankBefore(g, j, i)
  PROVE  SortedPosition(g, j) < SortedPosition(g, i)
<1>1. Ahead(g, j) \cup {j} \subseteq Ahead(g, i)
  BY RankOrder DEF Ahead
<1>2. j \notin Ahead(g, j)
  BY RankOrder DEF Ahead
<1>3. /\ IsFiniteSet(Ahead(g, i)) /\ IsFiniteSet(Ahead(g, j))
      /\ SortedPosition(g, i) = 1 + Cardinality(Ahead(g, i))
      /\ SortedPosition(g, j) = 1 + Cardinality(Ahead(g, j))
  BY PositionRange
<1>4. Cardinality(Ahead(g, j) \cup {j}) = Cardinality(Ahead(g, j)) + 1
  BY <1>2, <1>3, FS_AddElement
<1>5. Cardinality(Ahead(g, j) \cup {j}) <= Cardinality(Ahead(g, i))
  BY <1>1, <1>3, FS_Subset
<1>6. Cardinality(Ahead(g, j)) \in Nat /\ Cardinality(Ahead(g, i)) \in Nat
  BY <1>3, FS_CardinalityType
<1>. QED  BY <1>3, <1>4, <1>5, <1>6

\* Positions follow the order both ways: the smaller position ranks first,
\* and no two keys share a position.
LEMMA PositionOrder ==
  ASSUME NEW g, DegreesKnown(g),
         NEW i \in 1..Len(g.keys), NEW j \in 1..Len(g.keys)
  PROVE  /\ SortedPosition(g, j) < SortedPosition(g, i) => RankBefore(g, j, i)
         /\ SortedPosition(g, j) = SortedPosition(g, i) => j = i
<1>1. SortedPosition(g, j) \in Nat /\ SortedPosition(g, i) \in Nat
  BY PositionRange
<1>2. RankBefore(g, j, i) => SortedPosition(g, j) < SortedPosition(g, i)
  BY PositionMonotone
<1>3. RankBefore(g, i, j) => SortedPosition(g, i) < SortedPosition(g, j)
  BY PositionMonotone
<1>4. j # i => RankBefore(g, j, i) \/ RankBefore(g, i, j)
  BY RankOrder
<1>. QED  BY <1>1, <1>2, <1>3, <1>4

\* Every position 1..Len(keys) is taken by a key: positions are one-to-one
\* on a finite set of that size, hence onto.
LEMMA PositionOnto ==
  ASSUME NEW g, DegreesKnown(g), NEW p \in 1..Len(g.keys)
  PROVE  \E i \in 1..Len(g.keys) : SortedPosition(g, i) = p
<1>. DEFINE n == Len(g.keys)
            pos == [i \in 1..n |-> SortedPosition(g, i)]
<1>1. n \in Nat
  BY DEF DegreesKnown
<1>2. IsFiniteSet(1..n) /\ Cardinality(1..n) = n
  BY <1>1, FS_Interval
<1>3. pos \in Injection(1..n, 1..n)
  <2>1. pos \in [1..n -> 1..n]
    BY PositionRange
  <2>2. \A i, j \in 1..n : pos[i] = pos[j] => i = j
    BY PositionOrder
  <2>. QED  BY <2>1, <2>2 DEF Injection, IsInjective
<1>4. pos \in Surjection(1..n, 1..n)
  BY <1>2, <1>3, FS_Injection
<1>. QED  BY <1>4 DEF Surjection

\* In a graph whose keys are distinct, key number i is found at index i.
LEMMA KeyIndexOfKey ==
  ASSUME NEW g, g.keys \in Seq(Files),
         \A i, j \in 1..Len(g.keys) : g.keys[i] = g.keys[j] => i = j,
         NEW i \in 1..Len(g.keys)
  PROVE  KeyIndex(g, g.keys[i]) = i
BY DEF KeyIndex

(***************************************************************************)
(* heavy_hitters, for a graph with distinct keys and numeric degrees: the  *)
(* entry at place p is the key whose position is p; the list is ranked;    *)
(* and every key left out ranks after the last one listed.                 *)
(***************************************************************************)
LEMMA HeavyHittersRanked ==
  ASSUME NEW g, DegreesKnown(g),
         \A i, j \in 1..Len(g.keys) : g.keys[i] = g.keys[j] => i = j
  PROVE  LET t == HeavyHitters(g)
             n == Len(t)
             Before(s, u) == \/ Degree(g, s) > Degree(g, u)
                             \/ Degree(g, s) = Degree(g, u) /\ KeyIndex(g, s) < KeyIndex(g, u)
         IN  /\ n = IF Len(g.keys) < TopN THEN Len(g.keys) ELSE TopN
             /\ \A p \in 1..n : t[p][1] \in Sources(g) /\ t[p][2] = Degree(g, t[p][1])
             /\ \A p, q \in 1..n : p < q => Before(t[p][1], t[q][1])
             /\ \A s \in Sources(g) \ {t[p][1] : p \in 1..n} : Before(t[n][1], s)
<1>. DEFINE N == Len(g.keys)
            m == IF N < TopN THEN N ELSE TopN
            at(p) == CHOOSE i \in 1..N : SortedPosition(g, i) = p
            t == HeavyHitters(g)
            Before(s, u) == \/ Degree(g, s) > Degree(g, u)
                            \/ Degree(g, s) = Degree(g, u) /\ KeyIndex(g, s) < KeyIndex(g, u)
<1>1. N \in Nat /\ m \in 0..N
  BY SummaryAssumption DEF DegreesKnown
<1>2. \A p \in 1..m : at(p) \in 1..N /\ SortedPosition(g, at(p)) = p
  <2> SUFFICES ASSUME NEW p \in 1..m
               PROVE  at(p) \in 1..N /\ SortedPosition(g, at(p)) = p
    OBVIOUS
  <2>1. p \in 1..N
    BY <1>1
  <2>2. \E i \in 1..N : SortedPosition(g, i) = p
    BY <2>1, PositionOnto
  <2>. QED  BY <2>2
<1>3. t = [p \in 1..m |-> <<g.keys[at(p)], Degree(g, g.keys[at(p)])>>]
  BY DEF HeavyHitters
<1>4. Len(t) = m
  BY <1>1, <1>3
<1>5. \A p \in 1..m : t[p][1] = g.keys[at(p)] /\ t[p][2] = Degree(g, g.keys[at(p)])
  BY <1>3
<1>6. ASSUME NEW i \in 1..N, NEW j \in 1..N
      PROVE  Before(g.keys[j], g.keys[i]) <=> RankBefore(g, j, i)
  <2>1. KeyIndex(g, g.keys[i]) = i /\ KeyIndex(g, g.keys[j]) = j
    BY KeyIndexOfKey DEF DegreesKnown
  <2>. QED  BY <2>1 DEF RankBefore
<1>7. \A p \in 1..m : t[p][1] \in Sources(g) /\ t[p][2] = Degree(g, t[p][1])
  <2> SUFFICES ASSUME NEW p \in 1..m
               PROVE  t[p][1] \in Sources(g) /\ t[p][2] = Degree(g, t[p][1])
    OBVIOUS
  <2>1. at(p) \in 1..N
    BY <1>1, <1>2
  <2>. QED  BY <1>5, <2>1 DEF Sources
<1>8. \A p, q \in 1..m : p < q => Before(t[p][1], t[q][1])
  <2> SUFFICES ASSUME NEW p \in 1..m, NEW q \in 1..m, p < q
               PROVE  Before(t[p][1], t[q][1])
    OBVIOUS
  <2>1. at(p) \in 1..N /\ at(q) \in 1..N
        /\ SortedPosition(g, at(p)) < SortedPosition(g, at(q))
    BY <1>1, <1>2
  <2>2. RankBefore(g, at(p), at(q))
    BY <2>1, PositionOrder
  <2>3. Before(g.keys[at(p)], g.keys[at(q)])
    BY <2>1, <2>2, <1>6
  <2>. QED  BY <1>5, <2>3
<1>9. \A s \in Sources(g) \ {t[p][1] : p \in 1..m} : Before(t[m][1], s)
  <2> SUFFICES ASSUME NEW s \in Sources(g) \ {t[p][1] : p \in 1..m}
               PROVE  Before(t[m][1], s)
    OBVIOUS
  <2>1. PICK i \in 1..N : s = g.keys[i]
    BY DEF Sources
  <2>2. SortedPosition(g, i) \in 1..N
    BY PositionRange
  <2>3. SortedPosition(g, i) > m
    <3> SUFFICES ASSUME SortedPosition(g, i) <= m PROVE FALSE
      BY <1>1, <2>2
    <3>. DEFINE p == SortedPosition(g, i)
    <3>1. p \in 1..m
      BY <1>1, <2>2
    <3>2. at(p) \in 1..N /\ SortedPosition(g, at(p)) = p
      BY <1>2, <3>1
    <3>3. at(p) = i
      BY <3>2, PositionOrder
    <3>4. t[p][1] = s
      BY <1>5, <2>1, <3>1, <3>3
    <3>. QED  BY <3>1, <3>4
  <2>4. m \in 1..N
    BY <1>1, <2>1, SummaryAssumption
  <2>5. at(m) \in 1..N /\ SortedPosition(g, at(m)) = m
    <3>1. m \in 1..m
      BY <2>4
    <3>. QED  BY <1>2, <3>1
  <2>6. RankBefore(g, at(m), i)
    BY <2>2, <2>3, <2>5, PositionOrder
  <2>7. Before(g.keys[at(m)], g.keys[i])
    BY <2>5, <2>6, <1>6
  <2>8. m \in 1..m /\ t[m][1] = g.keys[at(m)]
    <3>1. m \in 1..m
      BY <2>4
    <3>2. t[m] = <<g.keys[at(m)], Degree(g, g.keys[at(m)])>>
      BY <3>1, <1>3
    <3>. QED  BY <3>1, <3>2
  <2>. QED  BY <2>1, <2>7, <2>8
<1>. QED  BY <1>4, <1>7, <1>8, <1>9

-----------------------------------------------------------------------------
(***************************************************************************)
(* The run's invariant.  A file's references are finitely many (one per    *)
(* construct of its content), so every degree is a number; GraphInv gives  *)
(* the distinct keys and the edges, SummaryInv that the summary is the one *)
(* of the final graphs.  Both were proved inductive in the modules this    *)
(* one extends.                                                            *)
(***************************************************************************)
\* The references of a content are finitely many.
LEMMA ContentRefsFinite ==
  ASSUME NEW S, NEW c \in Seq(S)
  PROVE  IsFiniteSet(ContentRefs(c))
<1>. DEFINE f == [i \in 1..Len(c) |-> c[i].ref]
<1>1. IsFiniteSet(1..Len(c))
  BY FS_Interval
<1>2. f \in Surjection(1..Len(c), ContentRefs(c))
  BY DEF Surjection, ContentRefs
<1>. QED  BY <1>1, <1>2, FS_Surjection

\* In every graph the loop builds, the keys have numeric degrees.
LEMMA DegreesOfScan ==
  ASSUME GraphInv, NEW l \in Languages
  PROVE  DegreesKnown(graphs[l])
<1>1. graphs[l] \in Graph
  BY DEF GraphInv, TypeOK
<1>2. ASSUME NEW s \in Files PROVE Degree(graphs[l], s) \in Nat
  <2>1. CASE graphs[l].edges[s] = {}
    BY <2>1, FS_EmptySet DEF Degree
  <2>2. CASE graphs[l].edges[s] # {}
    <3>1. graphs[l].edges[s] \subseteq ContentRefs(tree[s].content)
      BY <2>2 DEF GraphInv, GraphEdgesFromScan
    <3>2. tree[s].content \in Seq(Construct)
      BY OrchestratorAssumption DEF GraphInv, TypeOK, FileRecord
    <3>3. IsFiniteSet(graphs[l].edges[s])
      BY <3>1, <3>2, ContentRefsFinite, FS_Subset
    <3>. QED  BY <3>3, FS_CardinalityType DEF Degree
  <2>. QED  BY <2>1, <2>2
<1>. QED  BY <1>1, <1>2 DEF DegreesKnown, Graph

\* Under the two invariants the top emitters are ranked.
LEMMA RankedFromInv ==
  ASSUME GraphInv, SummaryInv
  PROVE  TopEmittersRanked
<1> SUFFICES ASSUME status = "summarized", NEW l \in DOMAIN summary.languages
             PROVE  LET t == summary.languages[l].top_emitters
                        g == graphs[l]
                        n == Len(t)
                        Before(s, u) == \/ Degree(g, s) > Degree(g, u)
                                        \/ Degree(g, s) = Degree(g, u) /\ KeyIndex(g, s) < KeyIndex(g, u)
                    IN  /\ n = IF Len(g.keys) < TopN THEN Len(g.keys) ELSE TopN
                        /\ \A p \in 1..n : t[p][1] \in Sources(g) /\ t[p][2] = Degree(g, t[p][1])
                        /\ \A p, q \in 1..n : p < q => Before(t[p][1], t[q][1])
                        /\ \A s \in Sources(g) \ {t[p][1] : p \in 1..n} : Before(t[n][1], s)
  BY DEF TopEmittersRanked
<1>1. summary = SummarizeGraphs(graphs, counts, present)
  BY DEF SummaryInv, SummaryPhase
<1>2. l \in present /\ present \subseteq Languages
  BY <1>1 DEF SummarizeGraphs, SummaryInv, CountsInv, TypeOK
<1>3. summary.languages[l].top_emitters = HeavyHitters(graphs[l])
  BY <1>1, <1>2 DEF SummarizeGraphs
<1>4. DegreesKnown(graphs[l])
  BY <1>2, DegreesOfScan
<1>5. \A i, j \in 1..Len(graphs[l].keys) :
        graphs[l].keys[i] = graphs[l].keys[j] => i = j
  BY <1>2 DEF GraphInv, KeysAreSources
<1>. QED  BY <1>3, <1>4, <1>5, HeavyHittersRanked

\* For every tree, grammar state, omit set, TopN and rglob order: once
\* summarized, each language's top emitters are the min(TopN, #sources)
\* sources of highest out-degree with their degrees, in descending degree
\* with ties in the order the sources were first added, and every source
\* left out ranks after the last one listed.
THEOREM TopEmittersCorrect == Spec => []TopEmittersRanked
<1>1. Init => GraphInv /\ SummaryInv
  BY GraphInit, SummaryInit
<1>2. GraphInv /\ SummaryInv /\ [Next]_vars => (GraphInv /\ SummaryInv)'
  BY GraphStep, SummaryStep
<1>3. GraphInv /\ SummaryInv => TopEmittersRanked
  BY RankedFromInv
<1>. QED  BY <1>1, <1>2, <1>3, PTL DEF Spec

=============================================================================
