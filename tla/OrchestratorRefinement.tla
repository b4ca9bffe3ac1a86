----------------------- MODULE OrchestratorRefinement -----------------------
(***************************************************************************)
(* The graphs the loop of build_dependency_graph builds, and the proof     *)
(* that the loop implements ScanSpec, for every tree, every set of files   *)
(* and references and every omit set.                                     *)
(*                                                                         *)
(* Both rest on one fact about DependencyGraph.add: the loop adds a file   *)
(* to a graph only the one time it takes it off the walk, and at that time *)
(* the file has no edge in any graph yet.  So add sets the file's edges to *)
(* the non-empty references found, rather than adding to earlier ones,     *)
(* and appends the file to the keys at most once.                          *)
(***************************************************************************)
EXTENDS OrchestratorProofs

(***************************************************************************)
(* Lemmas about DependencyGraph.add on a source with no edge yet.          *)
(***************************************************************************)

\* add on a source without edges sets its edges to the non-empty targets
\* and appends it to the keys exactly when there is one.
LEMMA AddFresh ==
  ASSUME NEW g \in Graph, NEW s \in Files, NEW T, g.edges[s] = {}
  PROVE  /\ Add(g, s, T).edges = [g.edges EXCEPT ![s] = T \ {EmptyRef}]
         /\ Add(g, s, T).keys = IF T \ {EmptyRef} = {} THEN g.keys
                                ELSE Append(g.keys, s)
<1>1. CASE T \ {EmptyRef} = {}
  <2>1. g.edges = [g.edges EXCEPT ![s] = {}]
    BY DEF Graph
  <2>. QED
    BY <1>1, <2>1 DEF Add
<1>2. CASE T \ {EmptyRef} # {}
  BY <1>2 DEF Add
<1>. QED
  BY <1>1, <1>2

\* The keys of a graph are distinct and are the sources with an edge.
KeysOK(g) ==
  /\ \A i, j \in 1..Len(g.keys) : g.keys[i] = g.keys[j] => i = j
  /\ Sources(g) = {x \in Files : g.edges[x] # {}}

\* add on a source without edges keeps the keys distinct and equal to the
\* sources with an edge.
LEMMA AddFreshKeys ==
  ASSUME NEW g \in Graph, NEW s \in Files, NEW T, g.edges[s] = {}, KeysOK(g)
  PROVE  KeysOK(Add(g, s, T))
<1>1. CASE T \ {EmptyRef} = {}
  <2>1. Add(g, s, T) = g
    BY <1>1 DEF Add
  <2>. QED
    BY <2>1
<1>2. CASE T \ {EmptyRef} # {}
  <2> DEFINE h == Add(g, s, T)
             new == T \ {EmptyRef}
  <2>1. h.edges = [g.edges EXCEPT ![s] = new] /\ h.keys = Append(g.keys, s)
    BY <1>2 DEF Add
  <2>2. g.keys \in Seq(Files) /\ g.edges \in [Files -> SUBSET Refs]
    BY DEF Graph
  <2>3. s \notin Sources(g)
    BY DEF KeysOK
  <2>4. \A i \in 1..Len(g.keys) : g.keys[i] # s
    BY <2>3 DEF Sources
  <2>5. \A i, j \in 1..Len(h.keys) : h.keys[i] = h.keys[j] => i = j
    <3>1. Len(h.keys) = Len(g.keys) + 1
      BY <2>1, <2>2
    <3>2. \A i \in 1..Len(h.keys) : h.keys[i] = IF i <= Len(g.keys) THEN g.keys[i] ELSE s
      BY <2>1, <2>2
    <3>3. \A i, j \in 1..Len(g.keys) : g.keys[i] = g.keys[j] => i = j
      BY DEF KeysOK
    <3>. QED
      BY <2>2, <2>4, <3>1, <3>2, <3>3
  <2>6. Sources(h) = Sources(g) \cup {s}
    BY <2>1, <2>2 DEF Sources
  <2>7. {x \in Files : h.edges[x] # {}} = {x \in Files : g.edges[x] # {}} \cup {s}
    BY <1>2, <2>1, <2>2
  <2>. QED
    BY <2>5, <2>6, <2>7 DEF KeysOK
<1>. QED
  BY <1>1, <1>2

(***************************************************************************)
(* GraphEdgesFromScan and KeysAreSources.  Neither is inductive alone, nor *)
(* together: a file taken off the walk must not have been taken before, or *)
(* add would append it to the keys a second time, so the inductive         *)
(* invariant GraphInv adds TypeOK and WalkDistinct.                        *)
(***************************************************************************)
GraphInv == TypeOK /\ WalkDistinct /\ GraphEdgesFromScan /\ KeysAreSources

\* A file the loop has not analyzed has no edge in any graph.
LEMMA FreshFile ==
  ASSUME GraphInv, NEW f \in Files, f \notin Processed
  PROVE  \A l \in Languages : graphs[l].edges[f] = {}
BY DEF GraphInv, GraphEdgesFromScan

LEMMA GraphInit == Init => GraphInv
<1> SUFFICES ASSUME Init PROVE GraphInv
  OBVIOUS
<1>1. TypeOK /\ WalkDistinct
  BY TypeInit, OrderingsDistinct DEF Init, WalkDistinct
<1>2. \A l \in Languages : graphs[l] = EmptyGraph
  BY DEF Init
<1>. QED
  BY <1>1, <1>2 DEF GraphInv, GraphEdgesFromScan, KeysAreSources, EmptyGraph, Sources

\* The steps that leave the tree and the graphs alone and take at most the
\* head off the walk: the graphs' files stay analyzed.
LEMMA GraphFrame ==
  ASSUME GraphInv, TypeOK', WalkDistinct', UNCHANGED <<tree, graphs>>,
         Processed \subseteq Processed'
  PROVE  GraphInv'
BY DEF GraphInv, GraphEdgesFromScan, KeysAreSources, Lang, Sources

LEMMA GraphStep == GraphInv /\ [Next]_vars => GraphInv'
<1> SUFFICES ASSUME GraphInv, [Next]_vars PROVE GraphInv'
  OBVIOUS
<1>1. TypeOK'
  BY TypeStep DEF GraphInv
<1>2. ASSUME walk # <<>>, walk' = Tail(walk), tree' = tree
      PROVE  WalkDistinct' /\ Processed \subseteq Processed'
  <2>1. WalkDistinct'
    BY <1>2, TailRange DEF GraphInv, TypeOK, WalkDistinct
  <2>2. Processed \subseteq Processed'
    BY <1>2, ProcessedTail DEF GraphInv
  <2>. QED
    BY <2>1, <2>2
<1>3. CASE SkipOmitted \/ SkipUnsupported
  BY <1>1, <1>2, <1>3, GraphFrame DEF SkipOmitted, SkipUnsupported
<1>4. CASE AbortVisit \/ Finish \/ Summarize \/ UNCHANGED vars
  <2>1. UNCHANGED <<tree, walk, graphs>>
    BY <1>4 DEF AbortVisit, Finish, Summarize, vars
  <2>. QED
    BY <1>1, <2>1, GraphFrame DEF GraphInv, WalkDistinct, Processed, Consumed,
       Candidates, Omitted, Lang
<1>5. CASE VisitFile
  <2> DEFINE f == Head(walk)
             L == Lang(f)
  <2>1. PICK readable \in BOOLEAN, badAt \in 0..Len(tree[f].content) :
          /\ graphs' = [graphs EXCEPT ![L] = Add(@, f, Analysis(f, readable, badAt).refs)]
          /\ walk' = Tail(walk)
    BY <1>5 DEF VisitFile
  <2> DEFINE R == Analysis(f, readable, badAt).refs
  <2>2. walk # <<>> /\ tree' = tree /\ f \in Candidates
    BY <1>5 DEF VisitFile
  <2>3. f \in Files /\ L \in Languages
    BY <2>2, DetectLanguageType DEF GraphInv, TypeOK, Candidates, Lang
  <2>4. f \notin Processed /\ Processed' = Processed \cup {f}
    BY <2>1, <2>2, ProcessedTail DEF GraphInv
  <2>5. \A l \in Languages : graphs[l].edges[f] = {}
    BY <2>3, <2>4, FreshFile
  <2>6. R \subseteq ContentRefs(tree[f].content)
    <3>1. tree[f].content \in Seq(Construct)
      BY <2>3, OrchestratorAssumption DEF GraphInv, TypeOK, FileRecord
    <3>. QED
      BY <3>1, AnalyzeFileRefs DEF Analysis
  <2>7. graphs[L] \in Graph /\ graphs[L].edges[f] = {}
    BY <2>3, <2>5 DEF GraphInv, TypeOK
  <2>8. graphs'[L] = Add(graphs[L], f, R)
    BY <2>1, <2>3 DEF GraphInv, TypeOK
  <2>9. graphs'[L].edges = [graphs[L].edges EXCEPT ![f] = R \ {EmptyRef}]
    <3>1. Add(graphs[L], f, R).edges = [graphs[L].edges EXCEPT ![f] = R \ {EmptyRef}]
      BY <2>3, <2>7, AddFresh
    <3>. QED
      BY <2>8, <3>1
  <2>10. KeysOK(graphs'[L])
    <3>1. KeysOK(graphs[L])
      BY <2>3 DEF GraphInv, KeysAreSources, KeysOK
    <3>. QED
      BY <2>3, <2>7, <2>8, <3>1, AddFreshKeys
  <2>11. \A l \in Languages \ {L} : graphs'[l] = graphs[l]
    <3>1. graphs \in [Languages -> Graph]
      BY DEF GraphInv, TypeOK
    <3>. QED
      BY <2>1, <3>1
  <2>12. GraphEdgesFromScan'
    <3> SUFFICES ASSUME NEW l \in Languages, NEW s \in Files, graphs'[l].edges[s] # {}
                 PROVE  /\ s \in Processed'
                        /\ Lang(s)' = l
                        /\ graphs'[l].edges[s] \subseteq ContentRefs(tree'[s].content) \ {EmptyRef}
      BY DEF GraphEdgesFromScan
    <3>1. CASE l = L /\ s = f
      <4>1. graphs'[l].edges[s] = R \ {EmptyRef}
        BY <2>3, <2>7, <2>9, <3>1 DEF Graph
      <4>2. Lang(s)' = l
        BY <2>2, <3>1 DEF Lang
      <4>. QED
        BY <2>2, <2>4, <2>6, <3>1, <4>1, <4>2
    <3>2. CASE l = L /\ s # f
      <4>1. graphs'[l].edges[s] = graphs[l].edges[s]
        BY <2>7, <2>9, <3>2 DEF Graph
      <4>. QED
        BY <2>2, <2>4, <4>1 DEF GraphInv, GraphEdgesFromScan, Lang
    <3>3. CASE l # L
      BY <2>2, <2>4, <2>11, <3>3 DEF GraphInv, GraphEdgesFromScan, Lang
    <3>. QED
      BY <3>1, <3>2, <3>3
  <2>13. KeysAreSources'
    BY <2>10, <2>11 DEF GraphInv, KeysAreSources, KeysOK
  <2>14. WalkDistinct'
    BY <1>2, <2>1, <2>2
  <2>. QED
    BY <1>1, <2>12, <2>13, <2>14 DEF GraphInv
<1>. QED
  BY <1>3, <1>4, <1>5 DEF Next

\* A source has edges only in the graph of its own language, only after the
\* loop analyzed it, and only to non-empty strings its content holds.
THEOREM GraphEdgesCorrect == Spec => []GraphEdgesFromScan
BY GraphInit, GraphStep, PTL DEF Spec, GraphInv

\* The keys of every graph, in insertion order, are distinct and are the
\* sources with at least one edge: a file without a reference is never a
\* key, so never a top emitter.
THEOREM KeysCorrect == Spec => []KeysAreSources
BY GraphInit, GraphStep, PTL DEF Spec, GraphInv


(***************************************************************************)
(* Refinement.  Under the mapping of Orchestrator (env is the tree with    *)
(* the grammar states, scanned the files the loop analyzed, edges the      *)
(* graphs' edge maps, tally the counts), a step of the loop is a step of   *)
(* ScanSpec or leaves the mapped state alone:                             *)
(*   VisitFile    is Scan of the head of the walk;                        *)
(*   Finish       is Complete, since the walk is empty;                   *)
(*   AbortVisit   is Stop on the head of the walk;                        *)
(*   SkipOmitted, SkipUnsupported and Summarize stutter.                  *)
(* The step of VisitFile needs GraphInv: the file is not scanned yet, and *)
(* its edges are still empty, so add sets them to exactly what extraction *)
(* returned.                                                               *)
(***************************************************************************)
Env == <<tree, grammar>>

\* CandidateIn, LangIn and AnalysisIn of the mapping are Candidates, Lang
\* and Analysis of the current tree.
LEMMA MappingFacts ==
  ASSUME NEW f \in Files
  PROVE  /\ CandidateIn(Env, f) <=> f \in Candidates
         /\ LangIn(Env, f) = Lang(f)
         /\ \A readable, b : AnalysisIn(Env, f, readable, b) = Analysis(f, readable, b)
BY DEF Env, CandidateIn, Candidates, Omitted, LangIn, Lang, AnalysisIn, Analysis

LEMMA RefInit == Init => Abstract!Init
<1> SUFFICES ASSUME Init PROVE Abstract!Init
  OBVIOUS
<1>1. Processed = {}
  BY OrderingsDistinct DEF Init, Processed, Consumed
<1>2. [l \in Languages |-> graphs[l].edges] = [l \in Languages |-> [f \in Files |-> {}]]
  BY DEF Init, EmptyGraph
<1>. QED
  BY <1>1, <1>2 DEF Init, Abstract!Init, Phase

\* The steps that leave the mapped state alone.
LEMMA RefStutter ==
  ASSUME UNCHANGED <<tree, grammar, graphs, counts>>, Processed' = Processed,
         Phase' = Phase
  PROVE  UNCHANGED Abstract!vars
BY DEF Abstract!vars

LEMMA RefStep == GraphInv /\ [Next]_vars => [Abstract!Next]_Abstract!vars
<1> SUFFICES ASSUME GraphInv, [Next]_vars PROVE [Abstract!Next]_Abstract!vars
  OBVIOUS
<1>1. CASE SkipOmitted \/ SkipUnsupported
  <2>1. walk # <<>> /\ walk' = Tail(walk) /\ tree' = tree /\ Head(walk) \notin Candidates
    BY <1>1 DEF SkipOmitted, SkipUnsupported, Candidates
  <2>2. Processed' = Processed
    BY <2>1, ProcessedTail DEF GraphInv
  <2>. QED
    BY <1>1, <2>2, RefStutter DEF SkipOmitted, SkipUnsupported, Phase
<1>2. CASE Summarize \/ UNCHANGED vars
  <2>1. UNCHANGED <<tree, grammar, walk, graphs, counts>> /\ Phase' = Phase
    BY <1>2 DEF Summarize, vars, Phase
  <2>2. Processed' = Processed
    BY <2>1 DEF Processed, Consumed, Candidates, Omitted, Lang
  <2>. QED
    BY <2>1, <2>2, RefStutter
<1>3. CASE Finish
  <2>1. Processed = Candidates
    BY <1>3 DEF Finish, Processed, Consumed, Range, Candidates
  <2>2. \A f \in Files : CandidateIn(Env, f) => f \in Processed
    BY <2>1, MappingFacts
  <2>3. UNCHANGED <<tree, grammar, walk, graphs, counts>>
    BY <1>3 DEF Finish
  <2>4. Processed' = Processed
    BY <2>3 DEF Processed, Consumed, Candidates, Omitted, Lang
  <2>5. Abstract!Complete
    BY <1>3, <2>2, <2>3, <2>4 DEF Finish, Abstract!Complete, Phase, Env
  <2>. QED
    BY <2>5 DEF Abstract!Next
<1>4. CASE AbortVisit
  <2> DEFINE f == Head(walk)
  <2>1. walk # <<>> /\ f \in Candidates
    BY <1>4 DEF AbortVisit
  <2>2. f \in Files /\ f \notin Processed
    BY <2>1 DEF GraphInv, TypeOK, Processed, Consumed, Range
  <2>3. PICK readable \in BOOLEAN, badAt \in 0..Len(tree[f].content) :
          Analysis(f, readable, badAt).raised
    BY <1>4 DEF AbortVisit
  <2>4. MayFailIn(Env, f)
    BY <2>2, <2>3, MappingFacts DEF MayFailIn, Env
  <2>5. UNCHANGED <<tree, grammar, walk, graphs, counts>> /\ Processed' = Processed
    BY <1>4 DEF AbortVisit, Processed, Consumed, Candidates, Omitted, Lang
  <2>6. Abstract!Stop
    <3>1. Phase = "scanning" /\ Phase' = "stopped"
      BY <1>4 DEF AbortVisit, Phase
    <3>2. CandidateIn(Env, f)
      BY <2>1, <2>2, MappingFacts
    <3>. QED
      BY <2>2, <2>4, <2>5, <3>1, <3>2 DEF Abstract!Stop, Env
  <2>. QED
    BY <2>6 DEF Abstract!Next
<1>5. CASE VisitFile
  <2> DEFINE f == Head(walk)
             L == Lang(f)
  <2>1. PICK readable \in BOOLEAN, badAt \in 0..Len(tree[f].content) :
          /\ ~Analysis(f, readable, badAt).raised
          /\ graphs' = [graphs EXCEPT ![L] = Add(@, f, Analysis(f, readable, badAt).refs)]
          /\ counts' = [counts EXCEPT ![L] = @ + 1]
          /\ walk' = Tail(walk)
    BY <1>5 DEF VisitFile
  <2> DEFINE R == Analysis(f, readable, badAt).refs
  <2>2. walk # <<>> /\ UNCHANGED <<tree, grammar, status>> /\ f \in Candidates
    BY <1>5 DEF VisitFile
  <2>3. f \in Files /\ L \in Languages
    BY <2>2, DetectLanguageType DEF GraphInv, TypeOK, Candidates, Lang
  <2>4. f \notin Processed /\ Processed' = Processed \cup {f}
    BY <2>1, <2>2, ProcessedTail DEF GraphInv
  <2>5. readable = TRUE
    <3>1. L # NoLanguage
      BY <2>2 DEF Candidates
    <3>2. ~readable => Analysis(f, readable, badAt) = Raised
      BY <3>1 DEF Analysis, AnalyzeFile, Lang
    <3>3. Raised.raised = TRUE
      BY DEF Raised
    <3>. QED
      BY <2>1, <3>2, <3>3
  <2>6. R \in ResultsIn(Env, f)
    <3>1. AnalysisIn(Env, f, TRUE, badAt) = Analysis(f, TRUE, badAt)
      BY <2>3, MappingFacts
    <3>2. Env[1][f] = tree[f]
      BY DEF Env
    <3>3. badAt \in {k \in 0..Len(Env[1][f].content) : ~AnalysisIn(Env, f, TRUE, k).raised}
      BY <2>1, <2>5, <3>1, <3>2
    <3>. QED
      BY <2>5, <3>1, <3>3 DEF ResultsIn
  <2>7. graphs[L] \in Graph /\ graphs[L].edges[f] = {}
    BY <2>3, <2>4, FreshFile DEF GraphInv, TypeOK
  <2>8. graphs \in [Languages -> Graph]
    BY DEF GraphInv, TypeOK
  <2>9. graphs'[L].edges = [graphs[L].edges EXCEPT ![f] = R \ {EmptyRef}]
    <3>1. Add(graphs[L], f, R).edges = [graphs[L].edges EXCEPT ![f] = R \ {EmptyRef}]
      BY <2>3, <2>7, AddFresh
    <3>. QED
      BY <2>1, <2>3, <2>8, <3>1
  <2>10. [l \in Languages |-> graphs'[l].edges]
           = [[l \in Languages |-> graphs[l].edges] EXCEPT ![L][f] = R \ {EmptyRef}]
    BY <2>1, <2>3, <2>8, <2>9
  <2>11. Abstract!Scan(f)
    <3>1. CandidateIn(Env, f) /\ LangIn(Env, f) = L
      BY <2>2, <2>3, MappingFacts
    <3>2. Phase = "scanning" /\ Phase' = Phase
      BY <1>5, <2>2 DEF VisitFile, Phase
    <3>. QED
      BY <2>1, <2>2, <2>4, <2>6, <2>10, <3>1, <3>2 DEF Abstract!Scan, Env
  <2>12. \E x \in Files : Abstract!Scan(x)
    <3>1. PICK x \in Files : x = f
      BY <2>3
    <3>2. Abstract!Scan(x)
      BY <2>11, <3>1 DEF Abstract!Scan
    <3>. QED
      BY <3>2
  <2>. QED
    BY <2>12 DEF Abstract!Next
<1>. QED
  BY <1>1, <1>2, <1>3, <1>4, <1>5 DEF Next

\* The loop of build_dependency_graph implements ScanSpec: whatever order
\* rglob yields the files in, it scans each candidate once and gives its
\* graph exactly the non-empty references one extraction result holds; it
\* completes only once every candidate is scanned, and stops only on a
\* file whose extraction can raise.
THEOREM Refinement == Spec => ImplementsScanSpec
<1>1. Spec => []GraphInv
  BY GraphInit, GraphStep, PTL DEF Spec
<1>. QED
  BY <1>1, RefInit, RefStep, PTL DEF Spec, ImplementsScanSpec, Abstract!Spec

=============================================================================
