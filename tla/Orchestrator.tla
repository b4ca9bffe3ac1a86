---------------------------- MODULE Orchestrator ----------------------------
(***************************************************************************)
(* The Extraction Orchestrator of src/scripts/generate_ast_dependencies.py *)
(* (iter_repository_files, build_dependency_graph) and the main sequence   *)
(* that hands its result to summarize_graphs.                              *)
(*                                                                         *)
(* The scanned tree and the state of the grammar bundle are inputs, chosen *)
(* in Init and never changed.  The loop takes one rglob entry per step, in *)
(* the order rglob yields them (os.scandir order, not sorted).             *)
(***************************************************************************)
EXTENDS Summary

CONSTANTS
  Entries,   \* the files a tree can hold: [suffix, parts, content] records
  Omit       \* the omitted directory names (DEFAULT_OMIT and --omit)

FileRecord == [suffix : STRING, parts : SUBSET STRING, content : Seq(Construct)]

ASSUME OrchestratorAssumption ==
  /\ Entries # {} /\ Entries \subseteq FileRecord
  /\ Omit \subseteq STRING
  /\ IsFiniteSet(Files)

VARIABLES
  tree,      \* tree[f]: the suffix, directory parts and content of file f
  grammar,   \* grammar[l]: whether get_language/query work for language l
  walk,      \* the rglob entries the loop has still to take
  graphs,    \* graphs[l]: the DependencyGraph of language l
  present,   \* the keys of the defaultdict graphs
  counts,    \* the Counter language_counts
  status,    \* "scanning", "built", "summarized" or "aborted"
  summary    \* the result of summarize_graphs, once computed

vars == <<tree, grammar, walk, graphs, present, counts, status, summary>>

NoSummary == "none"

UsedLanguages == {DetectLanguage(e.suffix) : e \in Entries} \ {NoLanguage}

\* The orders rglob can yield the files in.
Orderings == {w \in [1..Cardinality(Files) -> Files] : Range(w) = Files}

Lang(f) == DetectLanguage(tree[f].suffix)

\* iter_repository_files: a part of the relative path is in omit.
Omitted(f) == tree[f].parts \cap Omit # {}

\* The files the loop analyzes, counts and adds to a graph.
Candidates == {f \in Files : ~Omitted(f) /\ Lang(f) # NoLanguage}

\* The files the loop has taken, and those of them it has analyzed.
Consumed == Files \ Range(walk)
Processed == Consumed \cap Candidates

-----------------------------------------------------------------------------
Init ==
  /\ tree \in [Files -> Entries]
  /\ grammar \in [UsedLanguages -> GrammarStates]
  /\ walk \in Orderings
  /\ graphs = [l \in Languages |-> EmptyGraph]
  /\ present = {}
  /\ counts = [l \in Languages |-> 0]
  /\ status = "scanning"
  /\ summary = NoSummary

\* iter_repository_files skips an entry under an omitted directory.
SkipOmitted ==
  /\ status = "scanning"
  /\ walk # <<>>
  /\ Omitted(Head(walk))
  /\ walk' = Tail(walk)
  /\ UNCHANGED <<tree, grammar, graphs, present, counts, status, summary>>

\* Mutant: graphs[language_id] is touched before the None check.
SkipUnsupportedTouchingGraph ==
  /\ status = "scanning"
  /\ walk # <<>>
  /\ ~Omitted(Head(walk))
  /\ Lang(Head(walk)) = NoLanguage
  /\ present' = present \cup {Lang(Head(walk))}
  /\ walk' = Tail(walk)
  /\ UNCHANGED <<tree, grammar, graphs, counts, status, summary>>

\* build_dependency_graph: analyze_file returns (None, []) and the loop
\* continues without counting.
SkipUnsupported ==
  /\ status = "scanning"
  /\ walk # <<>>
  /\ ~Omitted(Head(walk))
  /\ Lang(Head(walk)) = NoLanguage
  /\ walk' = Tail(walk)
  /\ UNCHANGED <<tree, grammar, graphs, present, counts, status, summary>>

\* The outcome of analyze_file for file f: whether it can be read, and the
\* first capture whose bytes do not decode.
Analysis(f, readable, badAt) ==
  AnalyzeFile(tree[f].suffix, tree[f].content, grammar[Lang(f)], readable, badAt)

\* Mutant: the file is counted only when a dependency was found.
VisitFileCountingOnlyWithDeps ==
  /\ status = "scanning"
  /\ walk # <<>>
  /\ LET f == Head(walk) IN
     /\ f \in Candidates
     /\ \E readable \in BOOLEAN, badAt \in 0..Len(tree[f].content) :
          LET r == Analysis(f, readable, badAt) IN
          /\ ~r.raised
          /\ graphs' = [graphs EXCEPT ![Lang(f)] = Add(@, f, r.refs)]
          /\ present' = present \cup {Lang(f)}
          /\ counts' = IF r.refs \ {EmptyRef} = {} THEN counts
                       ELSE [counts EXCEPT ![Lang(f)] = @ + 1]
          /\ walk' = Tail(walk)
  /\ UNCHANGED <<tree, grammar, status, summary>>

\* One iteration of the loop for a supported file: analyze_file returns,
\* graphs[language_id].add(rel_path, dependencies) (which creates the key
\* of graphs) and language_counts[language_id] += 1.
VisitFile ==
  /\ status = "scanning"
  /\ walk # <<>>
  /\ LET f == Head(walk) IN
     /\ f \in Candidates
     /\ \E readable \in BOOLEAN, badAt \in 0..Len(tree[f].content) :
          LET r == Analysis(f, readable, badAt) IN
          /\ ~r.raised
          /\ graphs' = [graphs EXCEPT ![Lang(f)] = Add(@, f, r.refs)]
          /\ present' = present \cup {Lang(f)}
          /\ counts' = [counts EXCEPT ![Lang(f)] = @ + 1]
          /\ walk' = Tail(walk)
  /\ UNCHANGED <<tree, grammar, status, summary>>

\* analyze_file raises (read_bytes, get_language/get_parser, or anything in
\* _query_c_includes): nothing catches it and the run ends.
AbortVisit ==
  /\ status = "scanning"
  /\ walk # <<>>
  /\ LET f == Head(walk) IN
     /\ f \in Candidates
     /\ \E readable \in BOOLEAN, badAt \in 0..Len(tree[f].content) :
          Analysis(f, readable, badAt).raised
  /\ status' = "aborted"
  /\ UNCHANGED <<tree, grammar, walk, graphs, present, counts, summary>>

\* Mutant: the loop stops one entry early.
FinishOneEarly ==
  /\ status = "scanning"
  /\ Len(walk) <= 1
  /\ status' = "built"
  /\ UNCHANGED <<tree, grammar, walk, graphs, present, counts, summary>>

\* The loop ends; build_dependency_graph returns graphs and counts.
Finish ==
  /\ status = "scanning"
  /\ walk = <<>>
  /\ status' = "built"
  /\ UNCHANGED <<tree, grammar, walk, graphs, present, counts, summary>>

\* main: summary_payload = summarize_graphs(graphs, counts).
Summarize ==
  /\ status = "built"
  /\ summary' = SummarizeGraphs(graphs, counts, present)
  /\ status' = "summarized"
  /\ UNCHANGED <<tree, grammar, walk, graphs, present, counts>>

Next ==
  \/ SkipOmitted
  \/ SkipUnsupported
  \/ VisitFile
  \/ AbortVisit
  \/ Finish
  \/ Summarize

Spec == Init /\ [][Next]_vars

-----------------------------------------------------------------------------
TypeOK ==
  /\ tree \in [Files -> Entries]
  /\ grammar \in [UsedLanguages -> GrammarStates]
  /\ walk \in Seq(Files)
  /\ graphs \in [Languages -> Graph]
  /\ present \subseteq Languages
  /\ counts \in [Languages -> Nat]
  /\ status \in {"scanning", "built", "summarized", "aborted"}

(***************************************************************************)
(* The scan so far.  These are the parts of the inductive invariant.       *)
(***************************************************************************)
\* rglob yields every file once: the entries left are distinct.
WalkDistinct == IsInjective(walk)

\* Every file the loop analyzed is counted under its language exactly once,
\* whether or not any reference was found in it, and nothing else is
\* counted: language_counts[l] += 1 runs for every analyzed file.
CountsMatchScan ==
  \A l \in Languages : counts[l] = Cardinality({f \in Processed : Lang(f) = l})

\* A source has edges only in the graph of its own language, only once the
\* loop has analyzed it, and only to non-empty strings its content holds.
GraphEdgesFromScan ==
  \A l \in Languages, s \in Files :
    graphs[l].edges[s] # {} =>
      /\ s \in Processed
      /\ Lang(s) = l
      /\ graphs[l].edges[s] \subseteq ContentRefs(tree[s].content) \ {EmptyRef}

\* The dict's keys, in insertion order, are distinct and are exactly the
\* sources with at least one edge: a file with no reference is no key, so
\* it is never a top emitter.
KeysAreSources ==
  \A l \in Languages :
    /\ \A i, j \in 1..Len(graphs[l].keys) :
          graphs[l].keys[i] = graphs[l].keys[j] => i = j
    /\ Sources(graphs[l]) = {s \in Files : graphs[l].edges[s] # {}}

\* The keys of graphs are the languages of the analyzed files.
PresentLanguages == present = {Lang(f) : f \in Processed}

(***************************************************************************)
(* The summary.                                                            *)
(***************************************************************************)
\* The per-language part of the summary agrees with the tree whatever
\* order rglob took: the languages listed are those of the files analyzed,
\* and each one's file count is the number of its files.
SummaryLanguagesMatchTree ==
  status = "summarized" =>
    /\ summary.totals.languages = Cardinality({Lang(f) : f \in Candidates})
    /\ DOMAIN summary.languages = {Lang(f) : f \in Candidates}
    /\ \A l \in DOMAIN summary.languages :
         summary.languages[l].files = Cardinality({f \in Candidates : Lang(f) = l})

\* Once summarized, the totals and per-language file counts agree with the
\* tree itself, whatever order rglob took: every file that is not under an
\* omitted directory and has a supported suffix is counted once, and a
\* language is listed when such a file has it.
SummaryMatchesTree ==
  /\ status = "summarized" => summary.totals.files = Cardinality(Candidates)
  /\ SummaryLanguagesMatchTree

\* The position of source s among the keys of g.
KeyIndex(g, s) == CHOOSE i \in 1..Len(g.keys) : g.keys[i] = s

\* The top emitters of every language are the min(TopN, #sources) sources
\* of highest out-degree with their degrees, in descending degree, ties in
\* the order the sources were first seen; any source left out ranks after
\* the last one listed.
TopEmittersRanked ==
  status = "summarized" =>
    \A l \in DOMAIN summary.languages :
      LET t == summary.languages[l].top_emitters
          g == graphs[l]
          n == Len(t)
          Before(s, u) == \/ Degree(g, s) > Degree(g, u)
                          \/ Degree(g, s) = Degree(g, u) /\ KeyIndex(g, s) < KeyIndex(g, u)
      IN  /\ n = IF Len(g.keys) < TopN THEN Len(g.keys) ELSE TopN
          /\ \A p \in 1..n : t[p][1] \in Sources(g) /\ t[p][2] = Degree(g, t[p][1])
          /\ \A p, q \in 1..n : p < q => Before(t[p][1], t[q][1])
          /\ \A s \in Sources(g) \ {t[p][1] : p \in 1..n} : Before(t[n][1], s)

\* Every edge is a reference the file really makes (an include, import,
\* source, require or use), never the argument of an unrelated command.
EdgesAreReferences ==
  \A l \in Languages, s \in Files :
    graphs[l].edges[s] \subseteq DeclaredRefs(tree[s].content)

(***************************************************************************)
(* Refinement: the loop implements ScanSpec.  The environment is the tree *)
(* with the grammar states; the scanned files are those the loop has      *)
(* analyzed; "built" and "summarized" are both a completed pass.          *)
(***************************************************************************)
CandidateIn(e, f) ==
  e[1][f].parts \cap Omit = {} /\ DetectLanguage(e[1][f].suffix) # NoLanguage

LangIn(e, f) == DetectLanguage(e[1][f].suffix)

AnalysisIn(e, f, readable, badAt) ==
  AnalyzeFile(e[1][f].suffix, e[1][f].content, e[2][LangIn(e, f)], readable, badAt)

ResultsIn(e, f) ==
  {AnalysisIn(e, f, TRUE, b).refs :
     b \in {k \in 0..Len(e[1][f].content) : ~AnalysisIn(e, f, TRUE, k).raised}}

MayFailIn(e, f) ==
  \E readable \in BOOLEAN, b \in 0..Len(e[1][f].content) :
    AnalysisIn(e, f, readable, b).raised

Phase ==
  CASE status = "scanning"                  -> "scanning"
    [] status \in {"built", "summarized"}   -> "complete"
    [] status = "aborted"                   -> "stopped"

Abstract == INSTANCE ScanSpec
              WITH Langs <- Languages, env <- <<tree, grammar>>,
                   scanned <- Processed,
                   edges <- [l \in Languages |-> graphs[l].edges],
                   tally <- counts, phase <- Phase,
                   Candidate <- CandidateIn, LangOf <- LangIn,
                   Results <- ResultsIn, MayFail <- MayFailIn

\* The loop scans each candidate once, in whatever order rglob yields it,
\* and adds exactly what extraction returned; it completes only when every
\* candidate is scanned and stops only on a file whose analysis raises.
ImplementsScanSpec == Abstract!Spec

\* Section 7: no fatal error originates inside the core for a per-file
\* problem; the run always completes.
NoAbort == status # "aborted"

=============================================================================
