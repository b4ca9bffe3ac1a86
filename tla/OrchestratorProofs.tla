------------------------- MODULE OrchestratorProofs -------------------------
(***************************************************************************)
(* Proofs about the Extraction Orchestrator model, for every tree, every   *)
(* set of files and references and every omit set.                         *)
(***************************************************************************)
EXTENDS Orchestrator, FiniteSetTheorems, TLAPS

(***************************************************************************)
(* Lemmas about the extraction operators.                                  *)
(***************************************************************************)

\* Whatever the grammar, the read and the decode do, analyze_file returns
\* only reference strings that occur in the file's content.
LEMMA AnalyzeFileRefs ==
  ASSUME NEW suffix, NEW content \in Seq(Construct), NEW g, NEW readable,
         NEW badAt
  PROVE  AnalyzeFile(suffix, content, g, readable, badAt).refs
           \subseteq ContentRefs(content)
<1> DEFINE lang == DetectLanguage(suffix)
<1>1. \A t \in DOMAIN RegexForms : RegexRefs(t, content) \subseteq ContentRefs(content)
  BY DEF RegexRefs, ContentRefs
<1>2. \A t \in DOMAIN QueryForms, k \in Int :
        CapturedBefore(t, content, k) \subseteq ContentRefs(content)
  BY DEF CapturedBefore, CaptureIndices, ContentRefs
<1>3. QueryC(content, g, badAt).refs \subseteq ContentRefs(content)
  BY <1>1, <1>2 DEF QueryC, Raised, Returned, RegexForms, QueryForms
<1>4. \A t \in {"python", "bash", "lua", "perl"} :
        QueryGuarded(t, content, g, badAt).refs \subseteq ContentRefs(content)
  <2> SUFFICES ASSUME NEW t \in {"python", "bash", "lua", "perl"}
               PROVE  QueryGuarded(t, content, g, badAt).refs
                        \subseteq ContentRefs(content)
    OBVIOUS
  <2>1. RegexRefs(t, content) \subseteq ContentRefs(content)
    BY <1>1 DEF RegexForms
  <2>2. \A k \in Int : CapturedBefore(t, content, k) \subseteq ContentRefs(content)
    BY <1>2 DEF QueryForms
  <2>3. badAt \in CaptureIndices(t, content) => badAt \in Int
    BY DEF CaptureIndices
  <2>4. Len(content) + 1 \in Int
    OBVIOUS
  <2>. QED
    BY <2>1, <2>2, <2>3, <2>4 DEF QueryGuarded, Raised, Returned
<1>5. lang \in Languages \cup {NoLanguage}
  BY DEF DetectLanguage, LANGUAGE_MAP, Languages, NoLanguage
<1>6. lang \in QueryDispatchDomain /\ Strategy(lang) # "c"
        => Strategy(lang) \in {"python", "bash", "lua", "perl"}
  BY <1>5 DEF Strategy, Languages, QueryDispatchDomain, NoLanguage
<1>7. RegexRefs("asm", content) \subseteq ContentRefs(content)
  BY <1>1 DEF RegexForms
<1>. QED
  BY <1>3, <1>4, <1>6, <1>7 DEF AnalyzeFile, Raised, Returned

\* The strings of a content are references.
LEMMA ContentRefsType ==
  ASSUME NEW content \in Seq(Construct)
  PROVE  ContentRefs(content) \subseteq Refs
<1> SUFFICES ASSUME NEW i \in 1..Len(content) PROVE content[i].ref \in Refs
  BY DEF ContentRefs
<1>1. content[i] \in Construct
  OBVIOUS
<1>. QED
  BY <1>1 DEF Construct

\* DetectLanguage yields a language of Languages or NoLanguage.
LEMMA DetectLanguageType ==
  ASSUME NEW suffix
  PROVE  DetectLanguage(suffix) \in Languages \cup {NoLanguage}
BY DEF DetectLanguage, LANGUAGE_MAP, Languages, NoLanguage

\* add keeps a graph a graph.
LEMMA AddType ==
  ASSUME NEW g \in Graph, NEW s \in Files, NEW T \in SUBSET Refs
  PROVE  Add(g, s, T) \in Graph
BY DEF Add, Graph

(***************************************************************************)
(* Type correctness.                                                       *)
(***************************************************************************)

\* rglob yields every file of the tree once: an initial walk is an
\* injective sequence of files.
LEMMA OrderingsDistinct ==
  ASSUME NEW w \in Orderings
  PROVE  w \in Seq(Files) /\ IsInjective(w) /\ Range(w) = Files
<1>1. Cardinality(Files) \in Nat
  BY OrchestratorAssumption, FS_CardinalityType
<1>2. IsFiniteSet(1..Cardinality(Files)) /\ Cardinality(1..Cardinality(Files)) = Cardinality(Files)
  BY <1>1, FS_Interval
<1>3. w \in Surjection(1..Cardinality(Files), Files)
  BY DEF Orderings, Surjection, Range
<1>4. w \in Injection(1..Cardinality(Files), Files)
  BY <1>2, <1>3, FS_SurjSameCardinalityImpliesInj
<1>. QED
  BY <1>1, <1>4 DEF Orderings, Injection, IsInjective

\* The initial states have the types of TypeOK.
LEMMA TypeInit == Init => TypeOK
<1> SUFFICES ASSUME Init PROVE TypeOK
  OBVIOUS
<1>1. walk \in Seq(Files)
  BY OrderingsDistinct DEF Init
<1>2. EmptyGraph \in Graph
  BY DEF EmptyGraph, Graph
<1>. QED
  BY <1>1, <1>2 DEF Init, TypeOK

\* Every step keeps the types of TypeOK.
LEMMA TypeStep == TypeOK /\ [Next]_vars => TypeOK'
<1> SUFFICES ASSUME TypeOK, [Next]_vars PROVE TypeOK'
  OBVIOUS
<1>1. CASE SkipOmitted
  BY <1>1 DEF SkipOmitted, TypeOK
<1>2. CASE SkipUnsupported
  BY <1>2 DEF SkipUnsupported, TypeOK
<1>3. CASE VisitFile
  <2> DEFINE f == Head(walk)
  <2>1. f \in Files /\ Lang(f) \in Languages
    <3>1. f \in Files
      BY <1>3 DEF VisitFile, TypeOK
    <3>2. Lang(f) # NoLanguage
      BY <1>3 DEF VisitFile, Candidates
    <3>. QED
      BY <3>1, <3>2, DetectLanguageType DEF Lang
  <2>2. tree[f].content \in Seq(Construct)
    BY <2>1, OrchestratorAssumption DEF TypeOK, FileRecord
  <2>3. PICK readable \in BOOLEAN, badAt \in 0..Len(tree[f].content) :
          LET r == Analysis(f, readable, badAt) IN
          /\ graphs' = [graphs EXCEPT ![Lang(f)] = Add(@, f, r.refs)]
          /\ present' = present \cup {Lang(f)}
          /\ counts' = [counts EXCEPT ![Lang(f)] = @ + 1]
          /\ walk' = Tail(walk)
    BY <1>3 DEF VisitFile
  <2>4. Analysis(f, readable, badAt).refs \subseteq Refs
    BY <2>2, AnalyzeFileRefs, ContentRefsType DEF Analysis
  <2>5. Add(graphs[Lang(f)], f, Analysis(f, readable, badAt).refs) \in Graph
    BY <2>1, <2>4, AddType DEF TypeOK
  <2>. QED
    BY <1>3, <2>1, <2>3, <2>5 DEF VisitFile, TypeOK
<1>4. CASE AbortVisit
  BY <1>4 DEF AbortVisit, TypeOK
<1>5. CASE Finish
  BY <1>5 DEF Finish, TypeOK
<1>6. CASE Summarize
  BY <1>6 DEF Summarize, TypeOK
<1>7. CASE UNCHANGED vars
  BY <1>7 DEF vars, TypeOK
<1>. QED
  BY <1>1, <1>2, <1>3, <1>4, <1>5, <1>6, <1>7 DEF Next

\* Every reachable state of the scan has the types of TypeOK: the loop only
\* takes entries rglob yielded, and every graph gets edges to references.
THEOREM TypeCorrect == Spec => []TypeOK
BY TypeInit, TypeStep, PTL DEF Spec

(***************************************************************************)
(* The file counts.  CountsMatchScan alone is not inductive: a step that   *)
(* takes an entry off the walk adds it to Processed only if no earlier     *)
(* step took the same file, so the walk must hold distinct files.  The     *)
(* inductive invariant is CountsInv.                                       *)
(***************************************************************************)
CountsInv == TypeOK /\ WalkDistinct /\ CountsMatchScan

\* Taking the head off an injective sequence removes exactly the head
\* from its range and keeps it injective.
LEMMA TailRange ==
  ASSUME NEW S, NEW s \in Seq(S), s # <<>>, IsInjective(s)
  PROVE  /\ Range(Tail(s)) = Range(s) \ {Head(s)}
         /\ IsInjective(Tail(s))
<1>1. Len(s) \in Nat /\ Len(s) >= 1
  OBVIOUS
<1>2. Len(Tail(s)) = Len(s) - 1 /\ \A i \in 1..Len(s) - 1 : Tail(s)[i] = s[i + 1]
  BY <1>1
<1>3. \A i \in 1..Len(s) : s[i] = Head(s) => i = 1
  BY <1>1 DEF IsInjective
<1>4. Range(Tail(s)) = Range(s) \ {Head(s)}
  <2>1. DOMAIN Tail(s) = 1..Len(s) - 1 /\ DOMAIN s = 1..Len(s)
    BY <1>1, <1>2
  <2>2. ASSUME NEW i \in 1..Len(s) - 1 PROVE Tail(s)[i] \in Range(s) \ {Head(s)}
    <3>1. i + 1 \in 1..Len(s) /\ i + 1 # 1
      BY <1>1
    <3>. QED
      BY <1>2, <1>3, <2>1, <3>1 DEF Range
  <2>3. ASSUME NEW j \in 1..Len(s), s[j] # Head(s) PROVE s[j] \in Range(Tail(s))
    <3>1. j # 1 /\ j - 1 \in 1..Len(s) - 1
      BY <1>1, <2>3
    <3>2. Tail(s)[j - 1] = s[j]
      BY <1>2, <3>1
    <3>. QED
      BY <2>1, <3>1, <3>2 DEF Range
  <2>. QED
    BY <2>1, <2>2, <2>3 DEF Range
<1>5. IsInjective(Tail(s))
  BY <1>1, <1>2 DEF IsInjective
<1>. QED
  BY <1>4, <1>5

\* A step that takes the head f off the walk, leaving the tree alone,
\* adds f to Processed exactly when f is a candidate, and f was not
\* processed before.
LEMMA ProcessedTail ==
  ASSUME TypeOK, WalkDistinct, walk # <<>>, walk' = Tail(walk), tree' = tree
  PROVE  /\ Head(walk) \notin Processed
         /\ Processed' = IF Head(walk) \in Candidates
                         THEN Processed \cup {Head(walk)} ELSE Processed
         /\ Candidates' = Candidates
<1>1. Range(walk') = Range(walk) \ {Head(walk)}
  BY TailRange DEF TypeOK, WalkDistinct
<1>2. Head(walk) \in Range(walk) /\ Head(walk) \in Files
  BY DEF TypeOK, Range
<1>3. Candidates' = Candidates
  BY DEF Candidates, Omitted, Lang
<1>. QED
  BY <1>1, <1>2, <1>3 DEF Processed, Consumed

\* The files of language l among a subset of the files are finitely many.
LEMMA LangSetFinite ==
  ASSUME NEW P \in SUBSET Files, NEW l
  PROVE  IsFiniteSet({f \in P : Lang(f) = l})
BY OrchestratorAssumption, FS_Subset

\* The steps that leave the walk, the tree and the counts alone keep
\* CountsInv's second and third conjuncts.
LEMMA CountsFrame ==
  ASSUME CountsInv, TypeOK', UNCHANGED <<tree, walk, counts>>
  PROVE  CountsInv'
BY DEF CountsInv, WalkDistinct, CountsMatchScan, Processed, Consumed,
       Candidates, Omitted, Lang

LEMMA CountsInit == Init => CountsInv
<1> SUFFICES ASSUME Init PROVE CountsInv
  OBVIOUS
<1>1. IsInjective(walk) /\ Range(walk) = Files
  BY OrderingsDistinct DEF Init
<1>2. Processed = {}
  BY <1>1 DEF Processed, Consumed
<1>3. \A l \in Languages : Cardinality({f \in Processed : Lang(f) = l}) = 0
  BY <1>2, FS_EmptySet
<1>. QED
  BY <1>1, <1>3, TypeInit DEF CountsInv, WalkDistinct, CountsMatchScan, Init

LEMMA CountsStep == CountsInv /\ [Next]_vars => CountsInv'
<1> SUFFICES ASSUME CountsInv, [Next]_vars PROVE CountsInv'
  OBVIOUS
<1>1. TypeOK'
  BY TypeStep DEF CountsInv
<1>2. ASSUME walk # <<>>, walk' = Tail(walk), tree' = tree
      PROVE  WalkDistinct'
  BY <1>2, TailRange DEF CountsInv, TypeOK, WalkDistinct
<1>3. CASE SkipOmitted \/ SkipUnsupported
  <2>1. walk # <<>> /\ walk' = Tail(walk) /\ tree' = tree /\ counts' = counts
    BY <1>3 DEF SkipOmitted, SkipUnsupported
  <2>2. Head(walk) \notin Candidates
    BY <1>3 DEF SkipOmitted, SkipUnsupported, Candidates
  <2>3. Processed' = Processed
    BY <2>1, <2>2, ProcessedTail DEF CountsInv
  <2>4. CountsMatchScan'
    BY <2>1, <2>3 DEF CountsInv, CountsMatchScan, Lang
  <2>. QED
    BY <1>1, <1>2, <2>1, <2>4 DEF CountsInv
<1>4. CASE VisitFile
  <2> DEFINE f == Head(walk)
             CountOf(P, l) == Cardinality({x \in P : Lang(x) = l})
  <2>1. walk # <<>> /\ walk' = Tail(walk) /\ tree' = tree /\ f \in Candidates
        /\ counts' = [counts EXCEPT ![Lang(f)] = @ + 1]
    BY <1>4 DEF VisitFile
  <2>2. f \notin Processed /\ Processed' = Processed \cup {f}
    BY <2>1, ProcessedTail DEF CountsInv
  <2>3. Processed \subseteq Files /\ f \in Files
    BY <2>1 DEF Processed, Consumed, CountsInv, TypeOK
  <2>4. \A l \in Languages : CountOf(Processed', l)
                             = IF l = Lang(f) THEN CountOf(Processed, l) + 1
                               ELSE CountOf(Processed, l)
    <3> SUFFICES ASSUME NEW l \in Languages
                 PROVE  CountOf(Processed', l)
                        = IF l = Lang(f) THEN CountOf(Processed, l) + 1
                          ELSE CountOf(Processed, l)
      OBVIOUS
    <3>1. CASE l = Lang(f)
      <4>1. {x \in Processed' : Lang(x) = l} = {x \in Processed : Lang(x) = l} \cup {f}
        BY <2>2, <3>1
      <4>2. IsFiniteSet({x \in Processed : Lang(x) = l})
        BY <2>3, LangSetFinite
      <4>3. f \notin {x \in Processed : Lang(x) = l}
        BY <2>2
      <4>. QED
        BY <3>1, <4>1, <4>2, <4>3, FS_AddElement
    <3>2. CASE l # Lang(f)
      BY <2>2, <3>2
    <3>. QED
      BY <3>1, <3>2
  <2>5. Lang(f) \in Languages
    BY <2>1, <2>3, DetectLanguageType DEF Candidates, Lang
  <2>6. CountsMatchScan'
    <3>1. \A l \in Languages : CountOf(Processed', l) = CountOf(Processed, l)'
      BY <2>1 DEF Lang
    <3>. QED
      BY <2>1, <2>4, <2>5, <3>1 DEF CountsInv, CountsMatchScan, TypeOK
  <2>. QED
    BY <1>1, <1>2, <2>1, <2>6 DEF CountsInv
<1>5. CASE AbortVisit \/ Finish \/ Summarize \/ UNCHANGED vars
  BY <1>1, <1>5, CountsFrame DEF AbortVisit, Finish, Summarize, vars
<1>. QED
  BY <1>3, <1>4, <1>5 DEF Next

\* Every file the loop has analyzed is counted once under its language,
\* whatever the order of the walk and whether or not the file had any
\* dependency: language_counts[l] += 1 runs once per analyzed file.
THEOREM CountsCorrect == Spec => []CountsMatchScan
<1>1. CountsInv => CountsMatchScan
  BY DEF CountsInv
<1>. QED
  BY CountsInit, CountsStep, <1>1, PTL DEF Spec

(***************************************************************************)
(* The per-language summary.  summarize_graphs runs once, after the loop  *)
(* has taken every rglob entry, on the graphs and counts the loop built;   *)
(* then every candidate has been analyzed, and the summary's languages and *)
(* file counts are those of the candidates.  The inductive invariant adds  *)
(* to CountsInv the keys of graphs and these two facts about the phases.   *)
(***************************************************************************)
SummaryPhase ==
  /\ status \in {"built", "summarized"} => walk = <<>>
  /\ status = "summarized" => summary = SummarizeGraphs(graphs, counts, present)

SummaryInv == CountsInv /\ PresentLanguages /\ SummaryPhase

LEMMA SummaryInit == Init => SummaryInv
<1> SUFFICES ASSUME Init PROVE SummaryInv
  OBVIOUS
<1>1. Processed = {}
  BY OrderingsDistinct DEF Init, Processed, Consumed
<1>. QED
  BY <1>1, CountsInit DEF Init, SummaryInv, PresentLanguages, SummaryPhase

LEMMA SummaryStep == SummaryInv /\ [Next]_vars => SummaryInv'
<1> SUFFICES ASSUME SummaryInv, [Next]_vars PROVE SummaryInv'
  OBVIOUS
<1>1. CountsInv'
  BY CountsStep DEF SummaryInv
<1>2. CASE SkipOmitted \/ SkipUnsupported
  <2>1. walk # <<>> /\ walk' = Tail(walk) /\ tree' = tree /\ present' = present
        /\ status' = status /\ status = "scanning"
    BY <1>2 DEF SkipOmitted, SkipUnsupported
  <2>2. Head(walk) \notin Candidates
    BY <1>2 DEF SkipOmitted, SkipUnsupported, Candidates
  <2>3. Processed' = Processed
    BY <2>1, <2>2, ProcessedTail DEF SummaryInv, CountsInv
  <2>. QED
    BY <1>1, <2>1, <2>3 DEF SummaryInv, PresentLanguages, SummaryPhase, Lang
<1>3. CASE VisitFile
  <2> DEFINE f == Head(walk)
  <2>1. walk # <<>> /\ walk' = Tail(walk) /\ tree' = tree /\ f \in Candidates
        /\ present' = present \cup {Lang(f)}
        /\ status' = status /\ status = "scanning"
    BY <1>3 DEF VisitFile
  <2>2. Processed' = Processed \cup {f}
    BY <2>1, ProcessedTail DEF SummaryInv, CountsInv
  <2>3. PresentLanguages'
    BY <2>1, <2>2 DEF SummaryInv, PresentLanguages, Lang
  <2>. QED
    BY <1>1, <2>1, <2>3 DEF SummaryInv, SummaryPhase
<1>4. CASE AbortVisit
  BY <1>1, <1>4 DEF AbortVisit, SummaryInv, PresentLanguages, SummaryPhase,
                    Processed, Consumed, Candidates, Omitted, Lang
<1>5. CASE Finish
  BY <1>1, <1>5 DEF Finish, SummaryInv, PresentLanguages, SummaryPhase,
                    Processed, Consumed, Candidates, Omitted, Lang
<1>6. CASE Summarize
  BY <1>1, <1>6 DEF Summarize, SummaryInv, PresentLanguages, SummaryPhase,
                    Processed, Consumed, Candidates, Omitted, Lang
<1>7. CASE UNCHANGED vars
  BY <1>1, <1>7 DEF vars, SummaryInv, PresentLanguages, SummaryPhase,
                    Processed, Consumed, Candidates, Omitted, Lang
<1>. QED
  BY <1>2, <1>3, <1>4, <1>5, <1>6, <1>7 DEF Next

\* Once the walk is over, every candidate has been analyzed.
LEMMA WalkOverProcessed ==
  ASSUME walk = <<>>
  PROVE  Processed = Candidates
BY DEF Processed, Consumed, Candidates, Range

\* For every tree, omit set and rglob order: once summarize_graphs has run,
\* its languages are exactly those of the files not under an omitted
\* directory with a supported suffix, the language total counts them, and
\* each language's file count is the number of such files it has.
THEOREM SummaryLanguagesCorrect == Spec => []SummaryLanguagesMatchTree
<1>1. SummaryInv => SummaryLanguagesMatchTree
  <2> SUFFICES ASSUME SummaryInv, status = "summarized"
               PROVE  SummaryLanguagesMatchTree
    BY DEF SummaryLanguagesMatchTree
  <2>1. Processed = Candidates
    BY WalkOverProcessed DEF SummaryInv, SummaryPhase
  <2>2. summary = SummarizeGraphs(graphs, counts, present)
    BY DEF SummaryInv, SummaryPhase
  <2>3. present = {Lang(f) : f \in Candidates} /\ present \subseteq Languages
    BY <2>1 DEF SummaryInv, PresentLanguages, CountsInv, TypeOK
  <2>4. \A l \in Languages : counts[l] = Cardinality({f \in Candidates : Lang(f) = l})
    BY <2>1 DEF SummaryInv, CountsInv, CountsMatchScan
  <2>. QED
    BY <2>2, <2>3, <2>4 DEF SummaryLanguagesMatchTree, SummarizeGraphs
<1>. QED
  BY SummaryInit, SummaryStep, <1>1, PTL DEF Spec

=============================================================================
