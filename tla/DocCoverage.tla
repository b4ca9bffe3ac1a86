---------------------------- MODULE DocCoverage ----------------------------
(***************************************************************************)
(* src/tools/documentation_coverage.py: main scans the directories given  *)
(* on the command line with rglob, adds up the documented and the          *)
(* non-empty lines of every source or documentation file, writes the       *)
(* coverage and fails when it is below the threshold.                      *)
(*                                                                         *)
(* A file's content is the sequence of its lines, each abstracted to the   *)
(* kind that decides both what the three COMMENT_PATTERNS match and what   *)
(* the line is in C: a "///" line, a "/**" opener, a "/*" opener, a line   *)
(* starting with "*" inside a comment ("star") or closing it ("close"), a  *)
(* statement starting with "*" (a dereference, "deref"), other code, or a  *)
(* blank line.  rglob yields every file below the directory in an order    *)
(* the file system chooses, and nothing for a directory that does not      *)
(* exist.                                                                  *)
(***************************************************************************)
EXTENDS Naturals, Sequences, FiniteSets

CONSTANTS
  Dirs,       \* directories that can be named on the command line
  Files,      \* the files below them
  Below(_),   \* Below(d): the files rglob(d) yields
  Suffix(_),  \* the suffix of a file
  Contents,   \* the contents a file may have (sequences of line kinds)
  Threshold   \* --threshold, a percentage

ASSUME ThresholdAssumption == Threshold \in 0..100

LineKinds == {"triple", "docOpen", "plainOpen", "star", "close", "deref", "code", "blank"}

\* The suffixes scan_directories measures.
Measured == {".h", ".hpp", ".c", ".cpp", ".md", ".rst"}

\* COMMENT_PATTERNS on the stripped line: ^\s*///, ^\s*/\*\*, ^\s*\*.
MatchesPattern(kind) == kind \in {"triple", "docOpen", "star", "close", "deref"}

\* count_documented_lines: (documented, total) over the non-empty lines.
DocumentedLines(c) == Cardinality({i \in 1..Len(c) : MatchesPattern(c[i])})

NonEmptyLines(c) == Cardinality({i \in 1..Len(c) : c[i] # "blank"})

\* The gate: coverage < args.threshold, where scan_directories returns 100.0
\* for no lines and 100 * d / t otherwise (exact at these sizes).
BelowThresholdAtOrUnder(d, t) ==
  IF t = 0 THEN 100 <= Threshold ELSE 100 * d <= Threshold * t

BelowThreshold(d, t) ==
  IF t = 0 THEN 100 < Threshold ELSE 100 * d < Threshold * t

-----------------------------------------------------------------------------
VARIABLES
  args,        \* args.paths
  content,     \* the content of each file
  k,           \* the index of the directory being scanned
  pending,     \* the files rglob has still to yield for args[k]
  scanned,     \* the files measured so far, in order (with repetitions)
  documented,  \* documented_total
  lines,       \* line_total
  status       \* "scanning", "passed" or "failed" (SystemExit(1))

vars == <<args, content, k, pending, scanned, documented, lines, status>>

Init ==
  /\ args \in {<<d>> : d \in Dirs} \cup {<<d, e>> : d, e \in Dirs}
  /\ content \in [Files -> Contents]
  /\ k = 0
  /\ pending = {}
  /\ scanned = <<>>
  /\ documented = 0
  /\ lines = 0
  /\ status = "scanning"

\* for directory in directories: path in directory.rglob("*")
NextDirectory ==
  /\ status = "scanning" /\ pending = {} /\ k < Len(args)
  /\ k' = k + 1
  /\ pending' = Below(args[k + 1])
  /\ UNCHANGED <<args, content, scanned, documented, lines, status>>

\* A file with a measured suffix: count_documented_lines, then the sums.
MeasureFile ==
  /\ status = "scanning"
  /\ \E f \in pending :
       /\ Suffix(f) \in Measured
       /\ documented' = documented + DocumentedLines(content[f])
       /\ lines' = lines + NonEmptyLines(content[f])
       /\ scanned' = Append(scanned, f)
       /\ pending' = pending \ {f}
  /\ UNCHANGED <<args, content, k, status>>

\* Any other file.
SkipFile ==
  /\ status = "scanning"
  /\ \E f \in pending :
       /\ Suffix(f) \notin Measured
       /\ pending' = pending \ {f}
  /\ UNCHANGED <<args, content, k, scanned, documented, lines, status>>

\* The report is written and the coverage compared with the threshold.
Gate ==
  /\ status = "scanning" /\ pending = {} /\ k = Len(args)
  /\ status' = IF BelowThreshold(documented, lines) THEN "failed" ELSE "passed"
  /\ UNCHANGED <<args, content, k, pending, scanned, documented, lines>>

Next == NextDirectory \/ MeasureFile \/ SkipFile \/ Gate

Spec == Init /\ [][Next]_vars

-----------------------------------------------------------------------------
\* The sum of Op over the contents of the files measured so far.
ScannedSum(Op(_)) ==
  LET sum[i \in 0..Len(scanned)] ==
        IF i = 0 THEN 0 ELSE sum[i - 1] + Op(content[scanned[i]])
  IN  sum[Len(scanned)]

\* The gate fails exactly when the documented lines of the files measured
\* are below Threshold percent of their non-empty lines, and only once every
\* directory has been scanned; an empty measurement passes.
GateMatchesCoverage ==
  /\ status = "failed" =>
        /\ k = Len(args) /\ pending = {}
        /\ 100 * ScannedSum(DocumentedLines) < Threshold * ScannedSum(NonEmptyLines)
  /\ status = "passed" =>
        ~(100 * ScannedSum(DocumentedLines) < Threshold * ScannedSum(NonEmptyLines))

=============================================================================
