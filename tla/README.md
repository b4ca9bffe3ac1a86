# Formal models of the XINIM repository tooling

The Python code under `src/` is a set of repository tools. The richest one is
`src/scripts/generate_ast_dependencies.py`, the AST dependency-graph
generator described in `spec.md`. It walks a source tree, classifies each file
by suffix, extracts includes/imports/sources/requires/uses with a tree-sitter
query and a regex fallback, builds one `DependencyGraph` per language, and
writes a summary with per-language counts and the top emitters. This project
models that program in TLA+, checks it with TLC and proves its key invariants
with TLAPS. Five more tools have modules: the chaos runner, which has two
threads and a child process; the Z3 verification suite's report; the
migration dashboard; the documentation coverage gate; and the repository
inventory. The other tools are inventoried at the end.

## Parts of the generator and how they interact

| Part | Code | Module | State / operations |
|------|------|--------|--------------------|
| Language classifier | `LANGUAGE_MAP`, `detect_language` (20-31, 209-212) | `Extraction` | pure: suffix -> language or `NoLanguage` |
| Extraction strategies | `_query_*` (72-161), `_regex_*` (164-196), `QUERY_DISPATCH`, `analyze_file` (199-229) | `Extraction` | pure: `AnalyzeFile(suffix, content, grammar, readable, badAt)` returns `[raised, refs]` |
| DependencyGraph | `add`, `edge_count` (37-60) | `DepGraph` | a graph is `[edges, keys]`: the defaultdict plus its key insertion order |
| Orchestrator | `iter_repository_files`, `build_dependency_graph`, `main` (232-316) | `Orchestrator` | variables `tree, grammar, walk, graphs, present, counts, status, summary` |
| Summary aggregator | `summarize_graphs` (259-278) | `Summary` | pure: `SummarizeGraphs(graphs, counts, present)` |
| Abstract scan | spec section 4.4 | `ScanSpec` | `scanned, edges, tally, phase` over an environment `env` |

**Content abstraction.** A file's content is the sequence of the constructs
that either extraction tier reacts to. Each construct is a record
`[form, ref]`:

- `form` is one of `c_include`, `asm_include`, `py_import`, `py_import_as`,
  `sh_source`, `sh_command`, `lua_require` or `pl_use`.
- `ref` is the referenced string after `_strip_quotes`. It is a model value,
  and `EmptyRef` stands for `""`.

The forms each query captures and each regex matches were read off the query
strings and patterns. Two facts come from that reading:

- The Python query wants a `dotted_name` child of `import_statement`, so it
  does not capture `import x as y` (that child is an `aliased_import`). Only
  the regex captures it.
- The Bash query's predicate `"source|\\."` in Python source is the
  tree-sitter string `source|\.`. Once tree-sitter unescapes it, that is the
  regex `source|.`, which matches any command name.

**Environment.** The model treats three things as nondeterministic inputs:

- **The grammar bundle.** Each language's grammar is `ok`, `missing`
  (`get_language`/`get_parser` raise) or `badQuery` (`language.query` raises).
- **Readability.** Whether `read_bytes` succeeds.
- **Decoding.** `badAt` is the index of the first capture whose bytes are not
  UTF-8, so its `.decode()` raises.

The error paths follow the code exactly:

- The C query has no `try`, so any of these failures raises out of
  `analyze_file` and out of the loop.
- The other four queries catch the failure inside their `try`. What the loop
  collected before the failure is kept, and the regex result is added to it.

A query's captures are the positions of the content whose form it captures
(`CaptureIndices`). The references collected before a failing decode are the
references of the captures at earlier positions (`CapturedBefore`). These are
set comprehensions rather than `SelectSeq`, so that the proofs can reason
about them.

**Orchestrator actions.** Each loop outcome is one action. `walk` is the
sequence of rglob entries still to come. Init picks any order of the files,
because rglob follows directory order, not sorted order.

| Action | Code |
|--------|------|
| `SkipOmitted` | an entry under an omitted directory |
| `SkipUnsupported` | `analyze_file` returned `None` |
| `VisitFile` | `analyze_file` returned, then `graphs[l].add`, then `language_counts[l] += 1`; `add` creates the key of the `graphs` defaultdict, recorded in `present` |
| `AbortVisit` | `analyze_file` raised, and nothing catches it |
| `Finish` | the loop ended |
| `Summarize` | `main` calls `summarize_graphs` |

Writing the JSON files is I/O and is not modelled.

**Top emitters.** `sorted(..., key=degree, reverse=True)` is stable, so the
key at dict position `i` lands at position `1 + #{higher degree} + #{earlier
keys of equal degree}` (`SortedPosition`). `[:10]` is the constant `TopN`.

## Runs

All runs use `MCOrchestrator` with three files `{f1, f2, f3}`, references
`{r1, r2, e0}` (`e0` is the empty string) and `TopN = 2`. Init chooses the
whole tree from a small set of entries (`Entries`), the grammar state of each
used language and the walk order, so one run covers every tree of three files
drawn from those entries.

| Run | cfg | Expect | What it shows |
|-----|-----|--------|---------------|
| `orchestrator` | `MCOrchestrator.cfg` | pass | The counts, the graphs and the summary agree with the tree in every walk order. The top emitters are ranked correctly. The loop refines `ScanSpec`. |
| `abort_on_file_error` | `MCOrchestratorAbort.cfg` | violation | One per-file error ends the scan. |
| `bash_any_command` | `MCOrchestratorShell.cfg` | violation | `echo foo` in a `.sh` file becomes an edge. |

### Entries of the main run

- **Two `.c` files.** One has a duplicate `#include`. The other sits under
  `build/`, so the run exercises omission.
- **A `.cpp` file whose only include is `#include ""`.** The file is counted
  but is never a key.
- **A `.py` file** with an `import` and an `import ... as`.
- **A `.sh` file** with a `source` line.
- **A `.txt` file**, which has no supported language.

This gives enough to exercise the following cases:

- ties and strict order among the top emitters;
- fewer sources than `TopN`, and more sources than `TopN`;
- several files of one language;
- every skip path, both error paths and the partial Python fallback.

The deadlock check is off because the program really stops: after
`Summarize`, and after `AbortVisit`.

### Properties of the main run

- `CountsMatchScan`: `language_counts[l]` is the number of analyzed files of
  `l`, whether or not they had references.
- `GraphEdgesFromScan`: edges exist only for analyzed files, only in their
  own language's graph, and only to non-empty strings from the file.
- `KeysAreSources`: the dict keys are distinct and are exactly the sources
  with at least one edge.
- `SummaryMatchesTree`: the totals and the per-language file counts depend on
  the tree alone, not on the walk order. Its per-language part, without the
  file total, is named `SummaryLanguagesMatchTree`.
- `TopEmittersRanked`: the top-emitter list is the first `min(TopN, #sources)`
  sources in descending degree, with ties in insertion order. Every source
  left out ranks below the last one listed.
- `ImplementsScanSpec`: the refinement. The concrete state maps to the
  abstract one as follows:
  - `scanned` is the processed files;
  - `edges` is the graphs' edge functions;
  - `tally` is `counts`;
  - `phase` is `complete` for `built` and `summarized`, and `stopped` for
    `aborted`.

Each property has a mutant that TLC kills. Each mutant is a plausible code
bug, listed in `PROJECT.json`.

## Findings

- **A per-file error aborts the scan.** `read_bytes`, the grammar lookups and
  the whole C query are unguarded, which contradicts spec section 7 (line 222).
- **Any shell command becomes an edge.** The Bash query's `#match?` accepts
  every command name (line 115).

## The chaos runner

`src/scripts/testing/chaos_runner.py` starts a command and waits for it in
`process.wait`. Meanwhile a daemon thread runs `_inject`. Each iteration of
that thread does the following:

1. `poll()` the child;
2. sleep;
3. maybe send `SIGSTOP`, count the perturbation, nap, and send `SIGCONT`.

`run` then calls `join(timeout=0.1)` and builds a `ChaosResult`. `main`
returns, and the interpreter's exit kills the daemon thread wherever it is.

`ChaosRunner` models the two threads and the environment. Its variables are:

- `child`: running, stopped, zombie or reaped;
- `other`: a later holder of the reused pid;
- `returncode`, `perturbations` and `reported`;
- `inj` and `main`: each thread's place.

The actions follow the code:

- **Injector:** `InjPoll`, `InjSkip`/`InjDraw` (the `rng` draw after the
  sleep), `InjStop`, `InjCount`, `InjNap` and `InjCont`.
- **Main thread:** `MainWait`, `MainReap`, `MainJoin`, `MainReport` and
  `MainExit`.
- **Environment:** `ChildExit` and `PidReuse`.

`Signal` is `os.kill(process.pid, ...)`:

- It reaches the child while the child is not reaped. A zombie ignores it.
- Otherwise it reaches whichever process holds the pid now.
- If no process holds the pid, it raises and ends the thread.

Popen's waitpid lock is modelled: while the main thread is inside `wait`,
`poll()` returns `None`. Either way, a `poll()` that returns `None` says
nothing about the child a `time.sleep(interval)` later (line 52), when
`os.kill` (line 54) is sent. That is why the injector can signal a child that
has already exited. `MaxStops` bounds the number of `SIGSTOP`s the draw may choose.
The bound is 2 in `MCChaosRunner`, which is enough for a stop before and a stop
after a reuse of the pid.

**Fairness.** Each of the two threads gets weak fairness: the scheduler runs a
runnable thread. Child exit gets strong fairness: the command ends if it runs
infinitely often, and the injector keeps stopping it, so its exit is enabled
only intermittently. Pid reuse is up to the kernel and is not assumed.

| Run | cfg | Expect | What it shows |
|-----|-----|--------|---------------|
| `chaos` | `MCChaosRunner.cfg` | pass | `StoppedOnlyInPerturbation`: the child is stopped only between a `SIGSTOP` and the `SIGCONT` of the same iteration. `Termination`: the run always ends. |
| `chaos_foreign_pid` | `MCChaosRunnerForeign.cfg` | violation | A process that reused the child's pid can be left stopped after the runner exits. |
| `chaos_stale_count` | `MCChaosRunnerStale.cfg` | violation | `ReportsIssuedPerturbations`: the reported count can miss a `SIGSTOP` that was sent. |

The foreign-pid trace happens in this order:

1. `poll()` sees the child running, before the main thread has entered
   `wait`, and returns `None`.
2. The injector sleeps `interval` (line 52) and draws a stop. This sleep is
   the window: nothing is checked again before `os.kill` at line 54.
3. The child exits, `wait` reaps it, and `join(timeout=0.1)` returns. With
   the default `interval` of 0.5 s, the join can time out while the
   injector is still in that sleep. The result is printed.
4. The kernel gives the pid to another process, and the injector's
   `SIGSTOP` hits it.
5. The interpreter exits during the `interval/2` nap (line 56), which kills
   the daemon thread before its `SIGCONT`.

TLC's shortest trace fires `InjDraw`, the end of the sleep, before
`MainWait`. The model leaves open when a sleep ends. The same steps with
`InjDraw` after `MainJoin` also reach the violation, and that ordering is the
one the 0.5 s sleep makes likely.

The stale-count trace needs a stronger timing assumption. The injector sends
`SIGSTOP` (line 54) to the exiting child, which is a zombie, so the signal
has no effect, but the code still counts it. Then, before
`self._perturbations += 1` (line 55) runs:

- the main thread reaps the child;
- `join(timeout=0.1)` returns, and `ChaosResult` reads the counter.

Between those two lines there is no sleep, so `join` can only return there
if the injector thread is not scheduled for the whole 0.1 s. That can happen
on a loaded machine. The model abstracts timing, so it allows it. The
docstring promises the number of perturbations issued. The window is narrow,
but nothing in the code closes it.

## The verification suite report

`src/specs/verify_all.py` runs five groups of Z3 queries (twelve in all),
writes a Markdown report and exits 0 when every result "verified".
`VerifyReport` models it as follows:

- **Queries.** Each query is its name and the class of the formula it asserts.
  Every formula of the file is a constraint on uninterpreted functions. Each
  is satisfiable (by the empty relation or a projection) but not valid, so
  each is `contingent`.
- **Z3's answer.** `solver.check()` on a contingent formula may return `sat`,
  or `unknown` if the quantifiers defeat it. The model chooses either for each
  query.
- **Actions.** `RunGroup` is one `verify_*` call plus `extend`. `WriteReport`
  is `generate_report`. `Exit` is `sys.exit`.
- **The report.** It is kept as what it says:
  - the two counts;
  - the sections, matching categories by substring exactly as the loop does;
  - the interpretation (`5*verified >= 4*total` is the code's `>= 0.8`, which
    is exact at these sizes);
  - the failed list.

| Run | cfg | Expect | What it shows |
|-----|-----|--------|---------------|
| `verify_report` | `VerifyReport.cfg` | pass | `OutcomesAgree`: the exit status, the interpretation, the failed list and the counts agree, for every combination of answers. |
| `verify_sat_not_proof` | `VerifyReportProved.cfg` | violation | `is_verified` is `result == sat` for a solver holding the property itself. That shows satisfiability, not validity, so 12/12 "verified" proves nothing. |

## The migration dashboard

`src/tools/migration_dashboard.py` reads the K&R summary and splits its files
by path prefix. For each category it builds a graph: an edge `d -> f` when the
text of `f` names the basename of `d`. It prints the first five of a
topological order, or, on a cycle, of the files sorted by in-degree.

`MigrationDashboard` abstracts each file to a model value. Its path becomes
its category prefix, and its text becomes the set of files it `mentions`.
`nx.topological_sort` may return any topological order, so `Prioritize`
returns the set of possible results, and the action takes any. The empty set
stands for the `TypeError` raised on a cycle (see below). The actions are
`SkipCategory`, `ReadFails` (an unreadable file raises out of the report),
`PrintCategory` and `Finish`. `MCMigrationDashboard` has three files and
`Shown = 2`, so that a list is cut and "... and k more" is printed. Each file
is in `kernel/`, `lib/` or neither, and every `mentions` relation is tried.
`WithPrintout` adds one category's printout to `printed`. It is written out
rather than with the TLC module's `@@` and `:>`, which the prover cannot
expand.

| Run | cfg | Expect | What it shows |
|-----|-----|--------|---------------|
| `dashboard` | `MCMigrationDashboard.cfg` | pass | `DependenciesFirst`: in a category where `topological_sort` succeeds, no printed file's text names a file printed after it. It is stated over `mentions`, what the texts name, not over the graph `prioritize` sorts. A graph built with `add_edge(f, d)` instead of `add_edge(d, f)` (the mutant `DepGraphEdgeReversed`) violates it. |
| `dashboard_dropped_files` | `MCMigrationDashboardCover.cfg` | violation | A file with no dependency edge is not a node of the graph, so it is missing from the priority list, while the count still includes it. |

## The documentation coverage gate

`src/tools/documentation_coverage.py` runs `rglob` over each directory named
on the command line. It counts the lines of the measured files that match
`COMMENT_PATTERNS` and the non-empty lines, and fails when the percentage is
below `--threshold`. `DocCoverage` abstracts a line to its kind: a `///`
line, a `/**` or `/*` opener, a `*` line inside a comment, a closing line, a
dereference statement starting with `*`, other code, or blank. These kinds
decide both what the regexes match and what the line is. `rglob` yields the
files in any order. The gate compares `100 * d < Threshold * t`, which is
exact for the sizes of the model. `MCDocCoverage` has three directories, two
of which overlap, three files, five contents and a threshold of 50.

| Run | cfg | Expect | What it shows |
|-----|-----|--------|---------------|
| `doc_coverage` | `MCDocCoverage.cfg` | pass | `GateMatchesCoverage`: the gate fails exactly when the lines measured are below the threshold, and only after every directory has been scanned. An empty measurement passes. |

## The repository inventory

`src/tools/repo_inventory.py` scans the repository with the recursive
`scan_directory`. It skips hidden and excluded names. `analyze_file`, with
`is_text_file` and `count_lines`, updates `self.stats` and `self.issues` as
side effects, and the nested inventory is returned. `generate_report` then
prints the statistics, the top ten file types, the per-component counts over
`walk_inventory` and the first twenty issues.

`RepoInventory` makes the recursion an explicit stack of frames. Each frame
holds the entries `iterdir` has still to yield, in any order, and the items
built so far. `EnterDir` is the recursive call and `LeaveDir` its return with
`items.append(subdir_info)`. `VisitFile` is all of `analyze_file` in the
code's order:

1. the counters;
2. the duplicate and jargon issues;
3. `stat()` and `count_lines` inside the `try`;
4. the error item when `stat()` fails.

The stats dict's `files_<ext>` keys are kept in insertion order (`extKeys`),
since the stable sort of the file types depends on it. `Report` is the rest
of `generate_report`.

`MCRepoInventory` has a kernel directory with two files, a hidden file and a
broken link; two top-level files; and an excluded `build` directory holding a
file. One file may vanish before `stat()`, one may fail to open, and three may
lack a suffix. `TopTypes = 2` and `MaxIssues = 2` stand for the cuts at 10
and 20.

| Run | cfg | Expect | What it shows |
|-----|-----|--------|---------------|
| `inventory` | `MCRepoInventory.cfg` | pass | `InventoryListsVisibleFiles`: the nested inventory lists each visible file once. `StatsMatchInventory`: the counters agree with it, including files whose `stat()` failed (counted, with no size). |

A directory whose `iterdir` raises `PermissionError` ends the program with a
traceback. The model does not include it, because no state after it can be
checked.

## Fairness

The generator, the verification suite, the dashboard, the coverage gate and
the inventory are sequential. Their walks and loops shrink at every step, so
they terminate without any fairness assumption. These runs set
`CHECK_DEADLOCK FALSE` only because the program really stops at its final
state. The chaos runner's fairness is described above.

## Proofs

Proofs are checked by TLAPS for every value of the constants, under the
assumptions named in the modules:

- `ExtractionAssumption`: `EmptyRef \in Refs`.
- `SummaryAssumption`: `TopN \in Nat \ {0}`.
- `OrchestratorAssumption`: among others, `Files` is finite.
- `MaxStopsAssumption`: `MaxStops \in Nat \ {0}`.
- `ShownAssumption` and `FilesAssumption`: the dashboard prints a positive
  number of entries, and its file list (a JSON array) is finite.

Each invariant is proved the same way. The module states an inductive
invariant `I` and proves `Init => I` and `I /\ [Next]_vars => I'`, with one
case per action. The theorem then follows by `PTL`. Before each proof, TLC
checked `I` as an invariant of the MC instance.

### `OrchestratorProofs`

- **`TypeCorrect` (`Spec => []TypeOK`).** It rests on lemmas about the
  extraction (`AnalyzeFileRefs`: every reference found is in the content) and
  on `OrderingsDistinct`: an ordering of the files is injective, proved with
  `FS_SurjSameCardinalityImpliesInj`.
- **`CountsCorrect` (`Spec => []CountsMatchScan`).** `CountsMatchScan` is not
  inductive by itself. A file popped from the walk must not have been
  processed before, so the inductive invariant `CountsInv` adds `TypeOK` and
  `WalkDistinct`, which says the remaining walk is injective. `TailRange`
  shows that popping the head keeps the walk injective and removes exactly
  the head. `FS_AddElement` then gives the new count.
- **`SummaryLanguagesCorrect` (`Spec => []SummaryLanguagesMatchTree`).** The
  inductive invariant `SummaryInv` adds two facts to `CountsInv`:
  - `PresentLanguages`: the keys of `graphs` are the languages of the
    processed files;
  - `SummaryPhase`: `built` and `summarized` come only after the walk is
    empty, and `summarize_graphs` ran on the final graphs and counts.

  With the walk empty, the processed files are the candidates
  (`WalkOverProcessed`).

### `OrchestratorRefinement`

- **`GraphEdgesCorrect` and `KeysCorrect`.** They prove `GraphEdgesFromScan`
  and `KeysAreSources`. The inductive invariant is `GraphInv`: `TypeOK`,
  `WalkDistinct` and both properties. `WalkDistinct` is needed because `add`
  appends a file to the keys whenever it has references. Only because rglob
  yields a file once does the file meet `add` with no edges yet
  (`FreshFile`). `AddFresh` and `AddFreshKeys` then say what `add` does to
  such a file.
- **`Refinement` (`Spec => ImplementsScanSpec`).** The loop implements
  `ScanSpec` under the mapping of the main run. The initial states map to
  `ScanSpec`'s initial state (`RefInit`). `RefStep` maps every step:
  - `VisitFile` of the head `f` is `Scan(f)` with the references
    `analyze_file` returned;
  - `AbortVisit` is `Stop`;
  - `Finish` is `Complete`;
  - the skips and `Summarize` are stutters.

  `RefStep` holds under `GraphInv`, since a scanned file must have no edges
  yet.

To make the refinement provable, `AnalyzeFile` and `QueryGuarded` in
`Extraction` are written as IF/ELSE chains in the code's if/elif order. The
earlier CASE arms overlapped. In TLA+ the value of overlapping arms is an
unspecified choice, even though TLC always takes the first, so the prover
could not show that an unreadable file raises.

### `ChaosRunnerProofs`

- **`TypeCorrect`.** Its inductive invariant adds `CountBound`: the count
  step stays within `MaxStops` because the draw checked the bound.
- **`StoppedOnlyInPerturbationHolds`.** Its inductive invariant `StopInv`
  adds `ReapedOnceWaited`. The interpreter's exit kills the injector wherever
  it is, and that is harmless only because the main thread reaches the exit
  after the child was reaped.

### `MigrationDashboardProofs`

- **`DependenciesFirstCorrect` (`Spec => []DependenciesFirst`).** No step
  changes `files`, `top` or `mentions`, so a category's graph is the same in
  every state. A printout, once made, is kept. A new printout is
  `order[:Shown]` of a topological order, and `ShownPrefixOrdered` shows that
  such a prefix keeps the order's property. The nodes of the graph are files
  (`NodesAreFiles`), so they are finite. A topological order is therefore a
  sequence of the node count's length, without repeats (`OrderIsSequence`).
  `EdgeIsMention` connects the graph to the texts: for two distinct nodes
  `x` and `y`, if there is no edge `y -> x`, then `x`'s text does not name
  `y`. This is where the direction of `deps` and `add_edge(d, f)` (lines 18
  and 27) enters. With the edge reversed, the lemma and the theorem fail.
  The inductive invariant `PrintInv` adds
  `mentions \subseteq Files \X Files`.

### `TopEmittersProofs`

- **`TopEmittersCorrect` (`Spec => []TopEmittersRanked`).** The model's
  `HeavyHitters` gives each key a position: one plus the number of keys
  that rank ahead of it. A key ranks ahead if it has a higher degree, or the
  same degree and an earlier index. This mirrors Python's stable
  `sorted(..., reverse=True)` followed by `[:top_n]`. The argument has
  these steps:
  - With degrees in `Nat`, "ranks ahead" is a strict total order on
    indices (`RankOrder`).
  - Positions are strictly monotone along that order (`PositionMonotone`),
    so the position map is injective into `1..Len(keys)`.
  - By `FS_Injection` it is then onto (`PositionOnto`), so the `CHOOSE` in
    `HeavyHitters` always finds the key with a given position.
  - `HeavyHittersRanked` derives the property's four conjuncts for any
    graph with distinct keys and numeric degrees.
  - Degrees are numeric because each edge set is contained in the finite
    set of a file's references (`ContentRefsFinite`, `DegreesOfScan`).

  The inductive invariant is `GraphInv /\ SummaryInv`, the two invariants
  already proved in `OrchestratorRefinement` and `OrchestratorProofs`.
  `GraphInv` supplies distinct keys and edges drawn from the scan.
  `SummaryInv` supplies that the summary is the one of the final graphs.
  TLC checked the conjunction on `MCOrchestrator` first (392,337 states).

### What stays with TLC only

- **Liveness.** `Termination` is liveness under fairness, which these provers
  do not handle.
- **The file total of `SummaryMatchesTree`.** It equates a `MapThenSumSet`
  over the languages with the number of candidates, a sum over a partition.
  That needs induction over data, which these provers cannot do.
- **`VerifyReport`.** Its properties have no constants: the model is one
  fixed program, and TLC's run covers every behaviour of it.
- **`RepoInventory`.** It declares `RECURSIVE` operators, which no theorem
  module may reach.
- **`DocCoverage`.** Its property sums over the scanned files with a
  recursive function. Proving what that sum computes needs induction over
  data.

## Defects noted while modelling, without a run

The following were seen in the code while it was being modelled. They are
listed as hazards in `PROJECT.json`, but no run checks them:

- **Dead `.S` branch.** `generate_ast_dependencies.py:225`: `.S` is in
  `LANGUAGE_MAP` as `"c"`, which is in `QUERY_DISPATCH`, so
  `_regex_asm_includes` is unreachable.
- **Capability results in no section.** `verify_all.py:276`: the report's
  category key `"Capability System"` is a substring of no result name
  (`"Capability: ..."`).
- **Crash on a dependency cycle.** `migration_dashboard.py:31`: the
  in-degree fallback looks up files that are not graph nodes, and networkx
  answers with a view, not a number.
- **Overlapping directories.** `documentation_coverage.py:57`: overlapping
  or repeated directory arguments count shared files twice.
- **Not only Doxygen.** `documentation_coverage.py:23`: `^\s*\*` also
  matches plain comment bodies and dereferences.
- **Suffix-less files in the top ten.** `repo_inventory.py:128`:
  `extensions[:10]` is cut before the empty suffix is dropped.

## Not modelled, and the plan

- The Z3 formulas themselves are not modelled: the report model takes their
  satisfiability class from reading them.
- **Other tools.** `classify_style`, `find_knr`, `arch_scan`,
  `mutation_runner`, `coverage_heatmap` and `doc_pipeline` are sequential file
  walkers. They are candidates where their control is richer than their
  formatting, for example `mutation_runner`'s mutate/test/restore cycle,
  which has a crash window between the mutation and the restore. `ascii_tree` and the Sphinx `conf.py` hold no state worth
  a model.
