---------------------------- MODULE VerifyReport ----------------------------
(***************************************************************************)
(* The formal verification suite src/specs/verify_all.py: main runs the    *)
(* five groups of Z3 queries in order, generate_report writes the report,  *)
(* and the exit code says whether everything was verified.                 *)
(*                                                                         *)
(* A query is abstracted to its name (the category prefix and the title)   *)
(* and the class of the formula it asserts: "valid", "contingent" or       *)
(* "unsatisfiable".  Each query adds the property itself to a fresh Solver *)
(* and calls check(), so the answer depends on satisfiability only: sat    *)
(* for a valid or contingent formula, unsat for an unsatisfiable one, and  *)
(* unknown when Z3 gives up on the quantifiers.  Every formula of the file *)
(* is a constraint on uninterpreted functions that the empty relation or a *)
(* projection satisfies and a different interpretation violates, so every  *)
(* one is contingent.                                                      *)
(***************************************************************************)
EXTENDS Naturals, Sequences, FiniteSets

Query(prefix, title) ==
  [prefix |-> prefix, title |-> title, formula |-> "contingent", result |-> "none"]

\* verify_memory_safety: three solvers, one per invariant.
MemorySafetyQueries ==
  << Query("Memory Safety", "No Dangling Pointers"),
     Query("Memory Safety", "Unique Ownership (RAII)"),
     Query("Memory Safety", "Region Isolation") >>

\* verify_capability_system
CapabilityQueries ==
  << Query("Capability", "Transitivity"),
     Query("Capability", "Anti-reflexivity"),
     Query("Capability", "Revocation Correctness") >>

\* verify_scheduler_properties
SchedulerQueries ==
  << Query("Scheduler", "Priority Ordering"),
     Query("Scheduler", "Progress Guarantee") >>

\* verify_ipc_properties
IpcQueries ==
  << Query("IPC", "No Message Duplication"),
     Query("IPC", "FIFO Ordering") >>

\* verify_dma_safety
DmaQueries ==
  << Query("DMA", "No Buffer Overlap"),
     Query("DMA", "Page Alignment") >>

\* The order in which main runs the groups.
Groups == <<MemorySafetyQueries, CapabilityQueries, SchedulerQueries,
            IpcQueries, DmaQueries>>

\* solver.check() on a solver holding the formula.
CheckOutcomes(formula) ==
  IF formula = "unsatisfiable" THEN {"unsat", "unknown"} ELSE {"sat", "unknown"}

\* VerificationResult.is_verified: result == sat.
IsVerified(r) == r.result = "sat"

(***************************************************************************)
(* generate_report.  The categories dict, in insertion order; a result     *)
(* goes to the first category whose name is a substring of the result's   *)
(* name.  For the names of this file "c in name" holds exactly when c is   *)
(* the name's prefix: "Capability System" is in no name.                   *)
(***************************************************************************)
Categories == <<"Memory Safety", "Capability System", "Scheduler", "IPC", "DMA">>

InName(c, r) == c = r.prefix

\* The results the report lists under category number k.
Section(rs, k) ==
  SelectSeq(rs, LAMBDA r : InName(Categories[k], r)
                           /\ \A j \in 1..k - 1 : ~InName(Categories[j], r))

\* The interpretation paragraph: verified == total, else the ratio >= 0.8
\* (exact in floating point at these sizes, so 5 * verified >= 4 * total).
\* Mutant: the ratio test ahead of the equality test.
InterpretationRatioFirst(verified, total) ==
  IF 5 * verified >= 4 * total THEN "most"
  ELSE IF verified = total THEN "all"
  ELSE "significant"

Interpretation(verified, total) ==
  IF verified = total THEN "all"
  ELSE IF 5 * verified >= 4 * total THEN "most"
  ELSE "significant"

GenerateReport(rs) ==
  LET total    == Len(rs)
      verified == Cardinality({i \in 1..Len(rs) : IsVerified(rs[i])})
  IN  [verified       |-> verified,
       total          |-> total,
       sections       |-> [k \in {k \in 1..Len(Categories) : Section(rs, k) # <<>>} |->
                             Section(rs, k)],
       interpretation |-> Interpretation(verified, total),
       failed         |-> SelectSeq(rs, LAMBDA r : ~IsVerified(r))]

-----------------------------------------------------------------------------
VARIABLES
  pc,        \* the next group to run, then ReportStep, ExitStep, DoneStep
  results,   \* all_results: [prefix, title, formula, result] records
  report,    \* the report written, once written
  exitCode   \* the status of sys.exit

vars == <<pc, results, report, exitCode>>

ReportStep == Len(Groups) + 1
ExitStep   == Len(Groups) + 2
DoneStep   == Len(Groups) + 3

NoReport == [verified |-> 0, total |-> 0, sections |-> <<>>,
             interpretation |-> "none", failed |-> <<>>]

Init ==
  /\ pc = 1
  /\ results = <<>>
  /\ report = NoReport
  /\ exitCode = 0

\* results = verify_*(); all_results.extend(results): each query of the
\* group is checked in turn and gets the solver's answer.
RunGroup ==
  /\ pc \in 1..Len(Groups)
  /\ LET g == Groups[pc] IN
     \E answer \in [1..Len(g) -> {"sat", "unsat", "unknown"}] :
       /\ \A i \in 1..Len(g) : answer[i] \in CheckOutcomes(g[i].formula)
       /\ results' = results \o [i \in 1..Len(g) |-> [g[i] EXCEPT !.result = answer[i]]]
  /\ pc' = pc + 1
  /\ UNCHANGED <<report, exitCode>>

\* os.makedirs, generate_report(all_results, ...).
WriteReport ==
  /\ pc = ReportStep
  /\ report' = GenerateReport(results)
  /\ pc' = ExitStep
  /\ UNCHANGED <<results, exitCode>>

\* sys.exit(0 if verified == total else 1)
Exit ==
  /\ pc = ExitStep
  /\ exitCode' = IF Cardinality({i \in 1..Len(results) : IsVerified(results[i])})
                      = Len(results) THEN 0 ELSE 1
  /\ pc' = DoneStep
  /\ UNCHANGED <<results, report>>

Next == RunGroup \/ WriteReport \/ Exit

Spec == Init /\ [][Next]_vars

-----------------------------------------------------------------------------
Done == pc = DoneStep

\* The three verdicts of a run agree: the exit status is 0 exactly when the
\* report says "All properties verified" and exactly when its Next Steps list
\* no failed property, and the summary counts every result as verified or
\* failed.
OutcomesAgree ==
  Done => /\ (exitCode = 0) <=> (report.interpretation = "all")
          /\ (exitCode = 0) <=> (report.failed = <<>>)
          /\ report.total = Len(results)
          /\ report.verified + Len(report.failed) = report.total

\* A result is reported as verified only when the property it names holds in
\* every model, which is what "Verification Complete: 12/12 properties
\* verified" claims of the Z3 queries.
VerifiedMeansProved ==
  Done => \A i \in 1..Len(results) :
            IsVerified(results[i]) => results[i].formula = "valid"

=============================================================================
