------------------------------ MODULE ScanSpec ------------------------------
(***************************************************************************)
(* What the Extraction Orchestrator promises (spec section 4.4), with the  *)
(* order of the walk and the inner workings of extraction left out: in an  *)
(* environment env fixed for the run, every candidate file is scanned once *)
(* in any order; its language's graph gets the non-empty references one of *)
(* its possible extraction results holds, and its language's tally grows   *)
(* by one; the pass completes once every candidate is scanned, or stops    *)
(* on a file whose extraction can raise.                                   *)
(***************************************************************************)
EXTENDS Naturals

CONSTANTS
  Files,           \* the files of the tree
  Langs,           \* the languages
  EmptyRef,        \* the empty reference string, never an edge
  Candidate(_, _), \* Candidate(env, f): the pass scans f
  LangOf(_, _),    \* LangOf(env, f): the language of f
  Results(_, _),   \* Results(env, f): the reference sets extraction can return
  MayFail(_, _)    \* MayFail(env, f): extraction of f can raise

VARIABLES
  env,       \* the tree and the toolchain, fixed for the run
  scanned,   \* the files scanned so far
  edges,     \* edges[l][f]: the references of f in the graph of language l
  tally,     \* tally[l]: the files of language l scanned
  phase      \* "scanning", "complete" or "stopped"

vars == <<env, scanned, edges, tally, phase>>

Init ==
  /\ scanned = {}
  /\ edges = [l \in Langs |-> [f \in Files |-> {}]]
  /\ tally = [l \in Langs |-> 0]
  /\ phase = "scanning"

Scan(f) ==
  /\ phase = "scanning"
  /\ Candidate(env, f)
  /\ f \notin scanned
  /\ \E R \in Results(env, f) :
       edges' = [edges EXCEPT ![LangOf(env, f)][f] = R \ {EmptyRef}]
  /\ tally' = [tally EXCEPT ![LangOf(env, f)] = @ + 1]
  /\ scanned' = scanned \cup {f}
  /\ UNCHANGED <<env, phase>>

Complete ==
  /\ phase = "scanning"
  /\ \A f \in Files : Candidate(env, f) => f \in scanned
  /\ phase' = "complete"
  /\ UNCHANGED <<env, scanned, edges, tally>>

Stop ==
  /\ phase = "scanning"
  /\ \E f \in Files : Candidate(env, f) /\ f \notin scanned /\ MayFail(env, f)
  /\ phase' = "stopped"
  /\ UNCHANGED <<env, scanned, edges, tally>>

Next == (\E f \in Files : Scan(f)) \/ Complete \/ Stop

Spec == Init /\ [][Next]_vars

=============================================================================
