-------------------------- MODULE ChaosRunnerProofs --------------------------
(***************************************************************************)
(* Proofs about the chaos runner model, for every bound on the pauses.     *)
(***************************************************************************)
EXTENDS ChaosRunner, TLAPS

(***************************************************************************)
(* Type correctness.  TypeOK is not inductive: the increment of            *)
(* self._perturbations stays within MaxStops only because the draw that    *)
(* led to it checked the bound, so TypeInv adds CountBound.               *)
(***************************************************************************)
CountBound == inj \in {"stop", "count"} => perturbations < MaxStops

TypeInv == TypeOK /\ CountBound

\* The initial state is well typed.
LEMMA TypeInit == Init => TypeInv
BY MaxStopsAssumption DEF Init, TypeInv, TypeOK, CountBound, InjPlaces, MainPlaces

\* Every step keeps the types.
LEMMA TypeStep == TypeInv /\ [Next]_vars => TypeInv'
<1> SUFFICES ASSUME TypeInv, [Next]_vars PROVE TypeInv'
  OBVIOUS
<1> USE MaxStopsAssumption DEF TypeInv, TypeOK, CountBound
<1>1. CASE InjStop \/ InjCont
  BY <1>1 DEF InjStop, InjCont, Signal, InjPlaces
<1>2. CASE InjCount
  BY <1>2 DEF InjCount, InjPlaces
<1>3. CASE InjPoll \/ InjSkip \/ InjDraw \/ InjNap
  BY <1>3 DEF InjPoll, InjSkip, InjDraw, InjNap, InjPlaces
<1>4. CASE MainThread
  BY <1>4 DEF MainThread, MainWait, MainReap, MainJoin, MainReport,
              MainExit, InjectorEnded, InjPlaces, MainPlaces
<1>5. CASE ChildExit \/ PidReuse \/ UNCHANGED vars
  BY <1>5 DEF ChildExit, PidReuse, vars
<1>. QED
  BY <1>1, <1>2, <1>3, <1>4, <1>5 DEF Next, Injector

\* Every reachable state of the runner is well typed.
THEOREM TypeCorrect == Spec => []TypeOK
<1>1. TypeInv => TypeOK
  BY DEF TypeInv
<1>. QED
  BY TypeInit, TypeStep, <1>1, PTL DEF Spec

(***************************************************************************)
(* StoppedOnlyInPerturbation is not inductive alone: the interpreter's     *)
(* exit kills the injector wherever it is, and that is harmless only       *)
(* because the main thread gets there after the child was reaped.  The     *)
(* inductive invariant adds ReapedOnceWaited.                              *)
(***************************************************************************)
StopInv == TypeInv /\ StoppedOnlyInPerturbation /\ ReapedOnceWaited

LEMMA StopInit == Init => StopInv
BY TypeInit DEF Init, StopInv, StoppedOnlyInPerturbation, ReapedOnceWaited

LEMMA StopStep == StopInv /\ [Next]_vars => StopInv'
<1> SUFFICES ASSUME StopInv, [Next]_vars PROVE StopInv'
  OBVIOUS
<1>1. TypeInv'
  BY TypeStep DEF StopInv
<1>2. CASE InjStop
  <2>1. UNCHANGED <<returncode, main>> /\ Signal("running", "stopped", "count")
    BY <1>2 DEF InjStop
  <2>. QED
    BY <1>1, <2>1 DEF Signal, StopInv, StoppedOnlyInPerturbation,
                      ReapedOnceWaited
<1>3. CASE InjCont
  <2>1. UNCHANGED <<returncode, main>> /\ Signal("stopped", "running", "poll")
    BY <1>3 DEF InjCont
  <2>. QED
    BY <1>1, <2>1 DEF Signal, StopInv, StoppedOnlyInPerturbation,
                      ReapedOnceWaited
<1>4. CASE InjPoll
  BY <1>1, <1>4 DEF InjPoll, StopInv, TypeInv, TypeOK,
                    StoppedOnlyInPerturbation, ReapedOnceWaited
<1>5. CASE InjSkip \/ InjDraw \/ InjCount \/ InjNap
  BY <1>1, <1>5 DEF InjSkip, InjDraw, InjCount, InjNap, StopInv,
                    StoppedOnlyInPerturbation, ReapedOnceWaited
<1>6. CASE MainWait \/ MainReap \/ MainJoin \/ MainReport
  BY <1>1, <1>6 DEF MainWait, MainReap, MainJoin, MainReport, StopInv,
                    StoppedOnlyInPerturbation, ReapedOnceWaited
<1>7. CASE MainExit
  BY <1>1, <1>7 DEF MainExit, StopInv, StoppedOnlyInPerturbation,
                    ReapedOnceWaited
<1>8. CASE ChildExit \/ PidReuse \/ UNCHANGED vars
  BY <1>1, <1>8 DEF ChildExit, PidReuse, vars, StopInv,
                    StoppedOnlyInPerturbation, ReapedOnceWaited
<1>. QED
  BY <1>2, <1>3, <1>4, <1>5, <1>6, <1>7, <1>8 DEF Next, Injector, MainThread

\* The child is stopped only between a SIGSTOP of the injector and the
\* SIGCONT of the same iteration: neither an exception in os.kill, nor the
\* join timing out, nor the daemon dying at exit leaves it stopped.
THEOREM StoppedOnlyInPerturbationHolds == Spec => []StoppedOnlyInPerturbation
<1>1. StopInv => StoppedOnlyInPerturbation
  BY DEF StopInv
<1>. QED
  BY StopInit, StopStep, <1>1, PTL DEF Spec

=============================================================================
