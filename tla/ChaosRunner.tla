---------------------------- MODULE ChaosRunner ----------------------------
(***************************************************************************)
(* ChaosRunner.run of src/scripts/testing/chaos_runner.py: the main thread *)
(* waits for the child process while a daemon injector thread pauses and   *)
(* resumes it with SIGSTOP and SIGCONT.                                    *)
(*                                                                         *)
(* The child is addressed by its pid only (os.kill(process.pid, ...)).     *)
(* Once process.wait (or the injector's own process.poll) has reaped the   *)
(* child, the pid is free and the kernel may give it to another process.   *)
(* Popen's waitpid lock is part of the model: while the main thread holds  *)
(* it inside process.wait, process.poll returns None without looking.      *)
(* Timing is abstract: sleep and join(timeout=0.1) take any time, which    *)
(* the thread scheduler allows.                                            *)
(***************************************************************************)
EXTENDS Naturals

CONSTANT MaxStops   \* a bound on the SIGSTOPs the model lets rng draw

ASSUME MaxStopsAssumption == MaxStops \in Nat \ {0}

VARIABLES
  child,          \* the child: "running", "stopped", "zombie" or "reaped"
  other,          \* a later holder of the child's pid: "none", "running", "stopped"
  returncode,     \* process.returncode: "none" (None) or "set" (the exit status)
  inj,            \* the injector's place in _inject
  main,           \* the main thread's place in run and main
  perturbations,  \* self._perturbations
  reported        \* the perturbations of the ChaosResult (once main is past "report")

vars == <<child, other, returncode, inj, main, perturbations, reported>>

InjPlaces == {"poll", "sleep", "stop", "count", "nap", "cont",
              "done", "crashed", "killed"}

MainPlaces == {"wait", "waiting", "join", "report", "exit", "exited"}

\* The injector thread has ended, by leaving its loop or by an exception.
InjectorEnded == inj \in {"done", "crashed", "killed"}

-----------------------------------------------------------------------------
(***************************************************************************)
(* os.kill(process.pid, sig): the child while it is not reaped (a zombie   *)
(* ignores it), else the process now holding the pid, else the call raises *)
(* ProcessLookupError and the thread dies.                                 *)
(***************************************************************************)
Signal(from, to, next) ==
  \/ /\ child # "reaped"
     /\ child' = IF child = from THEN to ELSE child
     /\ inj' = next
     /\ UNCHANGED other
  \/ /\ child = "reaped" /\ other # "none"
     /\ other' = to
     /\ inj' = next
     /\ UNCHANGED child
  \/ /\ child = "reaped" /\ other = "none"
     /\ inj' = "crashed"
     /\ UNCHANGED <<child, other>>

Init ==
  /\ child = "running"
  /\ other = "none"
  /\ returncode = "none"
  /\ inj = "poll"
  /\ main = "wait"
  /\ perturbations = 0
  /\ reported = 0

(***************************************************************************)
(* The injector thread, _inject.                                           *)
(***************************************************************************)
\* while process.poll() is None: poll returns the return code once set,
\* None while the main thread holds the waitpid lock, and otherwise reaps a
\* zombie child itself.
InjPoll ==
  /\ inj = "poll"
  /\ \/ /\ returncode = "set"
        /\ inj' = "done"
        /\ UNCHANGED <<child, returncode>>
     \/ /\ returncode = "none" /\ (main = "waiting" \/ child # "zombie")
        /\ inj' = "sleep"
        /\ UNCHANGED <<child, returncode>>
     \/ /\ returncode = "none" /\ main # "waiting" /\ child = "zombie"
        /\ child' = "reaped"
        /\ returncode' = "set"
        /\ inj' = "done"
  /\ UNCHANGED <<other, main, perturbations, reported>>

\* time.sleep(interval), then rng.random() >= 0.5: back to the poll.
InjSkip ==
  /\ inj = "sleep"
  /\ inj' = "poll"
  /\ UNCHANGED <<child, other, returncode, main, perturbations, reported>>

\* time.sleep(interval), then rng.random() < 0.5 (at most MaxStops times).
InjDraw ==
  /\ inj = "sleep"
  /\ perturbations < MaxStops
  /\ inj' = "stop"
  /\ UNCHANGED <<child, other, returncode, main, perturbations, reported>>

\* os.kill(process.pid, signal.SIGSTOP)
InjStop ==
  /\ inj = "stop"
  /\ Signal("running", "stopped", "count")
  /\ UNCHANGED <<returncode, main, perturbations, reported>>

\* self._perturbations += 1
InjCount ==
  /\ inj = "count"
  /\ perturbations' = perturbations + 1
  /\ inj' = "nap"
  /\ UNCHANGED <<child, other, returncode, main, reported>>

\* time.sleep(self._interval / 2)
InjNap ==
  /\ inj = "nap"
  /\ inj' = "cont"
  /\ UNCHANGED <<child, other, returncode, main, perturbations, reported>>

\* Mutant: the SIGCONT line is missing.
InjContSkipped ==
  /\ inj = "cont"
  /\ inj' = "poll"
  /\ UNCHANGED <<child, other, returncode, main, perturbations, reported>>

\* Mutant: the resume is drawn from rng like the pause.
InjContRandom ==
  /\ inj = "cont"
  /\ \/ Signal("stopped", "running", "poll")
     \/ inj' = "poll" /\ UNCHANGED <<child, other>>
  /\ UNCHANGED <<returncode, main, perturbations, reported>>

\* os.kill(process.pid, signal.SIGCONT), and the loop goes on.
InjCont ==
  /\ inj = "cont"
  /\ Signal("stopped", "running", "poll")
  /\ UNCHANGED <<returncode, main, perturbations, reported>>

(***************************************************************************)
(* The main thread: process.wait(), injector.join(timeout=0.1), the       *)
(* ChaosResult, and the interpreter's exit, which ends the daemon thread.  *)
(***************************************************************************)
\* process.wait(): returns at once if the return code is set, else takes
\* the waitpid lock.
MainWait ==
  /\ main = "wait"
  /\ main' = IF returncode = "set" THEN "join" ELSE "waiting"
  /\ UNCHANGED <<child, other, returncode, inj, perturbations, reported>>

\* The blocking waitpid returns when the child terminates (a stopped child
\* does not); the child is reaped and the return code set.
MainReap ==
  /\ main = "waiting"
  /\ child = "zombie"
  /\ child' = "reaped"
  /\ returncode' = "set"
  /\ main' = "join"
  /\ UNCHANGED <<other, inj, perturbations, reported>>

\* injector.join(timeout=0.1): returns when the injector has ended or when
\* the timeout expires, whichever comes first.
MainJoin ==
  /\ main = "join"
  /\ main' = "report"
  /\ UNCHANGED <<child, other, returncode, inj, perturbations, reported>>

\* ChaosResult(perturbations=self._perturbations, ...)
MainReport ==
  /\ main = "report"
  /\ reported' = perturbations
  /\ main' = "exit"
  /\ UNCHANGED <<child, other, returncode, inj, perturbations>>

\* main prints and returns; SystemExit ends the interpreter, and with it
\* the daemon injector wherever it is.
MainExit ==
  /\ main = "exit"
  /\ main' = "exited"
  /\ inj' = IF InjectorEnded THEN inj ELSE "killed"
  /\ UNCHANGED <<child, other, returncode, perturbations, reported>>

(***************************************************************************)
(* The environment: the command terminates when it runs, and the kernel   *)
(* may hand a freed pid to a new process.                                  *)
(***************************************************************************)
ChildExit ==
  /\ child = "running"
  /\ child' = "zombie"
  /\ UNCHANGED <<other, returncode, inj, main, perturbations, reported>>

PidReuse ==
  /\ child = "reaped"
  /\ other = "none"
  /\ other' = "running"
  /\ UNCHANGED <<child, returncode, inj, main, perturbations, reported>>

Injector == InjPoll \/ InjSkip \/ InjDraw \/ InjStop \/ InjCount \/ InjNap \/ InjCont

MainThread == MainWait \/ MainReap \/ MainJoin \/ MainReport \/ MainExit

Next == Injector \/ MainThread \/ ChildExit \/ PidReuse

(***************************************************************************)
(* Fairness.  Both threads are scheduled (weak fairness of each step); the *)
(* command terminates if it runs infinitely often (strong fairness, as the *)
(* injector keeps disabling its exit by stopping it).  Reuse of the pid is *)
(* up to the kernel and not assumed.                                       *)
(***************************************************************************)
Fairness ==
  /\ WF_vars(Injector)
  /\ WF_vars(MainThread)
  /\ SF_vars(ChildExit)

Spec == Init /\ [][Next]_vars /\ Fairness

-----------------------------------------------------------------------------
TypeOK ==
  /\ child \in {"running", "stopped", "zombie", "reaped"}
  /\ other \in {"none", "running", "stopped"}
  /\ returncode \in {"none", "set"}
  /\ inj \in InjPlaces
  /\ main \in MainPlaces
  /\ perturbations \in 0..MaxStops
  /\ reported \in 0..MaxStops

\* The child is stopped only inside one perturbation of the injector,
\* between its SIGSTOP and its SIGCONT: no path (an exception in os.kill,
\* the daemon dying at exit, the join timing out) leaves it stopped.
StoppedOnlyInPerturbation ==
  child = "stopped" => inj \in {"count", "nap", "cont"}

\* Once the return code is set, or the main thread is past process.wait,
\* the child has been reaped.
ReapedOnceWaited ==
  /\ returncode = "set" => child = "reaped"
  /\ main \in {"join", "report", "exit", "exited"} => child = "reaped"

\* The run ends: process.wait returns although the injector keeps
\* stopping the child, and the runner reports.
Termination == <>(main = "exited")

ReportsIssuedPerturbations == main = "exited" => reported = perturbations

=============================================================================
