---------------------------- MODULE RunLifecycle ----------------------------
(***************************************************************************)
(* What the control plane promises about a run, without processes, SQL     *)
(* statements or clocks: the life cycle of apps/control-plane/README.md    *)
(* as the code reaches it (canceled has no writer), together with what     *)
(* happened to the run's command.  RunQueue implements this specification. *)
(***************************************************************************)
EXTENDS Naturals

CONSTANT Runs          \* run identifiers

VARIABLES
  phase,      \* phase[r]    : the status column of run r, "none" before the INSERT
  launches,   \* launches[r] : how many times the run's command was started
  exit        \* exit[r]     : what became of that command

vars == <<phase, launches, exit>>

Terminal  == {"passed", "failed"}
Phases    == {"none", "queued", "running"} \cup Terminal
ExitCodes == {"none", "alive", "zero", "nonzero"}

TypeOK ==
  /\ phase \in [Runs -> Phases]
  /\ launches \in [Runs -> 0..1]
  /\ exit \in [Runs -> ExitCodes]

Init ==
  /\ phase = [r \in Runs |-> "none"]
  /\ launches = [r \in Runs |-> 0]
  /\ exit = [r \in Runs |-> "none"]

Move(r, from, to) ==
  /\ phase[r] = from
  /\ phase' = [phase EXCEPT ![r] = to]

Submit(r) == Move(r, "none", "queued") /\ UNCHANGED <<launches, exit>>

Claim(r) == Move(r, "queued", "running") /\ UNCHANGED <<launches, exit>>

(* The command of a claimed run is started at most once, whatever has      *)
(* become of the run in the meantime.                                      *)
Launch(r) ==
  /\ phase[r] \notin {"none", "queued"}
  /\ launches[r] = 0
  /\ launches' = [launches EXCEPT ![r] = 1]
  /\ \E c \in {"alive", "nonzero"} : exit' = [exit EXCEPT ![r] = c]
  /\ UNCHANGED phase

Exit(r) ==
  /\ exit[r] = "alive"
  /\ \E c \in {"zero", "nonzero"} : exit' = [exit EXCEPT ![r] = c]
  /\ UNCHANGED <<phase, launches>>

(* A run passes only on the strength of its own command's exit code 0 ...  *)
Pass(r) ==
  /\ exit[r] = "zero"
  /\ Move(r, "running", "passed")
  /\ UNCHANGED <<launches, exit>>

(* ... and fails on a bad exit, or because some runs were written off.     *)
Fail(S) ==
  /\ S # {} /\ \A r \in S : phase[r] = "running"
  /\ phase' = [r \in Runs |-> IF r \in S THEN "failed" ELSE phase[r]]
  /\ UNCHANGED <<launches, exit>>

Next ==
  \/ \E r \in Runs : Submit(r) \/ Claim(r) \/ Launch(r) \/ Exit(r) \/ Pass(r)
  \/ \E S \in SUBSET Runs : Fail(S)

Spec == Init /\ [][Next]_vars
=============================================================================
