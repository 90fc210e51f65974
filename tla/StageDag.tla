------------------------------ MODULE StageDag ------------------------------
(***************************************************************************)
(* What the scheduler promises about the stages of one build, said without *)
(* goroutines, channels, steps or retries: a stage runs only after all its *)
(* dependencies succeeded, it is skipped exactly when one of them ended    *)
(* otherwise, at most MaxParallel stages run at once, a stage is canceled  *)
(* only in a build that was asked to stop, and a stage that has ended      *)
(* never changes again.                                                    *)
(*                                                                         *)
(* StageRun, which follows internal/scheduler/scheduler.go, implements it. *)
(***************************************************************************)
EXTENDS Naturals, FiniteSets, BuildStates

CONSTANTS
  Stage,        \* the stages of the build
  DepsOf,       \* DepsOf[s]: the set of stages that s depends on
  MaxParallel   \* how many stages may run at once

VARIABLES
  status,       \* status[s]: the state of stage s
  ctx           \* "live", or "canceled" once the build was asked to stop

vars == <<status, ctx>>

Running == {s \in Stage : status[s] = "running"}

DepsEnded(s) == \A d \in DepsOf[s] : Terminal(status[d])
DepsSucceeded(s) == \A d \in DepsOf[s] : status[d] = "success"
-----------------------------------------------------------------------------
Init ==
  /\ status = [s \in Stage |-> "pending"]
  /\ ctx = "live"

Stop ==
  /\ ctx' = "canceled"
  /\ UNCHANGED status

Start(s) ==
  /\ status[s] = "pending"
  /\ DepsSucceeded(s)
  /\ Cardinality(Running) < MaxParallel
  /\ status' = [status EXCEPT ![s] = "running"]
  /\ UNCHANGED ctx

Skip(s) ==
  /\ status[s] = "pending"
  /\ DepsEnded(s)
  /\ ~DepsSucceeded(s)
  /\ status' = [status EXCEPT ![s] = "skipped"]
  /\ UNCHANGED ctx

\* The build was stopped while s was waiting for its turn.
Drop(s) ==
  /\ status[s] = "pending"
  /\ DepsSucceeded(s)
  /\ ctx = "canceled"
  /\ status' = [status EXCEPT ![s] = "canceled"]
  /\ UNCHANGED ctx

Finish(s) ==
  /\ status[s] = "running"
  /\ \E end \in {"success", "failed", "canceled"} :
       /\ end = "canceled" => ctx = "canceled"
       /\ status' = [status EXCEPT ![s] = end]
  /\ UNCHANGED ctx

Next == Stop \/ \E s \in Stage : Start(s) \/ Skip(s) \/ Drop(s) \/ Finish(s)

Spec == Init /\ [][Next]_vars
=============================================================================
