------------------------------ MODULE StageRun ------------------------------
(***************************************************************************)
(* The stages of one running build: Scheduler.runStages, runStage, runStep *)
(* and runStepOnce (internal/scheduler/scheduler.go) with the retry loop   *)
(* of internal/retry/policy.go.                                            *)
(*                                                                         *)
(* runStages starts one goroutine per stage.  A goroutine waits for the    *)
(* done channel of each dependency in turn, takes a token of the semaphore *)
(* sem, runs its steps one after the other and closes its own done         *)
(* channel.  Every critical section of Build.Update is one action.  What   *)
(* can happen between two of them - the build context is canceled, the     *)
(* timeout of a step fires, another stage moves - can happen between two   *)
(* actions.                                                                *)
(*                                                                         *)
(* The container of a step is the host's: it may return exit code 0        *)
(* ("ok"), another exit code ("exit") or an error of Executor.Run ("err"). *)
(***************************************************************************)
EXTENDS Naturals, Sequences, FiniteSets, BuildStates

CONSTANTS
  Stage,       \* b.Stages, by name
  DependsOn,   \* DependsOn[s]: the sequence StageStatus.DependsOn
  StepDef,     \* StepDef[s]: the step definitions runStage finds for s
  MaxParallel  \* Options.MaxParallelStages

\* What the scheduler reads of a pipeline.Step.  "defined" is FALSE for a step
\* that the pipeline no longer has when the build runs: the pipeline may have
\* been registered again after CreateBuild, and runStage then finds no stepDef.
StepDefinition ==
  [defined : BOOLEAN, retries : Nat, timeout : BOOLEAN,
   allowFailure : BOOLEAN, artifacts : BOOLEAN]

ASSUME StageAssumption ==
  /\ IsFiniteSet(Stage)
  /\ DependsOn \in [Stage -> Seq(Stage)]
  /\ StepDef \in [Stage -> Seq(StepDefinition)]
  /\ MaxParallel \in Nat \ {0}

DepsOf == [s \in Stage |-> {DependsOn[s][k] : k \in 1..Len(DependsOn[s])}]

\* pipeline.Validate refuses a cycle: there is an order that respects depends_on.
ASSUME AcyclicAssumption ==
  \E rank \in [Stage -> 1..Cardinality(Stage)] :
    \A s \in Stage : \A d \in DepsOf[s] : rank[d] < rank[s]

\* The steps of the build: <<s, i>> is st.Steps[i-1] of stage s.
StepId == UNION {{s} \X (1..Len(StepDef[s])) : s \in Stage}

VARIABLES
  ctx,        \* ctx.Err() of the build context: "live" or "canceled"
  phase,      \* phase[s]: where the goroutine of s is
  stState,    \* stState[s]: StageStatus.State
  checked,    \* checked[s]: how many dependencies s has waited for
  depsFailed, \* the stages whose local depsFailed is true
  sem,        \* the stages holding a token of sem
  closed,     \* the stages whose done channel is closed
  cur,        \* cur[s]: the step runStage is at
  failed,     \* the stages whose local failed is true
  timedOut,   \* the stages whose current step's WithTimeout has expired
  stepState,  \* stepState[<<s, i>>]: StepStatus.State
  attempts,   \* attempts[<<s, i>>]: StepStatus.Attempts
  result,     \* result[s]: what Executor.Run returned to s
  collected   \* the steps whose artifacts were added to the build

waitVars  == <<checked, depsFailed>>
stepVars  == <<cur, failed, timedOut, stepState, attempts, result, collected>>
vars == <<ctx, phase, stState, waitVars, sem, closed, stepVars>>

Phase ==
  {"await",    \* runStages: waiting for dependencies, then for a token
   "start",    \* has a token, runStage not entered yet
   "step",     \* runStage: loop head
   "attempt",  \* Policy.Do: loop head
   "exec",     \* inside Executor.Run
   "record",   \* Executor.Run has returned
   "collect",  \* step succeeded, artifacts to collect
   "backoff",  \* Policy.Do: waiting before the next attempt
   "stepErr",  \* Policy.Do returned an error to runStep
   "finish",   \* runStage: last critical section
   "release",  \* deferred <-sem
   "close",    \* deferred close(done)
   "exit"}     \* goroutine gone, wg.Done called

InRunStep == {"attempt", "exec", "record", "collect", "backoff", "stepErr"}

Init ==
  /\ ctx = "live"
  /\ phase = [s \in Stage |-> "await"]
  /\ stState = [s \in Stage |-> "pending"]
  /\ checked = [s \in Stage |-> 0]
  /\ depsFailed = {}
  /\ sem = {}
  /\ closed = {}
  /\ cur = [s \in Stage |-> 1]
  /\ failed = {}
  /\ timedOut = {}
  /\ stepState = [p \in StepId |-> "pending"]
  /\ attempts = [p \in StepId |-> 0]
  /\ result = [s \in Stage |-> "none"]
  /\ collected = {}
-----------------------------------------------------------------------------
Step(s) == <<s, cur[s]>>
Def(s) == StepDef[s][cur[s]]
HasStep(s) == cur[s] <= Len(StepDef[s])

\* ctx.Err() # nil, for the build and for the step context derived from it
CtxDone == ctx = "canceled"
\* mutant: WithTimeout is given context.Background()
StepCtxDetached(s) == s \in timedOut
StepCtxDone(s) == CtxDone \/ s \in timedOut

Goto(s, from, to) ==
  /\ phase[s] = from
  /\ phase' = [phase EXCEPT ![s] = to]

\* for _, rest := range st.Steps[i:] { rest.State = st }
MarkFrom(s, i, st) ==
  [p \in StepId |-> IF p[1] = s /\ p[2] >= i THEN st ELSE stepState[p]]
-----------------------------------------------------------------------------
(* runStages: wait for the dependencies, in the order of depends_on. *)

\* mutant: keeps the outcome of the last dependency only
DepsFailedAfterLast(s, d) ==
  IF stState[d] # "success" THEN depsFailed \cup {s} ELSE depsFailed \ {s}
\* mutant: counts a failed dependency, not a skipped or canceled one
DepsFailedIfFailed(s, d) ==
  IF stState[d] = "failed" THEN depsFailed \cup {s} ELSE depsFailed
DepsFailedAfter(s, d) ==
  IF stState[d] # "success" THEN depsFailed \cup {s} ELSE depsFailed

AwaitDep(s) ==
  /\ phase[s] = "await"
  /\ checked[s] < Len(DependsOn[s])
  /\ LET d == DependsOn[s][checked[s] + 1] IN
       /\ d \in closed
       /\ depsFailed' = DepsFailedAfter(s, d)
  /\ checked' = [checked EXCEPT ![s] = @ + 1]
  /\ UNCHANGED <<ctx, phase, stState, sem, closed, stepVars>>

Waited(s) == checked[s] = Len(DependsOn[s])

SkipStage(s) ==
  /\ Waited(s) /\ s \in depsFailed
  /\ Goto(s, "await", "close")
  /\ stState' = [stState EXCEPT ![s] = "skipped"]
  /\ stepState' = MarkFrom(s, 1, "skipped")
  /\ UNCHANGED <<ctx, waitVars, sem, closed, cur, failed, timedOut, attempts,
                 result, collected>>

(* The select on sem and ctx.Done(): when both are ready, either is taken. *)

\* mutant: the channel holds one token too many
SlotFreeOffByOne == Cardinality(sem) <= MaxParallel
SlotFree == Cardinality(sem) < MaxParallel

AcquireSlot(s) ==
  /\ Waited(s) /\ s \notin depsFailed
  /\ SlotFree
  /\ Goto(s, "await", "start")
  /\ sem' = sem \cup {s}
  /\ UNCHANGED <<ctx, stState, waitVars, closed, stepVars>>

\* Only the stage is marked: its steps stay pending.
CancelWaiting(s) ==
  /\ Waited(s) /\ s \notin depsFailed
  /\ CtxDone
  /\ Goto(s, "await", "close")
  /\ stState' = [stState EXCEPT ![s] = "canceled"]
  /\ UNCHANGED <<ctx, waitVars, sem, closed, stepVars>>
-----------------------------------------------------------------------------
(* runStage *)

EnterStage(s) ==
  /\ Goto(s, "start", "step")
  /\ stState' = [stState EXCEPT ![s] = "running"]
  /\ UNCHANGED <<ctx, waitVars, sem, closed, stepVars>>

\* mutant: the loop variable runs past the end
NextStepTwice(s) == cur' = [cur EXCEPT ![s] = @ + 2]
NextStep(s) == cur' = [cur EXCEPT ![s] = @ + 1]

\* ctx.Err() is nil at the loop head; runStep marks the step running.
BeginStep(s) ==
  /\ HasStep(s) /\ ~CtxDone /\ Def(s).defined
  /\ Goto(s, "step", "attempt")
  /\ stepState' = [stepState EXCEPT ![Step(s)] = "running"]
  /\ UNCHANGED <<ctx, stState, waitVars, sem, closed, cur, failed, timedOut,
                 attempts, result, collected>>

\* stepDef == nil: continue
SkipUndefined(s) ==
  /\ phase[s] = "step"
  /\ HasStep(s) /\ ~CtxDone /\ ~Def(s).defined
  /\ NextStep(s)
  /\ UNCHANGED <<ctx, phase, stState, waitVars, sem, closed, failed, timedOut,
                 stepState, attempts, result, collected>>

\* ctx.Err() is set at the loop head: the remaining steps are canceled.
CancelSteps(s) ==
  /\ HasStep(s) /\ CtxDone
  /\ Goto(s, "step", "finish")
  /\ stepState' = MarkFrom(s, cur[s], "canceled")
  /\ UNCHANGED <<ctx, stState, waitVars, sem, closed, cur, failed, timedOut,
                 attempts, result, collected>>

\* mutant: forgets the steps that failed
StageOutcomeIgnoringFailed(s) == IF CtxDone THEN "canceled" ELSE "success"
StageOutcome(s) ==
  IF s \in failed THEN "failed" ELSE IF CtxDone THEN "canceled" ELSE "success"

Finishing(s) ==
  /\ phase[s] = "finish" \/ (phase[s] = "step" /\ ~HasStep(s))
  /\ stState' = [stState EXCEPT ![s] = StageOutcome(s)]
  /\ UNCHANGED <<ctx, waitVars, sem, closed, stepVars>>

\* mutant: the goroutine returns without giving its token back
FinishStageKeepingSlot(s) ==
  Finishing(s) /\ phase' = [phase EXCEPT ![s] = "close"]
FinishStage(s) ==
  Finishing(s) /\ phase' = [phase EXCEPT ![s] = "release"]

(* The deferred calls of the goroutine, last deferred first. *)
ReleaseSlot(s) ==
  /\ Goto(s, "release", "close")
  /\ sem' = sem \ {s}
  /\ UNCHANGED <<ctx, stState, waitVars, closed, stepVars>>

\* mutant: done is closed before the stage has its last state
CloseDoneEarly(s) ==
  /\ phase[s] \in {"finish", "close"}
  /\ phase' = [phase EXCEPT ![s] = IF @ = "close" THEN "exit" ELSE @]
  /\ closed' = closed \cup {s}
  /\ UNCHANGED <<ctx, stState, waitVars, sem, stepVars>>
CloseDone(s) ==
  /\ Goto(s, "close", "exit")
  /\ closed' = closed \cup {s}
  /\ UNCHANGED <<ctx, stState, waitVars, sem, stepVars>>
-----------------------------------------------------------------------------
(* runStep, with Policy.Do and runStepOnce.  attempts[Step(s)] is the loop  *)
(* variable of Policy.Do as well as StepStatus.Attempts.                    *)

AttemptStart(s) ==
  /\ ~StepCtxDone(s)
  /\ Goto(s, "attempt", "exec")
  /\ stepState' = [stepState EXCEPT ![Step(s)] = "running"]
  /\ attempts' = [attempts EXCEPT ![Step(s)] = @ + 1]
  /\ UNCHANGED <<ctx, stState, waitVars, sem, closed, cur, failed, timedOut,
                 result, collected>>

\* Policy.Do sees a finished context before the attempt: no state is written.
AttemptRefused(s) ==
  /\ StepCtxDone(s)
  /\ Goto(s, "attempt", "stepErr")
  /\ UNCHANGED <<ctx, stState, waitVars, sem, closed, stepVars>>

ExecReturn(s) ==
  /\ Goto(s, "exec", "record")
  /\ \E r \in {"ok", "exit", "err"} : result' = [result EXCEPT ![s] = r]
  /\ UNCHANGED <<ctx, stState, waitVars, sem, closed, cur, failed, timedOut,
                 stepState, attempts, collected>>

\* mutant: an interrupted container leaves the state as it was
RecordedStateKept(s) ==
  IF result[s] = "ok" THEN "success"
  ELSE IF StepCtxDone(s) THEN stepState[Step(s)]
  ELSE "failed"
RecordedState(s) ==
  IF result[s] = "err" /\ StepCtxDone(s) THEN "canceled"
  ELSE IF result[s] # "ok" THEN "failed"
  ELSE "success"

LastAttempt(s) == attempts[Step(s)] = Def(s).retries + 1

\* mutant: MaxAttempts is Retries, not Retries + 1
AfterRecordOneShort(s) ==
  IF result[s] = "ok" THEN "collect"
  ELSE IF attempts[Step(s)] >= Def(s).retries THEN "stepErr"
  ELSE "backoff"
AfterRecord(s) ==
  IF result[s] = "ok" THEN "collect"
  ELSE IF LastAttempt(s) THEN "stepErr"
  ELSE "backoff"

Record(s) ==
  /\ phase[s] = "record"
  /\ Goto(s, "record", AfterRecord(s))
  /\ stepState' = [stepState EXCEPT ![Step(s)] = RecordedState(s)]
  /\ UNCHANGED <<ctx, stState, waitVars, sem, closed, cur, failed, timedOut,
                 attempts, result, collected>>

\* The select of Policy.Do: either branch when both are ready.
BackoffElapsed(s) ==
  /\ Goto(s, "backoff", "attempt")
  /\ UNCHANGED <<ctx, stState, waitVars, sem, closed, stepVars>>

BackoffCanceled(s) ==
  /\ StepCtxDone(s)
  /\ Goto(s, "backoff", "stepErr")
  /\ UNCHANGED <<ctx, stState, waitVars, sem, closed, stepVars>>

\* Leaving runStep: the deferred cancel drops the timer of the step context.
DropStepCtx(s) == timedOut' = timedOut \ {s}

\* A collection that fails, or that matches no file, adds nothing: the step
\* succeeds all the same.
Collect(s) ==
  /\ Goto(s, "collect", "step")
  /\ \E added \in SUBSET {Step(s)} :
       /\ added # {} => Def(s).artifacts
       /\ collected' = collected \cup added
  /\ NextStep(s)
  /\ DropStepCtx(s)
  /\ UNCHANGED <<ctx, stState, waitVars, sem, closed, failed, stepState,
                 attempts, result>>

\* allow_failure: a canceled step keeps its state.
TolerateFailure(s) ==
  /\ Goto(s, "stepErr", "step")
  /\ Def(s).allowFailure /\ ~CtxDone
  /\ stepState' = [stepState EXCEPT ![Step(s)] =
                     IF @ = "canceled" THEN @ ELSE "success"]
  /\ NextStep(s)
  /\ DropStepCtx(s)
  /\ UNCHANGED <<ctx, stState, waitVars, sem, closed, failed, attempts, result,
                 collected>>

\* mutant: no break after the failed step
AfterFailedStepGoOn(s) == Goto(s, "stepErr", "step") /\ NextStep(s)
AfterFailedStep(s) == Goto(s, "stepErr", "finish") /\ UNCHANGED cur

FailStep(s) ==
  /\ AfterFailedStep(s)
  /\ ~Def(s).allowFailure \/ CtxDone
  /\ failed' = failed \cup {s}
  /\ stepState' = MarkFrom(s, cur[s] + 1, "skipped")
  /\ DropStepCtx(s)
  /\ UNCHANGED <<ctx, stState, waitVars, sem, closed, attempts, result,
                 collected>>
-----------------------------------------------------------------------------
(* The outside world *)

\* Scheduler.Cancel, or the end of the parent context at shutdown.
CancelCtx ==
  /\ ctx = "live"
  /\ ctx' = "canceled"
  /\ UNCHANGED <<phase, stState, waitVars, sem, closed, stepVars>>

\* mutant: no timeout is ever set
StepTimeoutNever(s) == FALSE /\ UNCHANGED vars
StepTimeout(s) ==
  /\ phase[s] \in InRunStep
  /\ Def(s).timeout
  /\ s \notin timedOut
  /\ timedOut' = timedOut \cup {s}
  /\ UNCHANGED <<ctx, phase, stState, waitVars, sem, closed, cur, failed,
                 stepState, attempts, result, collected>>

AllExited == \A s \in Stage : phase[s] = "exit"

\* wg.Wait returned: runStages is over.
Finished == AllExited /\ UNCHANGED vars
-----------------------------------------------------------------------------
\* The steps a goroutine takes by itself, in the order of the source.
Advance(s) ==
  \/ AwaitDep(s) \/ SkipStage(s) \/ AcquireSlot(s) \/ CancelWaiting(s)
  \/ EnterStage(s) \/ BeginStep(s) \/ SkipUndefined(s) \/ CancelSteps(s)
  \/ AttemptStart(s) \/ AttemptRefused(s)
  \/ Record(s) \/ BackoffElapsed(s) \/ BackoffCanceled(s)
  \/ Collect(s) \/ TolerateFailure(s) \/ FailStep(s)
  \/ FinishStage(s) \/ ReleaseSlot(s) \/ CloseDone(s)

Next ==
  \/ \E s \in Stage : Advance(s) \/ ExecReturn(s) \/ StepTimeout(s)
  \/ CancelCtx
  \/ Finished

Spec == Init /\ [][Next]_vars

(***************************************************************************)
(* Fairness.  The Go scheduler runs every goroutine that can run, timers   *)
(* fire, and an executor whose context is done returns (docker.go kills    *)
(* and removes the container).  Nothing makes a container end by itself.   *)
(***************************************************************************)
Interrupted(s) == StepCtxDone(s) /\ ExecReturn(s)

SchedSpec ==
  /\ Spec
  /\ \A s \in Stage : WF_vars(Advance(s))
                      /\ WF_vars(Interrupted(s))
                      /\ WF_vars(StepTimeout(s))
-----------------------------------------------------------------------------
(* What runBuild makes of the stages when runStages returns. *)
FinalState ==
  IF \E s \in Stage : stState[s] = "failed" THEN "failed"
  ELSE IF CtxDone THEN "canceled"
  ELSE "success"
-----------------------------------------------------------------------------
(***************************************************************************)
(* Type correctness; the loop of runStage never runs past its last step.   *)
(***************************************************************************)
TypeOK ==
  /\ ctx \in {"live", "canceled"}
  /\ phase \in [Stage -> Phase]
  /\ stState \in [Stage -> State]
  /\ checked \in [Stage -> Nat]
  /\ depsFailed \in SUBSET Stage
  /\ sem \in SUBSET Stage
  /\ closed \in SUBSET Stage
  /\ cur \in [Stage -> Nat]
  /\ \A s \in Stage : cur[s] \in 1..(Len(StepDef[s]) + 1)
  /\ failed \in SUBSET Stage
  /\ timedOut \in SUBSET Stage
  /\ stepState \in [StepId -> State]
  /\ attempts \in [StepId -> Nat]
  /\ result \in [Stage -> {"none", "ok", "exit", "err"}]
  /\ collected \in SUBSET StepId

(***************************************************************************)
(* At most MaxParallelStages stages of a build run at once: the token is   *)
(* taken before runStage and given back after it, whatever the outcome.    *)
(***************************************************************************)
SlotBound == Cardinality({s \in Stage : stState[s] = "running"}) <= MaxParallel

(***************************************************************************)
(* A stage that ran had only successful dependencies, and their last state *)
(* was written before their done channel was closed (runStages).           *)
(***************************************************************************)
Ran(s) == stState[s] \in {"running", "success", "failed"}
DepsDone ==
  \A s \in Stage : Ran(s) =>
    \A d \in DepsOf[s] : d \in closed /\ stState[d] = "success"

(***************************************************************************)
(* Closing done publishes the last state of a stage: what its dependents   *)
(* read afterwards, stage or steps, no longer changes.                     *)
(***************************************************************************)
StageFrozen(s) ==
  /\ s \in closed'
  /\ stState'[s] = stState[s]
  /\ \A i \in 1..Len(StepDef[s]) :
       /\ stepState'[<<s, i>>] = stepState[<<s, i>>]
       /\ attempts'[<<s, i>>] = attempts[<<s, i>>]
ClosedIsFinal == [][\A s \in closed : StageFrozen(s)]_vars

(***************************************************************************)
(* A container starts only after every earlier step of its stage has       *)
(* succeeded.  Two kinds of step do not count: one the registered pipeline *)
(* no longer has, and one with allow_failure that ran into its timeout,    *)
(* which stays canceled (runStage's break, runStep's allow_failure branch).*)
(***************************************************************************)
Accepted(s, i) ==
  LET d == StepDef[s][i] IN
    \/ ~d.defined
    \/ stepState[<<s, i>>] = "success"
    \/ d.allowFailure /\ d.timeout /\ stepState[<<s, i>>] = "canceled"
StepsInOrder ==
  \A s \in Stage : \A i \in 1..Len(StepDef[s]) :
    attempts[<<s, i>>] > 0 => \A j \in 1..(i - 1) : Accepted(s, j)

(***************************************************************************)
(* A stage is "success" only when each of its steps is accepted: neither a *)
(* failure nor a cancellation between two steps is lost (end of runStage). *)
(***************************************************************************)
SuccessIsEarned ==
  \A s \in Stage : stState[s] = "success" =>
    \A i \in 1..Len(StepDef[s]) : Accepted(s, i)

(***************************************************************************)
(* The one way for a step to be left "running" when its stage is over:     *)
(* Policy.Do refused its first attempt, and the stage failed for it.       *)
(***************************************************************************)
OnlyRefusedStaysRunning ==
  \A s \in closed : \A i \in 1..Len(StepDef[s]) :
    stepState[<<s, i>>] = "running" =>
      /\ attempts[<<s, i>>] = 0
      /\ stState[s] = "failed"
      /\ CtxDone \/ StepDef[s][i].timeout

(***************************************************************************)
(* A step is given up as failed only when its attempts are used up, unless *)
(* the build was canceled or the step has a timeout (Policy.Do).           *)
(***************************************************************************)
RetriesUsedUp ==
  \A s \in closed : \A i \in 1..Len(StepDef[s]) :
    stepState[<<s, i>>] = "failed" =>
      \/ attempts[<<s, i>>] = StepDef[s][i].retries + 1
      \/ CtxDone
      \/ StepDef[s][i].timeout

(***************************************************************************)
(* runStages implements the promise of StageDag.                           *)
(***************************************************************************)
Dag == INSTANCE StageDag WITH status <- stState
DagSpec == Dag!Spec

(***************************************************************************)
(* runStages returns unless a container runs for ever: no stage waits for  *)
(* ever for a dependency, a token or another attempt.                      *)
(***************************************************************************)
ContainersEnd == \A s \in Stage : []<>(phase[s] # "exec")
Termination == ContainersEnd => <>AllExited

(***************************************************************************)
(* Canceling the build ends it, even when no container ends by itself.     *)
(***************************************************************************)
CancelEnds == CtxDone ~> AllExited

(***************************************************************************)
(* A step with a timeout ends, even when its container never ends by       *)
(* itself and whatever retries it has left: the timeout covers them all.   *)
(***************************************************************************)
InStep(s, i) == cur[s] = i /\ phase[s] \in InRunStep
TimedStepsEnd ==
  \A s \in Stage : \A i \in 1..Len(StepDef[s]) :
    StepDef[s][i].timeout => (InStep(s, i) ~> ~InStep(s, i))

(***************************************************************************)
(* runBuild's comment, "fail if a stage failed, mark canceled if it was    *)
(* canceled": a canceled build none of whose steps failed is not "failed". *)
(***************************************************************************)
CanceledIsNotFailed ==
  (AllExited /\ CtxDone /\ \A p \in StepId : stepState[p] # "failed")
    => FinalState # "failed"
=============================================================================
