-------------------------- MODULE StageStepProofs ---------------------------
(***************************************************************************)
(* Theorems about the steps of the stages, for every graph, every table of *)
(* steps and any number of retries; StageRunProofs has those about the     *)
(* stages.                                                                 *)
(*                                                                         *)
(* What a stage says when it is over was decided while its loop ran, so    *)
(* the invariant speaks of every line of the loop: LoopInv of the locals   *)
(* of runStage, StepInv of one step and where the loop is with it.  Both   *)
(* mention one stage only, and nothing another stage does disturbs them:   *)
(* the build's context is all they share, and it is canceled for good.     *)
(***************************************************************************)
EXTENDS StageRunProofs

Over == {"finish", "release", "close", "exit"}  \* the loop has been left

\* Policy.Do may have given up early: the build was canceled or the step has a
\* timeout.
Interruptible(s, i) == CtxDone \/ StepDef[s][i].timeout

LoopInv(s) ==
  /\ phase[s] \in {"await", "start"} => cur[s] = 1
  /\ s \in timedOut => phase[s] \in InRunStep /\ Def(s).timeout
  /\ s \in failed => phase[s] \in Over /\ (phase[s] # "finish" => stState[s] = "failed")
  /\ phase[s] = "finish" /\ s \notin failed => CtxDone
  /\ stState[s] = "success" => cur[s] = Len(StepDef[s]) + 1

\* A step left running: its attempt runs, or the first one was refused.
RunningAt(s, i) ==
  \/ phase[s] \in {"exec", "record"}
  \/ attempts[<<s, i>>] = 0 /\ phase[s] = "attempt"
  \/ attempts[<<s, i>>] = 0 /\ phase[s] = "stepErr" /\ Interruptible(s, i)
  \/ attempts[<<s, i>>] = 0 /\ phase[s] \in Over /\ s \in failed /\ Interruptible(s, i)

\* A failed attempt: another one follows, or there is no other.
FailedAt(s, i) ==
  \/ phase[s] \in {"attempt", "backoff"}
  \/ /\ phase[s] \in Over \cup {"stepErr"}
     /\ attempts[<<s, i>>] = StepDef[s][i].retries + 1 \/ Interruptible(s, i)

StepInv(s, i) ==
  /\ i < cur[s] => Accepted(s, i)
  /\ attempts[<<s, i>>] > 0 =>
       i < cur[s] \/ (i = cur[s] /\ phase[s] \notin {"await", "start", "step"})
  /\ stepState[<<s, i>>] = "running" => i = cur[s] /\ RunningAt(s, i)
  /\ stepState[<<s, i>>] = "failed" => i = cur[s] /\ FailedAt(s, i)
  /\ i = cur[s] /\ phase[s] = "collect" => stepState[<<s, i>>] = "success"
  /\ i = cur[s] /\ phase[s] \in {"attempt", "backoff", "stepErr"} =>
       \/ stepState[<<s, i>>] \in {"running", "failed"}
       \/ stepState[<<s, i>>] = "canceled" /\ Interruptible(s, i)

LocalInv(s) == LoopInv(s) /\ \A i \in 1 .. Len(StepDef[s]) : StepInv(s, i)

StageInv == DagInv /\ \A s \in Stage : LocalInv(s)

-----------------------------------------------------------------------------
(***************************************************************************)
(* The tables of steps, one entry at a time.                               *)
(***************************************************************************)
LEMMA UpdateAt ==
  ASSUME NEW S, NEW f \in [StepId -> S], NEW s \in Stage, NEW k, NEW v,
         NEW t \in Stage, NEW i \in 1 .. Len(StepDef[t])
  PROVE  [f EXCEPT ![<<s, k>>] = v][<<t, i>>]
           = IF t = s /\ i = k THEN v ELSE f[<<t, i>>]
BY InStepId

LEMMA MarkFromAt ==
  ASSUME NEW s \in Stage, NEW k, NEW st,
         NEW t \in Stage, NEW i \in 1 .. Len(StepDef[t])
  PROVE  MarkFrom(s, k, st)[<<t, i>>]
           = IF t = s /\ i >= k THEN st ELSE stepState[<<t, i>>]
BY InStepId DEF MarkFrom

(***************************************************************************)
(* What another stage does leaves a stage as it is.                        *)
(***************************************************************************)
Untouched(t) ==
  /\ phase'[t] = phase[t] /\ stState'[t] = stState[t] /\ cur'[t] = cur[t]
  /\ t \in failed' <=> t \in failed
  /\ t \in timedOut' <=> t \in timedOut
  /\ \A i \in 1 .. Len(StepDef[t]) :
       /\ stepState'[<<t, i>>] = stepState[<<t, i>>]
       /\ attempts'[<<t, i>>] = attempts[<<t, i>>]

LEMMA UntouchedKeepsInv ==
  ASSUME NEW t \in Stage, LocalInv(t), Untouched(t), CtxDone => CtxDone'
  PROVE  LocalInv(t)'
<1>1. LoopInv(t)'
  BY DEF LocalInv, LoopInv, Untouched, Def
<1>2. ASSUME NEW i \in 1 .. Len(StepDef[t]) PROVE StepInv(t, i)'
  BY DEF LocalInv, StepInv, Untouched, Accepted, RunningAt, FailedAt, Interruptible
<1> QED
  BY <1>1, <1>2 DEF LocalInv

LEMMA OthersUntouched ==
  ASSUME TypeOK, NEW s \in Stage, Advance(s) \/ ExecReturn(s) \/ StepTimeout(s),
         NEW t \in Stage, t # s
  PROVE  Untouched(t) /\ UNCHANGED ctx
<1> USE DEF TypeOK, waitVars, stepVars
<1>1. CASE \/ AwaitDep(s) \/ AcquireSlot(s) \/ CancelWaiting(s) \/ EnterStage(s)
           \/ AttemptRefused(s) \/ BackoffElapsed(s) \/ BackoffCanceled(s)
           \/ FinishStage(s) \/ ReleaseSlot(s) \/ CloseDone(s)
  BY <1>1 DEF Untouched, AwaitDep, AcquireSlot, CancelWaiting, EnterStage, AttemptRefused,
              BackoffElapsed, BackoffCanceled, FinishStage, Finishing, ReleaseSlot, CloseDone,
              Goto
<1>2. CASE SkipStage(s) \/ CancelSteps(s)
  BY <1>2, MarkFromAt DEF Untouched, SkipStage, CancelSteps, Goto
<1>3. CASE SkipUndefined(s) \/ Collect(s)
  BY <1>3 DEF Untouched, SkipUndefined, Collect, NextStep, DropStepCtx, Goto
<1>4. CASE BeginStep(s) \/ Record(s)
  <2>1. PICK v : stepState' = [stepState EXCEPT ![<<s, cur[s]>>] = v]
    BY <1>4 DEF BeginStep, Record, Step
  <2>2. \A i \in 1 .. Len(StepDef[t]) : stepState'[<<t, i>>] = stepState[<<t, i>>]
    BY <2>1, UpdateAt
  <2> QED
    BY <1>4, <2>2 DEF Untouched, BeginStep, Record, Goto
<1>5. CASE AttemptStart(s)
  BY <1>5, UpdateAt DEF Untouched, AttemptStart, Step, Goto
<1>6. CASE TolerateFailure(s)
  <2>1. PICK v : stepState' = [stepState EXCEPT ![<<s, cur[s]>>] = v]
    BY <1>6 DEF TolerateFailure, Step
  <2>2. \A i \in 1 .. Len(StepDef[t]) : stepState'[<<t, i>>] = stepState[<<t, i>>]
    BY <2>1, UpdateAt
  <2> QED
    BY <1>6, <2>2 DEF Untouched, TolerateFailure, NextStep, DropStepCtx, Goto
<1>7. CASE FailStep(s)
  <2>1. \A i \in 1 .. Len(StepDef[t]) : stepState'[<<t, i>>] = stepState[<<t, i>>]
    BY <1>7, MarkFromAt DEF FailStep
  <2> QED
    BY <1>7, <2>1 DEF Untouched, FailStep, AfterFailedStep, DropStepCtx, Goto
<1>8. CASE ExecReturn(s) \/ StepTimeout(s)
  BY <1>8 DEF Untouched, ExecReturn, StepTimeout, Goto
<1> QED
  BY <1>1, <1>2, <1>3, <1>4, <1>5, <1>6, <1>7, <1>8 DEF Advance

-----------------------------------------------------------------------------
(***************************************************************************)
(* What a stage's own step makes of its loop and its steps.                *)
(***************************************************************************)

\* The loop is at step cur and its step moves to another line of runStep.
LEMMA AtCur ==
  ASSUME StageInv, NEW s \in Stage, phase[s] \in InRunStep
  PROVE  /\ cur[s] \in 1 .. Len(StepDef[s]) /\ s \notin failed
         /\ stState[s] = "running"
         /\ StepInv(s, cur[s])
<1>1. cur[s] \in 1 .. Len(StepDef[s])
  BY LenStepDef DEF StageInv, DagInv, TypeInv, TypeOK, HasStep
<1>2. s \notin failed
  BY DEF StageInv, LocalInv, LoopInv, InRunStep, Over
<1>3. stState[s] = "running"
  BY DEF StageInv, DagInv, PhaseInv, Inner
<1> QED
  BY <1>1, <1>2, <1>3 DEF StageInv, LocalInv

LEMMA WaitingKeepsInv ==
  ASSUME StageInv, NEW s \in Stage,
         AwaitDep(s) \/ AcquireSlot(s) \/ CancelWaiting(s) \/ EnterStage(s)
  PROVE  LocalInv(s)'
<1>1. /\ phase[s] \in {"await", "start"}
      /\ phase'[s] \in {"await", "start", "step", "close"}
      /\ phase'[s] \in {"await", "start", "close"} \/ phase'[s] = "step"
      /\ stState'[s] # "success" /\ stState[s] # "success"
      /\ UNCHANGED <<ctx, cur, failed, timedOut, stepState, attempts>>
  BY DEF StageInv, DagInv, PhaseInv, TypeInv, TypeOK, AwaitDep, AcquireSlot, CancelWaiting,
         EnterStage, Goto, stepVars
<1>2. LocalInv(s)
  BY DEF StageInv
<1>3. LoopInv(s)'
  BY <1>1, <1>2 DEF LocalInv, LoopInv, InRunStep, Over, Def
<1>4. ASSUME NEW i \in 1 .. Len(StepDef[s]) PROVE StepInv(s, i)'
  <2>1. StepInv(s, i) /\ cur[s] = 1 /\ i \in Nat \ {0} /\ attempts[<<s, i>>] \in Nat
    BY <1>1, <1>2, InStepId, LenStepDef DEF LocalInv, LoopInv, StageInv, DagInv, TypeInv, TypeOK
  <2>2. stepState[<<s, i>>] \notin {"running", "failed"} /\ ~ (attempts[<<s, i>>] > 0) /\ ~ (i < cur[s])
    BY <1>1, <2>1 DEF StepInv, RunningAt, FailedAt, Over
  <2> QED
    BY <1>1, <2>2 DEF StepInv
<1> QED
  BY <1>3, <1>4 DEF LocalInv

LEMMA SkipStageKeepsInv ==
  ASSUME StageInv, NEW s \in Stage, SkipStage(s)
  PROVE  LocalInv(s)'
<1>1. /\ phase[s] = "await" /\ phase'[s] = "close" /\ stState'[s] = "skipped"
      /\ UNCHANGED <<ctx, cur, failed, timedOut, attempts>>
      /\ \A i \in 1 .. Len(StepDef[s]) : i >= 1 => stepState'[<<s, i>>] = "skipped"
  BY MarkFromAt DEF StageInv, DagInv, TypeInv, TypeOK, SkipStage, Goto
<1>2. LocalInv(s)
  BY DEF StageInv
<1>3. LoopInv(s)'
  BY <1>1, <1>2 DEF LocalInv, LoopInv, InRunStep, Over, Def
<1>4. ASSUME NEW i \in 1 .. Len(StepDef[s]) PROVE StepInv(s, i)'
  <2>1. StepInv(s, i) /\ cur[s] = 1 /\ i >= 1 /\ ~ (i < cur[s])
    BY <1>1, <1>2, LenStepDef DEF LocalInv, LoopInv
  <2> QED
    BY <1>1, <2>1 DEF StepInv
<1> QED
  BY <1>3, <1>4 DEF LocalInv

LEMMA LeavingKeepsInv ==
  ASSUME StageInv, NEW s \in Stage, FinishStage(s) \/ ReleaseSlot(s) \/ CloseDone(s)
  PROVE  LocalInv(s)'
<1>1. LocalInv(s) /\ (stState[s] # "success" \/ phase[s] \in {"release", "close", "exit"})
  BY DEF StageInv, DagInv, PhaseInv, FinishStage, Finishing, ReleaseSlot, CloseDone, Goto,
         Inner
<1>2. /\ UNCHANGED <<ctx, cur, failed, timedOut, stepState, attempts>>
      /\ phase'[s] \in {"release", "close", "exit"}
  BY DEF StageInv, DagInv, TypeInv, TypeOK, FinishStage, Finishing, ReleaseSlot, CloseDone,
         Goto, stepVars
<1>3. LoopInv(s)'
  <2>1. CASE FinishStage(s)
    <3>1. stState'[s] = StageOutcome(s)
      BY <2>1 DEF StageInv, DagInv, TypeInv, TypeOK, FinishStage, Finishing
    <3>2. cur[s] \in 1 .. Len(StepDef[s]) + 1 /\ Len(StepDef[s]) \in Nat
      BY LenStepDef DEF StageInv, DagInv, TypeInv, TypeOK
    <3>3. phase[s] = "finish" \/ (phase[s] = "step" /\ cur[s] = Len(StepDef[s]) + 1)
      BY <2>1, <3>2 DEF FinishStage, Finishing, HasStep
    <3> QED
      BY <1>1, <1>2, <3>1, <3>3 DEF StageOutcome, LocalInv, LoopInv, InRunStep, Over, CtxDone, Def
  <2>2. CASE ReleaseSlot(s) \/ CloseDone(s)
    <3>1. stState' = stState /\ phase[s] \in {"release", "close"}
      BY <2>2 DEF ReleaseSlot, CloseDone, Goto
    <3> QED
      BY <1>1, <1>2, <3>1 DEF LocalInv, LoopInv, InRunStep, Over, Def
  <2> QED
    BY <2>1, <2>2
<1>4. ASSUME NEW i \in 1 .. Len(StepDef[s]) PROVE StepInv(s, i)'
  <2>1. StepInv(s, i)
    BY <1>1 DEF LocalInv
  <2>2. phase[s] \in {"finish", "release", "close"}
          \/ (phase[s] = "step" /\ stepState[<<s, i>>] \notin {"running", "failed"})
    <3>1. phase[s] \in {"step", "finish", "release", "close"}
      BY DEF FinishStage, Finishing, ReleaseSlot, CloseDone, Goto
    <3> QED
      BY <2>1, <3>1 DEF StepInv, RunningAt, FailedAt, Over
  <2>3. phase[s] = "step" => i < cur[s]
    <3>1. CASE phase[s] = "step"
      <4>1. ~ HasStep(s) /\ cur[s] \in Nat /\ Len(StepDef[s]) \in Nat
        BY <3>1, LenStepDef DEF StageInv, DagInv, TypeInv, TypeOK, FinishStage, Finishing,
                               ReleaseSlot, CloseDone, Goto
      <4> QED
        BY <4>1 DEF HasStep
    <3> QED
      BY <3>1
  <2> QED
    BY <1>2, <2>1, <2>2, <2>3 DEF StepInv, Accepted, RunningAt, FailedAt, Interruptible, CtxDone, Over
<1> QED
  BY <1>3, <1>4 DEF LocalInv

-----------------------------------------------------------------------------
(* The loop of runStage *)

LEMMA BeginStepKeepsInv ==
  ASSUME StageInv, NEW s \in Stage, BeginStep(s)
  PROVE  LocalInv(s)'
<1>1. /\ phase[s] = "step" /\ phase'[s] = "attempt" /\ stState[s] # "success"
      /\ UNCHANGED <<ctx, stState, cur, failed, timedOut, attempts>>
      /\ stepState' = [stepState EXCEPT ![<<s, cur[s]>>] = "running"]
      /\ stepState \in [StepId -> State] /\ attempts \in [StepId -> Nat]
      /\ s \notin failed /\ s \notin timedOut
  BY DEF StageInv, DagInv, PhaseInv, Inner, TypeInv, TypeOK, BeginStep, Goto, Step, LocalInv,
         LoopInv, Over, InRunStep
<1>2. LoopInv(s)'
  BY <1>1 DEF StageInv, LocalInv, LoopInv, InRunStep, Over
<1>3. ASSUME NEW i \in 1 .. Len(StepDef[s]) PROVE StepInv(s, i)'
  <2>1. StepInv(s, i) /\ attempts[<<s, i>>] \in Nat
    BY <1>1, InStepId DEF StageInv, LocalInv
  <2>2. stepState'[<<s, i>>] = IF i = cur[s] THEN "running" ELSE stepState[<<s, i>>]
    BY <1>1, InStepId
  <2>3. CASE i = cur[s]
    <3>1. attempts[<<s, i>>] = 0 /\ ~ (i < cur[s])
      BY <1>1, <2>1, <2>3, LenStepDef DEF StepInv
    <3> QED
      BY <1>1, <2>2, <2>3, <3>1 DEF StepInv, RunningAt
  <2>4. CASE i # cur[s]
    BY <1>1, <2>1, <2>2, <2>4 DEF StepInv, Accepted, RunningAt, FailedAt
  <2> QED
    BY <2>3, <2>4
<1> QED
  BY <1>2, <1>3 DEF LocalInv

LEMMA SkipUndefinedKeepsInv ==
  ASSUME StageInv, NEW s \in Stage, SkipUndefined(s)
  PROVE  LocalInv(s)'
<1>1. /\ phase[s] = "step" /\ stState[s] # "success"
      /\ UNCHANGED <<ctx, phase, stState, failed, timedOut, stepState, attempts>>
      /\ cur'[s] = cur[s] + 1 /\ cur[s] \in Nat /\ ~ StepDef[s][cur[s]].defined
  BY DEF StageInv, DagInv, PhaseInv, Inner, TypeInv, TypeOK, SkipUndefined, NextStep, Def
<1>2. LoopInv(s)'
  BY <1>1 DEF StageInv, LocalInv, LoopInv, InRunStep, Over
<1>3. ASSUME NEW i \in 1 .. Len(StepDef[s]) PROVE StepInv(s, i)'
  <2>1. StepInv(s, i) /\ i \in Nat
    BY LenStepDef DEF StageInv, LocalInv
  <2>2. stepState[<<s, i>>] \notin {"running", "failed"}
    BY <1>1, <2>1 DEF StepInv, RunningAt, FailedAt, Over
  <2>3. i < cur[s] + 1 => Accepted(s, i)
    <3>1. i = cur[s] => Accepted(s, i)
      BY <1>1 DEF Accepted
    <3> QED
      BY <1>1, <2>1, <3>1 DEF StepInv
  <2>4. attempts[<<s, i>>] > 0 => i < cur[s] + 1
    BY <1>1, <2>1 DEF StepInv
  <2> QED
    BY <1>1, <2>2, <2>3, <2>4 DEF StepInv, Accepted
<1> QED
  BY <1>2, <1>3 DEF LocalInv

LEMMA CancelStepsKeepsInv ==
  ASSUME StageInv, NEW s \in Stage, CancelSteps(s)
  PROVE  LocalInv(s)'
<1>1. /\ phase[s] = "step" /\ phase'[s] = "finish" /\ stState[s] # "success" /\ CtxDone
      /\ UNCHANGED <<ctx, stState, cur, failed, timedOut, attempts>>
      /\ stepState' = MarkFrom(s, cur[s], "canceled")
      /\ s \notin failed /\ s \notin timedOut /\ cur[s] \in Nat
  BY DEF StageInv, DagInv, PhaseInv, Inner, TypeInv, TypeOK, CancelSteps, Goto, LocalInv,
         LoopInv, Over, InRunStep
<1>2. LoopInv(s)'
  BY <1>1 DEF StageInv, LocalInv, LoopInv, InRunStep, Over, CtxDone
<1>3. ASSUME NEW i \in 1 .. Len(StepDef[s]) PROVE StepInv(s, i)'
  <2>1. StepInv(s, i) /\ i \in Nat
    BY LenStepDef DEF StageInv, LocalInv
  <2>2. CASE i >= cur[s]
    <3>1. stepState'[<<s, i>>] = "canceled" /\ ~ (i < cur[s])
      BY <1>1, <2>1, <2>2, MarkFromAt
    <3> QED
      BY <1>1, <2>1, <3>1 DEF StepInv
  <2>3. CASE ~ (i >= cur[s])
    <3>1. stepState'[<<s, i>>] = stepState[<<s, i>>] /\ i # cur[s]
      BY <1>1, <2>1, <2>3, MarkFromAt
    <3> QED
      BY <1>1, <2>1, <3>1 DEF StepInv, Accepted
  <2> QED
    BY <2>2, <2>3
<1> QED
  BY <1>2, <1>3 DEF LocalInv

-----------------------------------------------------------------------------
(* runStep and Policy.Do: only the step the loop is at changes. *)

LEMMA AtStepKeepsInv ==
  ASSUME StageInv, NEW s \in Stage, phase[s] \in InRunStep, phase'[s] \in InRunStep,
         UNCHANGED <<ctx, stState, cur, failed>>,
         s \in timedOut' => s \in timedOut \/ Def(s).timeout,
         \A i \in 1 .. Len(StepDef[s]) : i # cur[s] =>
           /\ stepState'[<<s, i>>] = stepState[<<s, i>>]
           /\ attempts'[<<s, i>>] = attempts[<<s, i>>],
         StepInv(s, cur[s])'
  PROVE  LocalInv(s)'
<1>1. LocalInv(s) /\ cur[s] \in 1 .. Len(StepDef[s]) /\ s \notin failed /\ stState[s] = "running"
  BY AtCur DEF StageInv
<1>2. LoopInv(s)'
  BY <1>1 DEF LocalInv, LoopInv, InRunStep, Over, Def
<1>3. ASSUME NEW i \in 1 .. Len(StepDef[s]) PROVE StepInv(s, i)'
  <2>1. CASE i = cur[s]
    BY <2>1
  <2>2. CASE i # cur[s]
    BY <1>1, <2>2 DEF LocalInv, StepInv, Accepted
  <2> QED
    BY <2>1, <2>2
<1> QED
  BY <1>2, <1>3 DEF LocalInv

LEMMA AttemptKeepsInv ==
  ASSUME StageInv, NEW s \in Stage, AttemptStart(s) \/ AttemptRefused(s)
  PROVE  LocalInv(s)'
<1> DEFINE c == cur[s]
<1>1. /\ c \in 1 .. Len(StepDef[s]) /\ StepInv(s, c) /\ s \notin failed /\ c \in Nat
      /\ <<s, c>> \in StepId /\ phase[s] = "attempt"
      /\ stepState \in [StepId -> State] /\ attempts \in [StepId -> Nat]
      /\ phase \in [Stage -> Phase]
  BY AtCur, InStepId, LenStepDef
  DEF StageInv, DagInv, TypeInv, TypeOK, AttemptStart, AttemptRefused, Goto, InRunStep
<1> HIDE DEF c
<1>2. CASE AttemptStart(s)
  <2>1. /\ phase'[s] = "exec" /\ UNCHANGED <<ctx, stState, cur, failed, timedOut>>
        /\ stepState' = [stepState EXCEPT ![<<s, c>>] = "running"]
        /\ attempts' = [attempts EXCEPT ![<<s, c>>] = @ + 1]
    BY <1>1, <1>2 DEF AttemptStart, Goto, Step, c
  <2>2. stepState'[<<s, c>>] = "running"
    BY <1>1, <2>1
  <2>3. StepInv(s, c)'
    BY <1>1, <2>1, <2>2 DEF StepInv, RunningAt, c
  <2>4. \A i \in 1 .. Len(StepDef[s]) : i # c =>
          /\ stepState'[<<s, i>>] = stepState[<<s, i>>]
          /\ attempts'[<<s, i>>] = attempts[<<s, i>>]
    BY <1>1, <2>1, UpdateAt
  <2>5. c' = c
    BY <2>1 DEF c
  <2> QED
    BY <1>1, <2>1, <2>3, <2>4, <2>5, AtStepKeepsInv DEF InRunStep, c
<1>3. CASE AttemptRefused(s)
  <2>1. /\ phase'[s] = "stepErr" /\ UNCHANGED <<ctx, stState, cur, failed, timedOut, stepState, attempts>>
        /\ Interruptible(s, c)
    BY <1>1, <1>3 DEF AttemptRefused, StepCtxDone, Goto, stepVars, Interruptible, StageInv,
                      LocalInv, LoopInv, Def, c
  <2>2. StepInv(s, c)'
    BY <1>1, <2>1 DEF StepInv, Accepted, RunningAt, FailedAt, Interruptible, CtxDone, c
  <2> QED
    BY <1>1, <2>1, <2>2, AtStepKeepsInv DEF InRunStep, c
<1> QED
  BY <1>2, <1>3

LEMMA ReturnKeepsInv ==
  ASSUME StageInv, NEW s \in Stage,
         ExecReturn(s) \/ StepTimeout(s) \/ BackoffElapsed(s) \/ BackoffCanceled(s)
  PROVE  LocalInv(s)'
<1> DEFINE c == cur[s]
<1>1. /\ phase[s] \in InRunStep /\ phase'[s] \in InRunStep
      /\ UNCHANGED <<ctx, stState, cur, failed, stepState, attempts>>
      /\ s \in timedOut' => s \in timedOut \/ Def(s).timeout
  BY DEF StageInv, DagInv, TypeInv, TypeOK, ExecReturn, StepTimeout, BackoffElapsed,
         BackoffCanceled, Goto, stepVars, InRunStep
<1>2. c \in 1 .. Len(StepDef[s]) /\ StepInv(s, c) /\ c' = c
  BY <1>1, AtCur
<1>3. /\ \/ phase'[s] = phase[s]
         \/ phase[s] = "exec" /\ phase'[s] = "record"
         \/ phase[s] = "backoff" /\ phase'[s] = "attempt"
         \/ phase[s] = "backoff" /\ phase'[s] = "stepErr" /\ Interruptible(s, c)
  BY DEF StageInv, DagInv, TypeInv, TypeOK, LocalInv, LoopInv, ExecReturn, StepTimeout,
         BackoffElapsed, BackoffCanceled, StepCtxDone, Goto, Interruptible, Def
<1>4. StepInv(s, c)'
  <2> HIDE DEF c
  <2>1. c = cur[s]
    BY DEF c
  <2> QED
    BY <1>1, <1>2, <1>3, <2>1
    DEF StepInv, Accepted, RunningAt, FailedAt, Interruptible, CtxDone, Over, InRunStep
<1> QED
  BY <1>1, <1>2, <1>4, AtStepKeepsInv

LEMMA RecordKeepsInv ==
  ASSUME StageInv, NEW s \in Stage, Record(s)
  PROVE  LocalInv(s)'
<1> DEFINE c == cur[s]
<1>1. /\ c \in 1 .. Len(StepDef[s]) /\ <<s, c>> \in StepId /\ StepInv(s, c)
      /\ stepState \in [StepId -> State]
      /\ phase[s] = "record" /\ phase'[s] = AfterRecord(s)
      /\ UNCHANGED <<ctx, stState, cur, failed, timedOut, attempts>>
      /\ stepState' = [stepState EXCEPT ![<<s, c>>] = RecordedState(s)]
      /\ s \in timedOut => StepDef[s][c].timeout
  BY AtCur, InStepId
  DEF StageInv, DagInv, TypeInv, TypeOK, LocalInv, LoopInv, Record, Goto, Step, Def, InRunStep
<1> HIDE DEF c
<1>2. stepState'[<<s, c>>] = RecordedState(s)
  BY <1>1
<1>3. \A i \in 1 .. Len(StepDef[s]) : i # c => stepState'[<<s, i>>] = stepState[<<s, i>>]
  BY <1>1, InStepId
<1>4. c = cur[s] /\ c' = c
  BY <1>1 DEF c
<1>5. CASE result[s] = "ok"
  <2>1. phase'[s] = "collect" /\ stepState'[<<s, c>>] = "success"
    BY <1>1, <1>2, <1>5 DEF AfterRecord, RecordedState
  <2>2. StepInv(s, c)'
    BY <1>1, <1>4, <2>1 DEF StepInv, Accepted
  <2> QED
    BY <1>1, <1>3, <1>4, <2>1, <2>2, AtStepKeepsInv DEF InRunStep
<1>6. CASE result[s] # "ok"
  <2>1. \/ stepState'[<<s, c>>] = "failed"
        \/ stepState'[<<s, c>>] = "canceled" /\ Interruptible(s, c)
    BY <1>1, <1>2, <1>6 DEF RecordedState, StepCtxDone, Interruptible
  <2>2. \/ phase'[s] = "backoff"
        \/ phase'[s] = "stepErr" /\ attempts[<<s, c>>] = StepDef[s][c].retries + 1
    BY <1>1, <1>4, <1>6 DEF AfterRecord, LastAttempt, Step, Def
  <2>3. StepInv(s, c)'
    BY <1>1, <1>4, <2>1, <2>2 DEF StepInv, Accepted, FailedAt, Interruptible, CtxDone, Over
  <2> QED
    BY <1>1, <1>3, <1>4, <2>2, <2>3, AtStepKeepsInv DEF InRunStep
<1> QED
  BY <1>5, <1>6

\* The step is accepted, and the loop goes on with the next one.
LEMMA AcceptKeepsInv ==
  ASSUME StageInv, NEW s \in Stage, phase[s] \in InRunStep, phase'[s] = "step",
         UNCHANGED <<ctx, stState, failed, attempts>>,
         s \notin timedOut', cur'[s] = cur[s] + 1,
         \A i \in 1 .. Len(StepDef[s]) : i # cur[s] => stepState'[<<s, i>>] = stepState[<<s, i>>],
         \A i \in 1 .. Len(StepDef[s]) : i = cur[s] => Accepted(s, i)',
         stepState'[<<s, cur[s]>>] \notin {"running", "failed"}
  PROVE  LocalInv(s)'
<1>1. /\ LocalInv(s) /\ cur[s] \in 1 .. Len(StepDef[s]) /\ s \notin failed
      /\ stState[s] = "running" /\ Len(StepDef[s]) \in Nat
  BY AtCur, LenStepDef DEF StageInv
<1>2. LoopInv(s)'
  BY <1>1 DEF LocalInv, LoopInv, Over
<1>3. ASSUME NEW i \in 1 .. Len(StepDef[s]) PROVE StepInv(s, i)'
  <2>1. StepInv(s, i) /\ i \in Nat /\ cur[s] \in Nat
    BY <1>1 DEF LocalInv
  <2>2. attempts[<<s, i>>] > 0 => i < cur[s] + 1
    BY <2>1 DEF StepInv
  <2>3. CASE i = cur[s]
    <3>1. Accepted(s, i)' /\ stepState'[<<s, i>>] \notin {"running", "failed"} /\ i < cur'[s]
      BY <2>1, <2>3
    <3> QED
      BY <2>1, <2>2, <3>1 DEF StepInv
  <2>4. CASE i # cur[s]
    <3>1. stepState'[<<s, i>>] = stepState[<<s, i>>] /\ stepState[<<s, i>>] \notin {"running", "failed"}
      BY <2>1, <2>4 DEF StepInv
    <3>2. i < cur'[s] => Accepted(s, i)'
      BY <2>1, <2>4, <3>1 DEF StepInv, Accepted
    <3> QED
      BY <2>1, <2>2, <3>1, <3>2 DEF StepInv
  <2> QED
    BY <2>3, <2>4
<1> QED
  BY <1>2, <1>3 DEF LocalInv

LEMMA CollectKeepsInv ==
  ASSUME StageInv, NEW s \in Stage, Collect(s)
  PROVE  LocalInv(s)'
<1>1. /\ phase[s] = "collect" /\ phase'[s] = "step" /\ s \notin timedOut'
      /\ UNCHANGED <<ctx, stState, failed, attempts, stepState>>
      /\ cur'[s] = cur[s] + 1
  BY DEF StageInv, DagInv, TypeInv, TypeOK, Collect, Goto, NextStep, DropStepCtx
<1>2. phase[s] \in InRunStep /\ stepState[<<s, cur[s]>>] = "success"
  BY <1>1, AtCur DEF InRunStep, StepInv
<1>3. \A i \in 1 .. Len(StepDef[s]) : i = cur[s] => Accepted(s, i)'
  BY <1>1, <1>2 DEF Accepted
<1> QED
  BY <1>1, <1>2, <1>3, AcceptKeepsInv

LEMMA TolerateKeepsInv ==
  ASSUME StageInv, NEW s \in Stage, TolerateFailure(s)
  PROVE  LocalInv(s)'
<1> DEFINE c == cur[s]
           was == stepState[<<s, c>>]
<1>1. /\ phase[s] = "stepErr" /\ phase'[s] = "step" /\ s \notin timedOut'
      /\ UNCHANGED <<ctx, stState, failed, attempts>>
      /\ cur'[s] = c + 1 /\ StepDef[s][c].allowFailure /\ ~CtxDone
      /\ stepState' = [stepState EXCEPT ![<<s, c>>] = IF @ = "canceled" THEN @ ELSE "success"]
      /\ stepState \in [StepId -> State]
  BY DEF StageInv, DagInv, TypeInv, TypeOK, TolerateFailure, Goto, NextStep, DropStepCtx, Step,
         Def
<1>2. phase[s] \in InRunStep /\ c \in 1 .. Len(StepDef[s]) /\ StepInv(s, c)
  BY <1>1, AtCur DEF InRunStep
<1>3. was \in {"running", "failed"} \/ (was = "canceled" /\ StepDef[s][c].timeout)
  BY <1>1, <1>2 DEF StepInv, Interruptible
<1> HIDE DEF c, was
<1>4. stepState'[<<s, c>>] = IF was = "canceled" THEN was ELSE "success"
  BY <1>1, <1>2, InStepId DEF was
<1>5. \A i \in 1 .. Len(StepDef[s]) : i # c => stepState'[<<s, i>>] = stepState[<<s, i>>]
  BY <1>1, InStepId
<1>6. \A i \in 1 .. Len(StepDef[s]) : i = c => Accepted(s, i)'
  BY <1>1, <1>3, <1>4 DEF Accepted
<1>7. stepState'[<<s, c>>] \notin {"running", "failed"}
  BY <1>3, <1>4
<1> QED
  BY <1>1, <1>2, <1>5, <1>6, <1>7, AcceptKeepsInv DEF c

LEMMA FailStepKeepsInv ==
  ASSUME StageInv, NEW s \in Stage, FailStep(s)
  PROVE  LocalInv(s)'
<1>1. /\ phase[s] = "stepErr" /\ phase'[s] = "finish" /\ s \notin timedOut' /\ s \in failed'
      /\ UNCHANGED <<ctx, stState, cur, attempts>>
      /\ stepState' = MarkFrom(s, cur[s] + 1, "skipped")
  BY DEF StageInv, DagInv, TypeInv, TypeOK, FailStep, AfterFailedStep, Goto, DropStepCtx
<1>2. /\ LocalInv(s) /\ cur[s] \in 1 .. Len(StepDef[s]) /\ stState[s] = "running"
      /\ Len(StepDef[s]) \in Nat
  BY <1>1, AtCur, LenStepDef DEF StageInv, InRunStep
<1>3. LoopInv(s)'
  BY <1>1, <1>2 DEF LoopInv, Over
<1>4. ASSUME NEW i \in 1 .. Len(StepDef[s]) PROVE StepInv(s, i)'
  <2>1. StepInv(s, i) /\ i \in Nat /\ cur[s] \in Nat
    BY <1>2 DEF LocalInv
  <2>2. CASE i <= cur[s]
    <3>1. stepState'[<<s, i>>] = stepState[<<s, i>>]
      BY <1>1, <2>1, <2>2, MarkFromAt
    <3> QED
      BY <1>1, <2>1, <2>2, <3>1
      DEF StepInv, Accepted, RunningAt, FailedAt, Interruptible, CtxDone, Over
  <2>3. CASE ~ (i <= cur[s])
    <3>1. stepState'[<<s, i>>] = "skipped" /\ ~ (i < cur[s]) /\ i # cur[s]
      BY <1>1, <2>1, <2>3, MarkFromAt
    <3> QED
      BY <1>1, <2>1, <3>1 DEF StepInv
  <2> QED
    BY <2>2, <2>3
<1> QED
  BY <1>3, <1>4 DEF LocalInv

-----------------------------------------------------------------------------
LEMMA StageInvInit == Init => StageInv
<1> SUFFICES ASSUME Init PROVE StageInv
  OBVIOUS
<1>1. DagInv
  BY DagInvInit
<1>2. ASSUME NEW s \in Stage PROVE LoopInv(s)
  BY DEF Init, LoopInv
<1>3. ASSUME NEW s \in Stage, NEW i \in 1 .. Len(StepDef[s]) PROVE StepInv(s, i)
  <2>1. stepState[<<s, i>>] = "pending" /\ attempts[<<s, i>>] = 0 /\ cur[s] = 1 /\ phase[s] = "await"
    BY InStepId DEF Init
  <2>2. ~ (i < 1)
    BY LenStepDef
  <2> QED
    BY <2>1, <2>2 DEF StepInv
<1> QED
  BY <1>1, <1>2, <1>3 DEF StageInv, LocalInv

LEMMA StageInvStep == StageInv /\ [Next]_vars => StageInv'
<1> SUFFICES ASSUME StageInv, [Next]_vars PROVE StageInv'
  OBVIOUS
<1>1. DagInv'
  BY DagInvNext DEF StageInv
<1>2. TypeOK /\ \A t \in Stage : LocalInv(t)
  BY DEF StageInv, DagInv, TypeInv
<1>3. ASSUME NEW s \in Stage, Advance(s) \/ ExecReturn(s) \/ StepTimeout(s)
      PROVE  \A t \in Stage : LocalInv(t)'
  <2>1. LocalInv(s)'
    BY <1>3, WaitingKeepsInv, SkipStageKeepsInv, LeavingKeepsInv, BeginStepKeepsInv,
       SkipUndefinedKeepsInv, CancelStepsKeepsInv, AttemptKeepsInv, ReturnKeepsInv,
       RecordKeepsInv, CollectKeepsInv, TolerateKeepsInv, FailStepKeepsInv
    DEF Advance
  <2>2. ASSUME NEW t \in Stage, t # s PROVE LocalInv(t)'
    <3>1. Untouched(t) /\ UNCHANGED ctx
      BY <1>2, <1>3, <2>2, OthersUntouched
    <3> QED
      BY <1>2, <3>1, UntouchedKeepsInv DEF CtxDone
  <2> QED
    BY <2>1, <2>2
<1>4. ASSUME CancelCtx \/ Finished \/ UNCHANGED vars, NEW t \in Stage
      PROVE  LocalInv(t)'
  <2>1. Untouched(t)
    BY <1>4 DEF CancelCtx, Finished, vars, stepVars, Untouched
  <2>2. CtxDone => CtxDone'
    BY <1>4 DEF CancelCtx, Finished, vars, CtxDone
  <2> QED
    BY <1>2, <2>1, <2>2, UntouchedKeepsInv
<1>5. ASSUME NEW t \in Stage PROVE LocalInv(t)'
  BY <1>3, <1>4 DEF Next
<1> QED
  BY <1>1, <1>5 DEF StageInv

\* The invariant that the theorems below read off.
THEOREM StageInvHolds == Spec => []StageInv
BY StageInvInit, StageInvStep, PTL DEF Spec

(***************************************************************************)
(* No container of a step starts before every earlier step of its stage    *)
(* was accepted, whatever the table of steps.                              *)
(***************************************************************************)
THEOREM StepsInOrderHolds == Spec => []StepsInOrder
<1>1. StageInv => StepsInOrder
  <2> SUFFICES ASSUME StageInv, NEW s \in Stage, NEW i \in 1 .. Len(StepDef[s]),
                      attempts[<<s, i>>] > 0, NEW j \in 1 .. (i - 1)
               PROVE  Accepted(s, j)
    BY DEF StepsInOrder
  <2>1. StepInv(s, i) /\ j \in 1 .. Len(StepDef[s]) /\ cur[s] \in Nat
    BY LenStepDef DEF StageInv, LocalInv, DagInv, TypeInv, TypeOK
  <2>2. StepInv(s, j)
    BY <2>1 DEF StageInv, LocalInv
  <2>3. j < cur[s]
    BY <2>1 DEF StepInv
  <2> QED
    BY <2>2, <2>3 DEF StepInv
<1> QED
  BY <1>1, StageInvHolds, PTL

(***************************************************************************)
(* A stage reports success only when the loop went through all its steps   *)
(* and accepted each.                                                      *)
(***************************************************************************)
THEOREM SuccessIsEarnedHolds == Spec => []SuccessIsEarned
<1>1. StageInv => SuccessIsEarned
  <2> SUFFICES ASSUME StageInv, NEW s \in Stage, stState[s] = "success",
                      NEW i \in 1 .. Len(StepDef[s])
               PROVE  Accepted(s, i)
    BY DEF SuccessIsEarned
  <2>1. StepInv(s, i) /\ cur[s] = Len(StepDef[s]) + 1 /\ Len(StepDef[s]) \in Nat
    BY LenStepDef DEF StageInv, LocalInv, LoopInv
  <2> QED
    BY <2>1 DEF StepInv
<1> QED
  BY <1>1, StageInvHolds, PTL

(***************************************************************************)
(* A step left running behind a finished stage is one whose first attempt  *)
(* was refused, and its stage failed for it.                               *)
(***************************************************************************)
THEOREM OnlyRefusedStaysRunningHolds == Spec => []OnlyRefusedStaysRunning
<1>1. StageInv => OnlyRefusedStaysRunning
  <2> SUFFICES ASSUME StageInv, NEW s \in closed, NEW i \in 1 .. Len(StepDef[s]),
                      stepState[<<s, i>>] = "running"
               PROVE  /\ attempts[<<s, i>>] = 0 /\ stState[s] = "failed"
                      /\ CtxDone \/ StepDef[s][i].timeout
    BY DEF OnlyRefusedStaysRunning
  <2>1. s \in Stage /\ phase[s] = "exit"
    BY DEF StageInv, DagInv, PhaseInv, TypeInv, TypeOK
  <2>2. StepInv(s, i) /\ LoopInv(s)
    BY <2>1 DEF StageInv, LocalInv
  <2> QED
    BY <2>1, <2>2 DEF StepInv, LoopInv, RunningAt, Interruptible
<1> QED
  BY <1>1, StageInvHolds, PTL

(***************************************************************************)
(* A step is given up only when its attempts are used up, unless the build *)
(* was canceled or the step has a timeout, for any number of retries.      *)
(***************************************************************************)
THEOREM RetriesUsedUpHolds == Spec => []RetriesUsedUp
<1>1. StageInv => RetriesUsedUp
  <2> SUFFICES ASSUME StageInv, NEW s \in closed, NEW i \in 1 .. Len(StepDef[s]),
                      stepState[<<s, i>>] = "failed"
               PROVE  \/ attempts[<<s, i>>] = StepDef[s][i].retries + 1
                      \/ CtxDone \/ StepDef[s][i].timeout
    BY DEF RetriesUsedUp
  <2>1. s \in Stage /\ phase[s] = "exit"
    BY DEF StageInv, DagInv, PhaseInv, TypeInv, TypeOK
  <2>2. StepInv(s, i)
    BY <2>1 DEF StageInv, LocalInv
  <2> QED
    BY <2>1, <2>2 DEF StepInv, FailedAt, Interruptible
<1> QED
  BY <1>1, StageInvHolds, PTL

(***************************************************************************)
(* What the dependents of a closed stage have read of it, and what its     *)
(* steps show, never changes again.                                        *)
(***************************************************************************)
THEOREM ClosedIsFinalHolds == Spec => ClosedIsFinal
<1>1. ASSUME StageInv, [Next]_vars, NEW s \in closed PROVE StageFrozen(s)
  <2>1. s \in Stage /\ phase[s] = "exit" /\ TypeOK
    BY <1>1 DEF StageInv, DagInv, PhaseInv, TypeInv, TypeOK
  <2>2. ASSUME NEW t \in Stage, Advance(t) \/ ExecReturn(t) \/ StepTimeout(t)
        PROVE  StageFrozen(s)
    <3>1. t # s
      BY <2>1, <2>2 DEF Advance, AwaitDep, SkipStage, AcquireSlot, CancelWaiting, EnterStage,
        BeginStep, SkipUndefined, CancelSteps, AttemptStart, AttemptRefused, Record,
        BackoffElapsed, BackoffCanceled, Collect, TolerateFailure, FailStep, AfterFailedStep,
        FinishStage, Finishing, ReleaseSlot, CloseDone, ExecReturn, StepTimeout, Goto, InRunStep
    <3>2. Untouched(s)
      BY <2>1, <2>2, <3>1, OthersUntouched
    <3>3. closed \subseteq closed'
      BY <2>2 DEF Advance, AwaitDep, SkipStage, AcquireSlot, CancelWaiting, EnterStage,
        BeginStep, SkipUndefined, CancelSteps, AttemptStart, AttemptRefused, Record,
        BackoffElapsed, BackoffCanceled, Collect, TolerateFailure, FailStep,
        FinishStage, Finishing, ReleaseSlot, CloseDone, ExecReturn, StepTimeout
    <3> QED
      BY <1>1, <3>2, <3>3 DEF StageFrozen, Untouched
  <2>3. CASE CancelCtx \/ Finished \/ UNCHANGED vars
    BY <1>1, <2>3 DEF CancelCtx, Finished, vars, stepVars, StageFrozen
  <2> QED
    BY <1>1, <2>2, <2>3 DEF Next
<1>2. StageInv /\ [Next]_vars => [\A s \in closed : StageFrozen(s)]_vars
  BY <1>1
<1> QED
  BY <1>2, StageInvHolds, PTL DEF Spec, ClosedIsFinal
=============================================================================
