--------------------------- MODULE StageRunProofs ---------------------------
(***************************************************************************)
(* Proofs about StageRun, for every graph of stages, every table of steps  *)
(* and every number of tokens.                                             *)
(*                                                                         *)
(* Three invariants are proved in turn.  TypeInv adds to TypeOK that a     *)
(* goroutine inside runStep is at an existing step.  DagInv says how the   *)
(* goroutines, the tokens, the done channels and the stage states fit      *)
(* together; it never mentions steps, and lemma Kinds reduces the steps of *)
(* StageRun to the ten kinds that it can see.  Slot bound, order of the    *)
(* dependencies, the implementation of StageDag and the absence of a       *)
(* deadlock follow from DagInv.                                            *)
(***************************************************************************)
EXTENDS StageRun, FiniteSetTheorems, WellFoundedInduction, TLAPS

TypeInv ==
  /\ TypeOK
  /\ \A s \in Stage : phase[s] \in InRunStep => HasStep(s)

(***************************************************************************)
(* Every step keeps the variables in their types, and the loop of runStage *)
(* inside the steps of its stage.                                          *)
(***************************************************************************)
LEMMA LenStepDef == \A s \in Stage : Len(StepDef[s]) \in Nat
  BY StageAssumption

LEMMA InStepId ==
  ASSUME NEW s \in Stage, NEW i \in 1..Len(StepDef[s])
  PROVE  <<s, i>> \in StepId
<1>1. <<s, i>> \in {s} \X (1..Len(StepDef[s]))
  OBVIOUS
<1> QED
  BY <1>1 DEF StepId

LEMMA Increment ==
  ASSUME NEW S, NEW f \in [S -> Nat], NEW x
  PROVE  [f EXCEPT ![x] = @ + 1] \in [S -> Nat]
<1> DEFINE g == [f EXCEPT ![x] = @ + 1]
<1>1. ASSUME NEW y \in S PROVE g[y] \in Nat
  <2>1. CASE y = x
    <3>1. g[y] = f[y] + 1
      BY <2>1
    <3> QED
      BY <3>1
  <2>2. CASE y # x
    BY <2>2
  <2> QED
    BY <2>1, <2>2
<1> QED
  BY <1>1

LEMMA TypeInvInit == Init => TypeInv
  BY LenStepDef
  DEF Init, TypeInv, TypeOK, Phase, State, InRunStep, HasStep

LEMMA TypeInvNext == TypeInv /\ [Next]_vars => TypeInv'
<1> SUFFICES ASSUME TypeInv, [Next]_vars PROVE TypeInv'
  OBVIOUS
<1> USE LenStepDef DEF TypeInv, TypeOK, HasStep
<1>1. ASSUME NEW s \in Stage, Advance(s) PROVE TypeInv'
  <2>1. CASE AwaitDep(s)
    BY <2>1 DEF AwaitDep, DepsFailedAfter, stepVars
  <2>2. CASE SkipStage(s)
    BY <2>2 DEF SkipStage, Goto, MarkFrom, waitVars, Phase, State, InRunStep
  <2>3. CASE AcquireSlot(s)
    BY <2>3 DEF AcquireSlot, Goto, waitVars, stepVars, Phase, InRunStep
  <2>4. CASE CancelWaiting(s)
    BY <2>4 DEF CancelWaiting, Goto, waitVars, stepVars, Phase, State, InRunStep
  <2>5. CASE EnterStage(s)
    BY <2>5 DEF EnterStage, Goto, waitVars, stepVars, Phase, State, InRunStep
  <2>6. CASE BeginStep(s)
    BY <2>6 DEF BeginStep, Goto, waitVars, Phase, State, InRunStep
  <2>7. CASE SkipUndefined(s)
    BY <2>7 DEF SkipUndefined, NextStep, waitVars, Phase, InRunStep
  <2>8. CASE CancelSteps(s)
    BY <2>8 DEF CancelSteps, Goto, MarkFrom, waitVars, Phase, State, InRunStep
  <2>9. CASE AttemptStart(s)
    <3>1. attempts' \in [StepId -> Nat]
      BY <2>9, Increment DEF AttemptStart
    <3>2. stepState' \in [StepId -> State]
      BY <2>9 DEF AttemptStart, State
    <3> QED
      BY <2>9, <3>1, <3>2 DEF AttemptStart, Goto, waitVars, Phase, InRunStep
  <2>10. CASE AttemptRefused(s)
    BY <2>10 DEF AttemptRefused, Goto, waitVars, stepVars, Phase, InRunStep
  <2>11. CASE Record(s)
    BY <2>11 DEF Record, AfterRecord, RecordedState, Goto, waitVars, Phase,
                 State, InRunStep
  <2>12. CASE BackoffElapsed(s)
    BY <2>12 DEF BackoffElapsed, Goto, waitVars, stepVars, Phase, InRunStep
  <2>13. CASE BackoffCanceled(s)
    BY <2>13 DEF BackoffCanceled, Goto, waitVars, stepVars, Phase, InRunStep
  <2>14. CASE Collect(s)
    <3>0. cur[s] \in 1..Len(StepDef[s])
      BY <2>14 DEF Collect, Goto, InRunStep
    <3>1. Step(s) \in StepId
      BY <3>0, InStepId DEF Step
    <3>2. collected' \in SUBSET StepId
      BY <2>14, <3>1 DEF Collect
    <3> QED
      BY <2>14, <3>2 DEF Collect, NextStep, DropStepCtx, Goto, waitVars, Phase,
                         InRunStep
  <2>15. CASE TolerateFailure(s)
    <3>1. stepState' \in [StepId -> State]
      BY <2>15 DEF TolerateFailure, State
    <3>2. HasStep(s)
      BY <2>15 DEF TolerateFailure, Goto, InRunStep
    <3> QED
      BY <2>15, <3>1, <3>2 DEF TolerateFailure, NextStep, DropStepCtx, Goto,
                               waitVars, Phase, InRunStep
  <2>16. CASE FailStep(s)
    BY <2>16 DEF FailStep, AfterFailedStep, DropStepCtx, MarkFrom, Goto,
                 waitVars, Phase, State, InRunStep
  <2>17. CASE FinishStage(s)
    BY <2>17 DEF FinishStage, Finishing, StageOutcome, waitVars, stepVars,
                 Phase, State, InRunStep
  <2>18. CASE ReleaseSlot(s)
    BY <2>18 DEF ReleaseSlot, Goto, waitVars, stepVars, Phase, InRunStep
  <2>19. CASE CloseDone(s)
    BY <2>19 DEF CloseDone, Goto, waitVars, stepVars, Phase, InRunStep
  <2> QED
    BY <1>1, <2>1, <2>2, <2>3, <2>4, <2>5, <2>6, <2>7, <2>8, <2>9, <2>10,
       <2>11, <2>12, <2>13, <2>14, <2>15, <2>16, <2>17, <2>18, <2>19
    DEF Advance
<1>2. ASSUME NEW s \in Stage, ExecReturn(s) PROVE TypeInv'
  BY <1>2 DEF ExecReturn, Goto, waitVars, Phase, InRunStep
<1>3. ASSUME NEW s \in Stage, StepTimeout(s) PROVE TypeInv'
  BY <1>3 DEF StepTimeout, waitVars
<1>4. CASE CancelCtx
  BY <1>4 DEF CancelCtx, waitVars, stepVars
<1>5. CASE Finished
  BY <1>5 DEF Finished, vars, waitVars, stepVars
<1>6. CASE UNCHANGED vars
  BY <1>6 DEF vars, waitVars, stepVars
<1> QED
  BY <1>1, <1>2, <1>3, <1>4, <1>5, <1>6 DEF Next

(***************************************************************************)
(* The variables of StageRun keep their types, and the step loop its range.*)
(***************************************************************************)
THEOREM TypeCorrect == Spec => []TypeOK
<1>1. Spec => []TypeInv
  BY TypeInvInit, TypeInvNext, PTL DEF Spec
<1>2. TypeInv => TypeOK
  BY DEF TypeInv
<1> QED
  BY <1>1, <1>2, PTL
-----------------------------------------------------------------------------
(* What the stages see of each other. *)

Inner == {"step", "finish"} \cup InRunStep            \* inside runStage
Holding == {"start", "release"} \cup Inner            \* has a token

\* The phase of a goroutine against the state, token and channel it shares.
PhaseInv ==
  \A s \in Stage :
    /\ phase[s] \in {"await", "start"} => stState[s] = "pending"
    /\ phase[s] \in Inner => stState[s] = "running"
    /\ phase[s] \in {"release", "close", "exit"} => Terminal(stState[s])
    /\ s \in closed <=> phase[s] = "exit"
    /\ s \in sem <=> phase[s] \in Holding

SlotInv == Cardinality(sem) <= MaxParallel

\* What the locals of the waiting loop say of the dependencies waited for.
WaitInv ==
  \A s \in Stage :
    /\ checked[s] <= Len(DependsOn[s])
    /\ \A k \in 1..checked[s] : DependsOn[s][k] \in closed
    /\ s \notin depsFailed =>
         \A k \in 1..checked[s] : stState[DependsOn[s][k]] = "success"
    /\ s \in depsFailed =>
         \E k \in 1..checked[s] : stState[DependsOn[s][k]] # "success"
    /\ phase[s] = "start" \/ Ran(s) => Waited(s) /\ s \notin depsFailed

DagInv == TypeInv /\ PhaseInv /\ SlotInv /\ WaitInv

\* A step that no other stage can see.
Quiet ==
  /\ ctx' \in {ctx, "canceled"}
  /\ UNCHANGED <<phase, stState, waitVars, sem, closed>>

\* A step of s inside runStage.
Inside(s) ==
  /\ phase[s] \in Inner
  /\ \E to \in Inner : phase' = [phase EXCEPT ![s] = to]
  /\ UNCHANGED <<ctx, stState, waitVars, sem, closed>>

Kind(s) ==
  \/ AwaitDep(s) \/ SkipStage(s) \/ AcquireSlot(s) \/ CancelWaiting(s)
  \/ EnterStage(s) \/ Inside(s) \/ FinishStage(s) \/ ReleaseSlot(s)
  \/ CloseDone(s)

LEMMA Kinds ==
  ASSUME [Next]_vars
  PROVE  Quiet \/ \E s \in Stage : Kind(s)
<1> USE DEF waitVars, stepVars
<1>1. ASSUME NEW s \in Stage, Advance(s) PROVE Quiet \/ Kind(s)
  <2>1. CASE SkipUndefined(s)
    BY <2>1 DEF SkipUndefined, Quiet
  <2>2. CASE BeginStep(s) \/ CancelSteps(s)
    BY <2>2 DEF BeginStep, CancelSteps, Goto, Kind, Inside, Inner, InRunStep
  <2>3. CASE AttemptStart(s) \/ AttemptRefused(s)
    BY <2>3 DEF AttemptStart, AttemptRefused, Goto, Kind, Inside, Inner,
                InRunStep
  <2>4. CASE Record(s)
    BY <2>4 DEF Record, AfterRecord, Goto, Kind, Inside, Inner, InRunStep
  <2>5. CASE BackoffElapsed(s) \/ BackoffCanceled(s)
    BY <2>5 DEF BackoffElapsed, BackoffCanceled, Goto, Kind, Inside, Inner,
                InRunStep
  <2>6. CASE Collect(s) \/ TolerateFailure(s)
    BY <2>6 DEF Collect, TolerateFailure, Goto, Kind, Inside, Inner, InRunStep
  <2>7. CASE FailStep(s)
    BY <2>7 DEF FailStep, AfterFailedStep, Goto, Kind, Inside, Inner, InRunStep
  <2>8. CASE \/ AwaitDep(s) \/ SkipStage(s) \/ AcquireSlot(s)
             \/ CancelWaiting(s) \/ EnterStage(s) \/ FinishStage(s)
             \/ ReleaseSlot(s) \/ CloseDone(s)
    BY <2>8 DEF Kind
  <2> QED
    BY <1>1, <2>1, <2>2, <2>3, <2>4, <2>5, <2>6, <2>7, <2>8 DEF Advance
<1>2. ASSUME NEW s \in Stage, ExecReturn(s) PROVE Kind(s)
  BY <1>2 DEF ExecReturn, Goto, Kind, Inside, Inner, InRunStep
<1>3. ASSUME NEW s \in Stage, StepTimeout(s) PROVE Quiet
  BY <1>3 DEF StepTimeout, Quiet
<1>4. CASE CancelCtx
  BY <1>4 DEF CancelCtx, Quiet
<1>5. CASE Finished \/ UNCHANGED vars
  BY <1>5 DEF Finished, vars, Quiet
<1> QED
  BY <1>1, <1>2, <1>3, <1>4, <1>5 DEF Next

LEMMA DagInvInit == Init => DagInv
<1> SUFFICES ASSUME Init PROVE DagInv
  OBVIOUS
<1>1. TypeInv
  BY TypeInvInit
<1>2. PhaseInv
  BY DEF Init, PhaseInv, Inner, Holding, InRunStep
<1>3. SlotInv
  BY StageAssumption, FS_EmptySet DEF Init, SlotInv
<1>4. WaitInv
  BY StageAssumption DEF Init, WaitInv, Ran
<1> QED
  BY <1>1, <1>2, <1>3, <1>4 DEF DagInv

(***************************************************************************)
(* The last state of a closed stage stays as it is whenever s, which is    *)
(* not closed, moves: what other stages have learnt of it remains true.    *)
(***************************************************************************)
LEMMA WaitInvKept ==
  ASSUME TypeInv, PhaseInv, WaitInv,
         NEW s \in Stage, phase[s] # "exit",
         NEW st \in State, stState' = [stState EXCEPT ![s] = st],
         UNCHANGED waitVars, closed \subseteq closed',
         \A t \in Stage : t # s => phase'[t] = phase[t],
         phase'[s] = "start" \/ Ran(s)' => Waited(s) /\ s \notin depsFailed
  PROVE  WaitInv'
<1> USE DEF TypeInv, TypeOK, waitVars
<1>1. ASSUME NEW t \in Stage, NEW k \in 1..checked[t]
      PROVE  /\ DependsOn[t][k] \in closed
             /\ stState'[DependsOn[t][k]] = stState[DependsOn[t][k]]
  BY <1>1 DEF WaitInv, PhaseInv
<1>2. ASSUME NEW t \in Stage
      PROVE  phase'[t] = "start" \/ Ran(t)' => Waited(t)' /\ t \notin depsFailed'
  <2>1. CASE t = s
    BY <2>1 DEF Waited
  <2>2. CASE t # s
    BY <2>2 DEF Waited, Ran, WaitInv
  <2> QED
    BY <2>1, <2>2
<1>3. ASSUME NEW t \in Stage
      PROVE  /\ checked'[t] <= Len(DependsOn[t])
             /\ \A k \in 1..checked'[t] : DependsOn[t][k] \in closed'
             /\ t \notin depsFailed' =>
                  \A k \in 1..checked'[t] : stState'[DependsOn[t][k]] = "success"
             /\ t \in depsFailed' =>
                  \E k \in 1..checked'[t] : stState'[DependsOn[t][k]] # "success"
  <2> HIDE DEF TypeInv, TypeOK
  <2>1. checked' = checked /\ depsFailed' = depsFailed
    OBVIOUS
  <2>2. checked'[t] <= Len(DependsOn[t])
    BY <2>1 DEF WaitInv
  <2>3. \A k \in 1..checked'[t] : DependsOn[t][k] \in closed'
    BY <1>1, <2>1
  <2>4. t \notin depsFailed' =>
          \A k \in 1..checked'[t] : stState'[DependsOn[t][k]] = "success"
    BY <1>1, <2>1 DEF WaitInv
  <2>5. t \in depsFailed' =>
          \E k \in 1..checked'[t] : stState'[DependsOn[t][k]] # "success"
    BY <1>1, <2>1 DEF WaitInv
  <2> QED
    BY <2>2, <2>3, <2>4, <2>5
<1> QED
  BY <1>2, <1>3 DEF WaitInv

LEMMA DagInvNext == DagInv /\ [Next]_vars => DagInv'
<1> SUFFICES ASSUME DagInv, [Next]_vars PROVE DagInv'
  OBVIOUS
<1> USE DEF DagInv
<1>1. TypeInv'
  BY TypeInvNext
<1>2. sem \in SUBSET Stage /\ IsFiniteSet(sem) /\ Cardinality(sem) \in Nat
  BY StageAssumption, FS_Subset, FS_CardinalityType DEF TypeInv, TypeOK
<1>3. CASE Quiet
  BY <1>1, <1>3 DEF Quiet, waitVars, PhaseInv, SlotInv, WaitInv, Ran, Waited
<1>4. ASSUME NEW s \in Stage, Kind(s) PROVE PhaseInv' /\ SlotInv' /\ WaitInv'
  <2> USE DEF TypeInv, TypeOK
  <2>1. CASE AwaitDep(s)
    <3> DEFINE d == DependsOn[s][checked[s] + 1]
    <3>1. PhaseInv' /\ SlotInv'
      BY <2>1 DEF AwaitDep, PhaseInv, SlotInv
    <3>2. WaitInv'
      <4>1. checked' = [checked EXCEPT ![s] = @ + 1] /\ checked[s] \in Nat
        BY <2>1 DEF AwaitDep
      <4>2. ASSUME NEW t \in Stage, t # s
            PROVE  checked'[t] = checked[t] /\ (t \in depsFailed' <=> t \in depsFailed)
        BY <2>1, <4>1, <4>2 DEF AwaitDep, DepsFailedAfter
      <4>3. /\ checked'[s] = checked[s] + 1
            /\ checked[s] + 1 <= Len(DependsOn[s])
            /\ d \in closed
            /\ s \in depsFailed' <=> s \in depsFailed \/ stState[d] # "success"
        BY <2>1, <4>1, StageAssumption DEF AwaitDep, DepsFailedAfter
      <4>4. /\ \A k \in 1..checked'[s] : DependsOn[s][k] \in closed
            /\ s \notin depsFailed' =>
                 \A k \in 1..checked'[s] : stState[DependsOn[s][k]] = "success"
            /\ s \in depsFailed' =>
                 \E k \in 1..checked'[s] : stState[DependsOn[s][k]] # "success"
        <5>1. \A k \in 1..checked'[s] : k \in 1..checked[s] \/ k = checked[s] + 1
          BY <4>1, <4>3
        <5>2. \A k \in 1..checked[s] : k \in 1..checked'[s]
          BY <4>1, <4>3
        <5>3. checked[s] + 1 \in 1..checked'[s]
          BY <4>1, <4>3
        <5> QED
          BY <4>3, <5>1, <5>2, <5>3 DEF WaitInv
      <4>5. phase[s] = "await" /\ stState[s] = "pending"
        BY <2>1 DEF AwaitDep, PhaseInv
      <4>6. UNCHANGED <<phase, stState, closed>>
        BY <2>1 DEF AwaitDep
      <4> QED
        BY <4>2, <4>3, <4>4, <4>5, <4>6 DEF WaitInv, Ran, Waited
    <3> QED
      BY <3>1, <3>2
  <2>2. CASE SkipStage(s)
    <3>1. PhaseInv' /\ SlotInv'
      BY <2>2 DEF SkipStage, Goto, PhaseInv, SlotInv, Inner, Holding, InRunStep,
                  Terminal
    <3>2. WaitInv'
      BY <2>2, WaitInvKept DEF SkipStage, Goto, Ran, State
    <3> QED
      BY <3>1, <3>2
  <2>3. CASE AcquireSlot(s)
    <3>1. PhaseInv'
      BY <2>3 DEF AcquireSlot, Goto, PhaseInv, Inner, Holding, InRunStep
    <3>2. SlotInv'
      <4>1. /\ sem' = sem \cup {s} /\ Cardinality(sem) < MaxParallel
            /\ MaxParallel \in Nat
        BY <2>3, StageAssumption DEF AcquireSlot, SlotFree
      <4>2. Cardinality(sem \cup {s}) \in {Cardinality(sem), Cardinality(sem) + 1}
        BY <1>2, FS_AddElement
      <4> QED
        BY <1>2, <4>1, <4>2 DEF SlotInv
    <3>3. stState' = [stState EXCEPT ![s] = stState[s]]
      BY <2>3 DEF AcquireSlot
    <3>4. WaitInv'
      BY <2>3, <3>3, WaitInvKept DEF AcquireSlot, Goto, Ran
    <3> QED
      BY <3>1, <3>2, <3>4
  <2>4. CASE CancelWaiting(s)
    <3>1. PhaseInv' /\ SlotInv'
      BY <2>4 DEF CancelWaiting, Goto, PhaseInv, SlotInv, Inner, Holding,
                  InRunStep, Terminal
    <3>2. WaitInv'
      BY <2>4, WaitInvKept DEF CancelWaiting, Goto, Ran, State
    <3> QED
      BY <3>1, <3>2
  <2>5. CASE EnterStage(s)
    <3>1. PhaseInv' /\ SlotInv'
      BY <2>5 DEF EnterStage, Goto, PhaseInv, SlotInv, Inner, Holding, InRunStep
    <3>2. Waited(s) /\ s \notin depsFailed
      BY <2>5 DEF EnterStage, Goto, WaitInv
    <3>3. WaitInv'
      BY <2>5, <3>2, WaitInvKept DEF EnterStage, Goto, State
    <3> QED
      BY <3>1, <3>3
  <2>6. CASE Inside(s)
    <3>1. PhaseInv' /\ SlotInv'
      BY <2>6 DEF Inside, PhaseInv, SlotInv, Inner, Holding, InRunStep
    <3>2. stState[s] = "running" /\ Waited(s) /\ s \notin depsFailed
      BY <2>6 DEF Inside, PhaseInv, WaitInv, Ran
    <3>3. stState' = [stState EXCEPT ![s] = stState[s]]
      BY <2>6 DEF Inside
    <3>4. phase[s] # "exit" /\ \A t \in Stage : t # s => phase'[t] = phase[t]
      BY <2>6 DEF Inside, Inner, InRunStep
    <3>5. WaitInv'
      BY <2>6, <3>2, <3>3, <3>4, WaitInvKept DEF Inside
    <3> QED
      BY <3>1, <3>5
  <2>7. CASE FinishStage(s)
    <3>1. PhaseInv' /\ SlotInv'
      BY <2>7 DEF FinishStage, Finishing, StageOutcome, PhaseInv, SlotInv,
                  Inner, Holding, InRunStep, Terminal
    <3>2. phase[s] \in Inner
      BY <2>7 DEF FinishStage, Finishing, Inner
    <3>3. stState[s] = "running" /\ Waited(s) /\ s \notin depsFailed
      BY <3>2 DEF PhaseInv, WaitInv, Ran
    <3>4. /\ phase[s] # "exit"
          /\ \A t \in Stage : t # s => phase'[t] = phase[t]
          /\ StageOutcome(s) \in State
          /\ stState' = [stState EXCEPT ![s] = StageOutcome(s)]
          /\ UNCHANGED <<waitVars, closed>>
      BY <2>7 DEF FinishStage, Finishing, StageOutcome, State
    <3>5. WaitInv'
      BY <3>3, <3>4, WaitInvKept
    <3> QED
      BY <3>1, <3>5
  <2>8. CASE ReleaseSlot(s)
    <3>1. PhaseInv'
      BY <2>8 DEF ReleaseSlot, Goto, PhaseInv, Inner, Holding, InRunStep
    <3>2. SlotInv'
      <4>1. sem' = sem \ {s} /\ MaxParallel \in Nat
        BY <2>8, StageAssumption DEF ReleaseSlot
      <4>2. Cardinality(sem \ {s}) \in {Cardinality(sem), Cardinality(sem) - 1}
        BY <1>2, FS_RemoveElement
      <4> QED
        BY <1>2, <4>1, <4>2 DEF SlotInv
    <3>3. stState' = [stState EXCEPT ![s] = stState[s]]
      BY <2>8 DEF ReleaseSlot
    <3>4. Ran(s) => Waited(s) /\ s \notin depsFailed
      BY DEF WaitInv
    <3>5. WaitInv'
      BY <2>8, <3>3, <3>4, WaitInvKept DEF ReleaseSlot, Goto, Ran
    <3> QED
      BY <3>1, <3>2, <3>5
  <2>9. CASE CloseDone(s)
    <3>1. PhaseInv' /\ SlotInv'
      BY <2>9 DEF CloseDone, Goto, PhaseInv, SlotInv, Inner, Holding, InRunStep
    <3>2. stState' = [stState EXCEPT ![s] = stState[s]]
      BY <2>9 DEF CloseDone
    <3>3. Ran(s) => Waited(s) /\ s \notin depsFailed
      BY DEF WaitInv
    <3>4. WaitInv'
      BY <2>9, <3>2, <3>3, WaitInvKept DEF CloseDone, Goto, Ran
    <3> QED
      BY <3>1, <3>4
  <2> QED
    BY <1>4, <2>1, <2>2, <2>3, <2>4, <2>5, <2>6, <2>7, <2>8, <2>9 DEF Kind
<1> QED
  BY <1>1, <1>3, <1>4, Kinds

LEMMA DagInvAlways == Spec => []DagInv
  BY DagInvInit, DagInvNext, PTL DEF Spec
-----------------------------------------------------------------------------
LEMMA RunningHasToken ==
  ASSUME DagInv, NEW s \in Stage, stState[s] = "running"
  PROVE  phase[s] \in Inner /\ s \in sem
  BY DEF DagInv, TypeInv, TypeOK, Phase, PhaseInv, Inner, InRunStep, Holding,
         Terminal

(***************************************************************************)
(* At most MaxParallelStages stages run at once: a running stage has a     *)
(* token of the semaphore, and there are no more tokens than that.         *)
(***************************************************************************)
THEOREM SlotBoundHolds == Spec => []SlotBound
<1>1. DagInv => SlotBound
  <2> SUFFICES ASSUME DagInv PROVE SlotBound
    OBVIOUS
  <2> DEFINE R == {s \in Stage : stState[s] = "running"}
  <2>1. R \subseteq sem
    BY RunningHasToken
  <2>2. sem \in SUBSET Stage
    BY DEF DagInv, TypeInv, TypeOK
  <2>3. IsFiniteSet(sem)
    BY <2>2, StageAssumption, FS_Subset
  <2>4. /\ Cardinality(R) <= Cardinality(sem)
        /\ Cardinality(R) \in Nat /\ Cardinality(sem) \in Nat
    BY <2>1, <2>3, FS_Subset, FS_CardinalityType
  <2>5. Cardinality(sem) <= MaxParallel /\ MaxParallel \in Nat
    BY StageAssumption DEF DagInv, SlotInv
  <2>6. Cardinality(R) <= MaxParallel
    BY <2>4, <2>5
  <2> QED
    BY <2>6 DEF SlotBound
<1> QED
  BY <1>1, DagInvAlways, PTL

LEMMA WaitedForAll ==
  ASSUME DagInv, NEW s \in Stage, Waited(s)
  PROVE  /\ \A d \in DepsOf[s] : d \in Stage /\ d \in closed
         /\ s \notin depsFailed => \A d \in DepsOf[s] : stState[d] = "success"
         /\ s \in depsFailed => \E d \in DepsOf[s] : stState[d] # "success"
<1>1. checked[s] = Len(DependsOn[s])
  BY DEF Waited
<1>2. DepsOf[s] = {DependsOn[s][k] : k \in 1..checked[s]}
  BY <1>1 DEF DepsOf
<1>3. closed \in SUBSET Stage
  BY DEF DagInv, TypeInv, TypeOK
<1> QED
  BY <1>2, <1>3 DEF DagInv, WaitInv

(***************************************************************************)
(* A stage that ran found every dependency closed and successful, and they *)
(* still are: the wait loop of runStages and the order of its deferred     *)
(* calls are right for every graph.                                        *)
(***************************************************************************)
THEOREM DepsDoneHolds == Spec => []DepsDone
<1>1. DagInv => DepsDone
  <2> SUFFICES ASSUME DagInv, NEW s \in Stage, Ran(s), NEW d \in DepsOf[s]
               PROVE  d \in closed /\ stState[d] = "success"
    BY DEF DepsDone
  <2>1. Waited(s) /\ s \notin depsFailed
    BY DEF DagInv, WaitInv
  <2> QED
    BY <2>1, WaitedForAll
<1> QED
  BY <1>1, DagInvAlways, PTL

(***************************************************************************)
(* runStages implements StageDag: each of its steps is one step of the     *)
(* promise, or none, whatever happens inside the stages.                   *)
(***************************************************************************)
LEMMA DagStep == DagInv /\ [Next]_vars => [Dag!Next]_(Dag!vars)
<1> SUFFICES ASSUME DagInv, [Next]_vars PROVE [Dag!Next]_(Dag!vars)
  OBVIOUS
<1> USE DEF Dag!vars
<1>1. CASE Quiet
  <2>1. CASE ctx' = ctx
    BY <1>1, <2>1 DEF Quiet
  <2>2. CASE ctx' = "canceled"
    BY <1>1, <2>2 DEF Quiet, Dag!Next, Dag!Stop
  <2> QED
    BY <1>1, <2>1, <2>2 DEF Quiet
<1>2. ASSUME NEW s \in Stage, Kind(s) PROVE [Dag!Next]_(Dag!vars)
  <2>1. CASE AwaitDep(s) \/ AcquireSlot(s) \/ Inside(s) \/ ReleaseSlot(s)
             \/ CloseDone(s)
    BY <2>1 DEF AwaitDep, AcquireSlot, Inside, ReleaseSlot, CloseDone
  <2>2. CASE SkipStage(s)
    <3>1. /\ Waited(s) /\ s \in depsFailed /\ stState[s] = "pending"
          /\ stState' = [stState EXCEPT ![s] = "skipped"] /\ ctx' = ctx
      BY <2>2 DEF SkipStage, Goto, DagInv, PhaseInv
    <3>2. /\ \A d \in DepsOf[s] : Terminal(stState[d])
          /\ \E d \in DepsOf[s] : stState[d] # "success"
      BY <3>1, WaitedForAll DEF DagInv, PhaseInv
    <3>3. Dag!Skip(s)
      BY <3>1, <3>2 DEF Dag!Skip, Dag!DepsEnded, Dag!DepsSucceeded,
                        Terminal, Dag!Terminal
    <3> QED
      BY <3>3 DEF Dag!Next
  <2>3. CASE CancelWaiting(s)
    <3>1. /\ Waited(s) /\ s \notin depsFailed /\ stState[s] = "pending"
          /\ ctx = "canceled" /\ ctx' = ctx
          /\ stState' = [stState EXCEPT ![s] = "canceled"]
      BY <2>3 DEF CancelWaiting, CtxDone, Goto, DagInv, PhaseInv
    <3>2. Dag!Drop(s)
      BY <3>1, WaitedForAll DEF Dag!Drop, Dag!DepsSucceeded
    <3> QED
      BY <3>2 DEF Dag!Next
  <2>4. CASE EnterStage(s)
    <3>1. /\ phase[s] = "start" /\ stState[s] = "pending" /\ ctx' = ctx
          /\ stState' = [stState EXCEPT ![s] = "running"]
      BY <2>4 DEF EnterStage, Goto, DagInv, PhaseInv
    <3>2. Waited(s) /\ s \notin depsFailed /\ s \in sem
      BY <3>1 DEF DagInv, WaitInv, PhaseInv, Holding
    <3>3. Dag!Running \subseteq sem \ {s}
      BY <3>1, RunningHasToken DEF Dag!Running
    <3>4. Cardinality(Dag!Running) < MaxParallel
      <4>1. sem \in SUBSET Stage
        BY DEF DagInv, TypeInv, TypeOK
      <4>2. IsFiniteSet(sem) /\ IsFiniteSet(sem \ {s})
        BY <4>1, StageAssumption, FS_Subset
      <4>3. Cardinality(sem \ {s}) = Cardinality(sem) - 1
        BY <3>2, <4>2, FS_RemoveElement
      <4>4. Cardinality(Dag!Running) <= Cardinality(sem \ {s})
        BY <3>3, <4>2, FS_Subset
      <4>5. IsFiniteSet(Dag!Running)
        BY <3>3, <4>2, FS_Subset
      <4>6. /\ Cardinality(Dag!Running) \in Nat /\ Cardinality(sem) \in Nat
            /\ Cardinality(sem \ {s}) \in Nat
        BY <4>2, <4>5, FS_CardinalityType
      <4>7. Cardinality(sem) <= MaxParallel /\ MaxParallel \in Nat
        BY StageAssumption DEF DagInv, SlotInv
      <4> QED
        BY <4>3, <4>4, <4>6, <4>7
    <3>5. Dag!Cardinality(Dag!Running) = Cardinality(Dag!Running)
      BY DEF Dag!Cardinality, Cardinality
    <3>6. Dag!Start(s)
      BY <3>1, <3>2, <3>4, <3>5, WaitedForAll
      DEF Dag!Start, Dag!DepsSucceeded
    <3> QED
      BY <3>6 DEF Dag!Next
  <2>5. CASE FinishStage(s)
    <3>1. phase[s] \in Inner
      BY <2>5 DEF FinishStage, Finishing, Inner
    <3>2. stState[s] = "running"
      BY <3>1 DEF DagInv, PhaseInv
    <3>3. /\ stState' = [stState EXCEPT ![s] = StageOutcome(s)] /\ ctx' = ctx
          /\ StageOutcome(s) \in {"success", "failed", "canceled"}
          /\ StageOutcome(s) = "canceled" => ctx = "canceled"
      BY <2>5 DEF FinishStage, Finishing, StageOutcome, CtxDone
    <3>4. Dag!Finish(s)
      BY <3>2, <3>3 DEF Dag!Finish
    <3> QED
      BY <3>4 DEF Dag!Next
  <2> QED
    BY <1>2, <2>1, <2>2, <2>3, <2>4, <2>5 DEF Kind
<1> QED
  BY <1>1, <1>2, Kinds

THEOREM ImplementsDag == Spec => DagSpec
<1>1. Init => Dag!Init
  BY DEF Init, Dag!Init
<1> QED
  BY <1>1, DagStep, DagInvAlways, PTL DEF Spec, DagSpec, Dag!Spec
-----------------------------------------------------------------------------
(***************************************************************************)
(* The goroutine of s can take a step: inside runStage it always can, at   *)
(* Executor.Run as soon as the container returns; in runStages, when the   *)
(* next done channel is closed, or when the select has a ready branch.     *)
(***************************************************************************)
CanMove(s) ==
  \/ phase[s] \notin {"await", "exit"}
  \/ /\ phase[s] = "await"
     /\ \/ ~ Waited(s) /\ DependsOn[s][checked[s] + 1] \in closed
        \/ Waited(s) /\ (s \in depsFailed \/ SlotFree \/ CtxDone)

NeverStuck == AllExited \/ \E s \in Stage : CanMove(s)

\* Validate leaves an order: in any set of stages some stage depends on none of them.
LEMMA SomeFirst ==
  ASSUME NEW T \in SUBSET Stage, T # {}
  PROVE  \E s \in T : DepsOf[s] \cap T = {}
<1>1. PICK rank \in [Stage -> 1..Cardinality(Stage)] :
        \A s \in Stage : \A d \in DepsOf[s] : rank[d] < rank[s]
  BY AcyclicAssumption
<1> DEFINE R == {rank[s] : s \in T}
<1>2. R \subseteq Nat /\ R # {}
  BY StageAssumption, FS_CardinalityType
<1>3. PICK n \in R : \A m \in R : ~ (<<m, n>> \in OpToRel(<, Nat))
  <2> HIDE DEF R
  <2> QED BY <1>2, NatLessThanWellFounded, WFMin
<1>4. PICK s \in T : rank[s] = n
  BY <1>3
<1>5. ASSUME NEW d \in DepsOf[s] \cap T PROVE FALSE
  <2>1. rank[d] < rank[s] /\ rank[d] \in R /\ rank[d] \in Nat /\ rank[s] \in Nat
    BY <1>1, <1>2
  <2> QED BY <1>3, <1>4, <2>1 DEF OpToRel
<1> QED BY <1>4, <1>5

(***************************************************************************)
(* runStages never deadlocks: until all its goroutines have returned, one  *)
(* of them can move, for every graph that Validate accepts and any number  *)
(* of tokens.  Nobody keeps a token or a channel that others wait for.     *)
(***************************************************************************)
THEOREM NeverStuckHolds == Spec => []NeverStuck
<1>1. DagInv => NeverStuck
  <2> SUFFICES ASSUME DagInv, \A s \in Stage : ~ CanMove(s) PROVE AllExited
    BY DEF NeverStuck
  <2> DEFINE T == {s \in Stage : phase[s] # "exit"}
  <2> SUFFICES ASSUME T # {} PROVE FALSE
    BY DEF AllExited
  <2>1. \A s \in T : phase[s] = "await"
    BY DEF CanMove
  <2>2. SlotFree
    <3>1. sem = {}
      BY <2>1 DEF DagInv, TypeInv, TypeOK, PhaseInv, Holding, Inner, InRunStep
    <3> QED BY <3>1, FS_EmptySet, StageAssumption DEF SlotFree
  <2>3. PICK s \in T : DepsOf[s] \cap T = {}
    BY SomeFirst
  <2>4. /\ ~ Waited(s) /\ DependsOn[s][checked[s] + 1] \notin closed
    BY <2>1, <2>2 DEF CanMove
  <2>5. checked[s] + 1 \in 1..Len(DependsOn[s])
    <3>1. /\ checked[s] \in Nat /\ Len(DependsOn[s]) \in Nat
          /\ checked[s] <= Len(DependsOn[s])
      BY StageAssumption DEF DagInv, TypeInv, TypeOK, WaitInv
    <3> QED BY <2>4, <3>1 DEF Waited
  <2>6. DependsOn[s][checked[s] + 1] \in DepsOf[s] \cap Stage
    BY <2>5, StageAssumption DEF DepsOf
  <2>7. DependsOn[s][checked[s] + 1] \in T
    BY <2>4, <2>6 DEF DagInv, PhaseInv
  <2> QED BY <2>3, <2>6, <2>7
<1> QED BY <1>1, DagInvAlways, PTL
=============================================================================
