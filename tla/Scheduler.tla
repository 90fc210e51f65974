----------------------------- MODULE Scheduler ------------------------------
(***************************************************************************)
(* The builds of the server: request handlers create and submit them       *)
(* (internal/server/handlers.go), Store numbers and keeps them             *)
(* (internal/store/store.go), a queue and a pool of workers run them       *)
(* (internal/scheduler/scheduler.go), Cancel and shutdown interrupt them,  *)
(* and metrics, done event and volume follow their end.                    *)
(*                                                                         *)
(* An action is one critical section - of Build.Update, of the store's     *)
(* mutex, of the metrics' mutex - or one call of the executor.  Between    *)
(* two of them every other handler and worker may move.  What happens      *)
(* inside runStages is StageRun's subject: here it is one step that some   *)
(* stage may fail.                                                         *)
(***************************************************************************)
EXTENDS Naturals, Sequences, FiniteSets, BuildStates

CONSTANTS
  Build,       \* the builds that requests will create
  Pipeline,    \* the names of pipelines
  PipelineOf,  \* PipelineOf[b]: Build.Pipeline
  Worker,      \* the goroutines of Scheduler.Start
  QueueCap,    \* capacity of Scheduler.queue (64 in New)
  NoBuild      \* an idle worker's build

ASSUME BuildAssumption ==
  /\ IsFiniteSet(Build) /\ IsFiniteSet(Worker)
  /\ PipelineOf \in [Build -> Pipeline]
  /\ QueueCap \in Nat \ {0}
  /\ NoBuild \notin Build

VARIABLES
  registered,  \* the keys of Store.pipelines
  counters,    \* Store.counters
  request,     \* request[b]: where the handler that creates b is
  number,      \* Build.Number
  state,       \* Build.State
  cancelable,  \* the builds with Build.Cancel # nil
  ctxDone,     \* the builds whose context Build.Cancel has canceled
  down,        \* the signal context of main, Start and every build, is done
  server,      \* main is in Server.Start, in Scheduler.Stop, or has returned
  queue,       \* Scheduler.queue
  job,         \* job[w]: the build of worker w
  at,          \* at[w]: where worker w is in runBuild
  final,       \* final[w]: runBuild's local final
  volumes,     \* the builds whose volume exists
  leaked,      \* the builds whose volume RemoveVolume failed to remove
  started,     \* metrics: builds_total
  running,     \* metrics: running
  finished,    \* metrics: finished[st], the counter OnFinish picks for st
  doneSent     \* the builds whose done event was published

storeVars   == <<registered, counters, request, number>>
processVars == <<down, server>>
cancelVars  == <<cancelable, ctxDone, processVars>>
workerVars  == <<job, at, final>>
volumeVars  == <<volumes, leaked>>
metricsVars == <<started, running, finished>>
vars == <<storeVars, state, cancelVars, queue, workerVars, volumeVars,
          metricsVars, doneSent>>

At == {"idle", "check", "lookup", "missing", "admit", "start", "volume",
       "stages", "aggregate", "finish", "done", "metrics", "cleanup", "gone"}

Init ==
  /\ registered = {}
  /\ counters = [p \in Pipeline |-> 0]
  /\ request = [b \in Build |-> "none"]
  /\ number = [b \in Build |-> 0]
  /\ state = [b \in Build |-> "pending"]
  /\ cancelable = {} /\ ctxDone = {}
  /\ down = FALSE /\ server = "serving"
  /\ queue = <<>>
  /\ job = [w \in Worker |-> NoBuild]
  /\ at = [w \in Worker |-> "idle"]
  /\ final = [w \in Worker |-> "pending"]
  /\ volumes = {} /\ leaked = {}
  /\ started = 0 /\ running = 0
  /\ finished = [st \in {"success", "failed", "canceled"} |-> 0]
  /\ doneSent = {}
-----------------------------------------------------------------------------
(* Store: pipeline definitions *)

PutPipeline(p) ==
  /\ registered' = registered \cup {p}
  /\ UNCHANGED <<counters, request, number, state, cancelVars, queue,
                 workerVars, volumeVars, metricsVars, doneSent>>

\* mutant: the counter goes with the definition
DeletePipelineAndCounter(p) ==
  /\ p \in registered
  /\ registered' = registered \ {p}
  /\ counters' = [counters EXCEPT ![p] = 0]
  /\ UNCHANGED <<request, number, state, cancelVars, queue, workerVars,
                 volumeVars, metricsVars, doneSent>>
DeletePipeline(p) ==
  /\ p \in registered
  /\ registered' = registered \ {p}
  /\ UNCHANGED <<counters, request, number, state, cancelVars, queue,
                 workerVars, volumeVars, metricsVars, doneSent>>
-----------------------------------------------------------------------------
(* handleRunPipeline and dispatch: look the pipeline up, create, submit.    *)
(* The definition may be deleted between any two of these steps.            *)

FindPipeline(b) ==
  /\ request[b] = "none"
  /\ PipelineOf[b] \in registered
  /\ request' = [request EXCEPT ![b] = "found"]
  /\ UNCHANGED <<registered, counters, number, state, cancelVars, queue,
                 workerVars, volumeVars, metricsVars, doneSent>>

CreateBuild(b) ==
  LET p == PipelineOf[b] IN
  /\ request[b] = "found"
  /\ request' = [request EXCEPT ![b] = "created"]
  /\ counters' = [counters EXCEPT ![p] = @ + 1]
  /\ number' = [number EXCEPT ![b] = counters[p] + 1]
  /\ UNCHANGED <<registered, state, cancelVars, queue, workerVars,
                 volumeVars, metricsVars, doneSent>>

\* mutant: the queue holds one build more
EnqueuedBeyondCap(b) ==
  /\ Len(queue) <= QueueCap
  /\ queue' = Append(queue, b)
  /\ UNCHANGED state
Enqueued(b) ==
  /\ Len(queue) < QueueCap
  /\ queue' = Append(queue, b)
  /\ UNCHANGED state

\* mutant: a build that finds the queue full is dropped in silence
RejectedSilently(b) ==
  /\ Len(queue) >= QueueCap
  /\ UNCHANGED <<queue, state>>
\* Whatever the state was: the build may have been canceled already.
Rejected(b) ==
  /\ Len(queue) >= QueueCap
  /\ state' = [state EXCEPT ![b] = "failed"]
  /\ UNCHANGED queue

Submit(b) ==
  /\ request[b] = "created"
  /\ request' = [request EXCEPT ![b] = "answered"]
  /\ Enqueued(b) \/ Rejected(b)
  /\ UNCHANGED <<registered, counters, number, cancelVars, workerVars,
                 volumeVars, metricsVars, doneSent>>

Known(b) == request[b] \in {"created", "answered"}

\* mutant: a running build is only marked
CancelMarksRunning(b) ==
  /\ Known(b)
  /\ state[b] \in {"pending", "running"}
  /\ state' = [state EXCEPT ![b] = "canceled"]
  /\ UNCHANGED <<storeVars, cancelVars, queue, workerVars, volumeVars,
                 metricsVars, doneSent>>
\* Cancel, when it answers true.
Cancel(b) ==
  /\ Known(b)
  /\ \/ /\ state[b] = "pending"
        /\ state' = [state EXCEPT ![b] = "canceled"]
        /\ UNCHANGED ctxDone
     \/ /\ state[b] = "running"
        /\ ctxDone' = ctxDone \cup ({b} \cap cancelable)
        /\ UNCHANGED state
  /\ UNCHANGED <<storeVars, cancelable, processVars, queue, workerVars, volumeVars,
                 metricsVars, doneSent>>

-----------------------------------------------------------------------------
(* The process: main, Server.Start, Scheduler.Stop *)

\* SIGINT or SIGTERM: the context of main, parent of every build's context.
Shutdown ==
  /\ ~down
  /\ down' = TRUE
  /\ UNCHANGED <<storeVars, state, cancelable, ctxDone, server, queue, workerVars,
                 volumeVars, metricsVars, doneSent>>

\* mutant: Start goes on serving although its context is done
ServeReturnsOnError ==
  /\ server = "serving" /\ ~down
  /\ server' = "stopping"
  /\ UNCHANGED <<storeVars, state, cancelable, ctxDone, down, queue, workerVars,
                 volumeVars, metricsVars, doneSent>>

\* Server.Start returns: its context is done and Shutdown has waited, for 10 s at
\* most; or ListenAndServe has failed, and the context is not done.  Handlers that are
\* not finished go on beside Scheduler.Stop.
ServeReturns ==
  /\ server = "serving"
  /\ server' = "stopping"
  /\ UNCHANGED <<storeVars, state, cancelable, ctxDone, down, queue, workerVars,
                 volumeVars, metricsVars, doneSent>>

\* Scheduler.Stop has waited for the workers, and main returns.
ExitProcess ==
  /\ server = "stopping" /\ \A w \in Worker : at[w] = "gone"
  /\ server' = "exited"
  /\ UNCHANGED <<storeVars, state, cancelable, ctxDone, down, queue, workerVars,
                 volumeVars, metricsVars, doneSent>>
-----------------------------------------------------------------------------
(* The worker loop and runBuild *)

\* ctx.Err() # nil in runBuild: the build's own context or its parent
CtxDone(b) == b \in ctxDone \/ down

Goto(w, from, to) ==
  /\ at[w] = from
  /\ at' = [at EXCEPT ![w] = to]

\* return: the worker is back in its loop, the locals of runBuild are gone.
Return(w, from) ==
  /\ Goto(w, from, "idle")
  /\ job' = [job EXCEPT ![w] = NoBuild]
  /\ final' = [final EXCEPT ![w] = "pending"]

\* mutant: the build stays in the queue
TakeByPeeking(w) ==
  /\ Goto(w, "idle", "check")
  /\ queue # <<>>
  /\ job' = [job EXCEPT ![w] = Head(queue)]
  /\ UNCHANGED <<storeVars, state, cancelVars, queue, final, volumeVars,
                 metricsVars, doneSent>>
\* The select of the worker loop: also taken when ctx.Done() is ready.
Take(w) ==
  /\ Goto(w, "idle", "check")
  /\ queue # <<>>
  /\ job' = [job EXCEPT ![w] = Head(queue)]
  /\ queue' = Tail(queue)
  /\ UNCHANGED <<storeVars, state, cancelVars, final, volumeVars,
                 metricsVars, doneSent>>

Exit(w) ==
  /\ down
  /\ Goto(w, "idle", "gone")
  /\ UNCHANGED <<storeVars, state, cancelVars, queue, job, final, volumeVars,
                 metricsVars, doneSent>>

SkipCanceled(w) ==
  /\ at[w] = "check"
  /\ state[job[w]] = "canceled"
  /\ Return(w, "check")
  /\ UNCHANGED <<storeVars, state, cancelVars, queue, volumeVars,
                 metricsVars, doneSent>>

NotCanceled(w) ==
  /\ at[w] = "check"
  /\ state[job[w]] # "canceled"
  /\ Goto(w, "check", "lookup")
  /\ UNCHANGED <<storeVars, state, cancelVars, queue, job, final, volumeVars,
                 metricsVars, doneSent>>

LookupPipeline(w) ==
  /\ at[w] = "lookup"
  /\ Goto(w, "lookup",
          IF PipelineOf[job[w]] \in registered THEN "admit" ELSE "missing")
  /\ UNCHANGED <<storeVars, state, cancelVars, queue, job, final, volumeVars,
                 metricsVars, doneSent>>

\* mutant: returns without marking the build
FailMissingSilently(w) ==
  /\ Return(w, "missing")
  /\ UNCHANGED <<storeVars, state, cancelVars, queue, volumeVars,
                 metricsVars, doneSent>>
FailMissing(w) ==
  /\ Return(w, "missing")
  /\ state' = [state EXCEPT ![job[w]] = "failed"]
  /\ UNCHANGED <<storeVars, cancelVars, queue, volumeVars,
                 metricsVars, doneSent>>

\* mutant: Build.Cancel is not set together with the state
AdmitWithoutCancel(w) ==
  /\ Goto(w, "admit", "start")
  /\ state' = [state EXCEPT ![job[w]] = "running"]
  /\ UNCHANGED <<storeVars, cancelVars, queue, job, final, volumeVars,
                 metricsVars, doneSent>>
\* The state is not read again: a Cancel since NotCanceled is overwritten.
Admit(w) ==
  /\ Goto(w, "admit", "start")
  /\ state' = [state EXCEPT ![job[w]] = "running"]
  /\ cancelable' = cancelable \cup {job[w]}
  /\ UNCHANGED <<storeVars, ctxDone, processVars, queue, job, final, volumeVars,
                 metricsVars, doneSent>>

OnStart(w) ==
  /\ Goto(w, "start", "volume")
  /\ started' = started + 1
  /\ running' = running + 1
  /\ UNCHANGED <<storeVars, state, cancelVars, queue, job, final, volumeVars,
                 finished, doneSent>>

CreateVolume(w) ==
  /\ Goto(w, "volume", "stages")
  /\ volumes' = volumes \cup {job[w]}
  /\ UNCHANGED <<storeVars, state, cancelVars, queue, job, final, leaked,
                 metricsVars, doneSent>>

\* mutant: returns without finishBuild
CreateVolumeFailsSilently(w) ==
  /\ Return(w, "volume")
  /\ UNCHANGED <<storeVars, state, cancelVars, queue, volumeVars,
                 metricsVars, doneSent>>
CreateVolumeFails(w) ==
  /\ Goto(w, "volume", "finish")
  /\ final' = [final EXCEPT ![w] = "failed"]
  /\ UNCHANGED <<storeVars, state, cancelVars, queue, job, volumeVars,
                 metricsVars, doneSent>>

\* runStages and the loop over the stages that follows it
RunStages(w) ==
  /\ Goto(w, "stages", "aggregate")
  /\ \E st \in {"success", "failed"} : final' = [final EXCEPT ![w] = st]
  /\ UNCHANGED <<storeVars, state, cancelVars, queue, job, volumeVars,
                 metricsVars, doneSent>>

\* mutant: the context is not looked at
AggregatedIgnoringCtx(w) == final[w]
Aggregated(w) ==
  IF CtxDone(job[w]) /\ final[w] = "success" THEN "canceled" ELSE final[w]

Aggregate(w) ==
  /\ Goto(w, "aggregate", "finish")
  /\ final' = [final EXCEPT ![w] = Aggregated(w)]
  /\ UNCHANGED <<storeVars, state, cancelVars, queue, job, volumeVars,
                 metricsVars, doneSent>>
-----------------------------------------------------------------------------
(* finishBuild, then the deferred calls of runBuild *)

FinishBuild(w) ==
  /\ Goto(w, "finish", "done")
  /\ state' = [state EXCEPT ![job[w]] = final[w]]
  /\ cancelable' = cancelable \ {job[w]}
  /\ UNCHANGED <<storeVars, ctxDone, processVars, queue, job, final, volumeVars,
                 metricsVars, doneSent>>

\* mutant: the done event goes out before the state is written
PublishDoneEarly(w) ==
  /\ \/ /\ Goto(w, "done", "metrics")
        /\ UNCHANGED doneSent
     \/ /\ at[w] = "finish" /\ UNCHANGED at
        /\ doneSent' = doneSent \cup {job[w]}
  /\ UNCHANGED <<storeVars, state, cancelVars, queue, job, final, volumeVars,
                 metricsVars>>
PublishDone(w) ==
  /\ Goto(w, "done", "metrics")
  /\ doneSent' = doneSent \cup {job[w]}
  /\ UNCHANGED <<storeVars, state, cancelVars, queue, job, final, volumeVars,
                 metricsVars>>

\* Registry.OnFinish: every state but success and canceled counts as failed.  The
\* goroutine of Notifier.Send, which changes nothing, is left out.
OnFinish(w) ==
  /\ Goto(w, "metrics", "cleanup")
  /\ running' = IF running > 0 THEN running - 1 ELSE running
  /\ finished' = [finished EXCEPT ![final[w]] = @ + 1]
  /\ UNCHANGED <<storeVars, state, cancelVars, queue, job, final, volumeVars,
                 started, doneSent>>

\* mutant: RemoveVolume is not deferred
CleanupForgotten(w) ==
  /\ Return(w, "cleanup")
  /\ UNCHANGED <<storeVars, state, cancelVars, queue, volumeVars,
                 metricsVars, doneSent>>
\* The deferred RemoveVolume, absent when CreateVolume failed.
Cleanup(w) ==
  /\ Return(w, "cleanup")
  /\ \E failing \in SUBSET ({job[w]} \cap volumes) :
       /\ leaked' = leaked \cup failing
       /\ volumes' = volumes \ ({job[w]} \ failing)
  /\ UNCHANGED <<storeVars, state, cancelVars, queue, metricsVars,
                 doneSent>>
-----------------------------------------------------------------------------
\* What a worker does by itself; RunStages may take for ever.
Advance(w) ==
  \/ Take(w) \/ SkipCanceled(w) \/ NotCanceled(w)
  \/ LookupPipeline(w) \/ FailMissing(w) \/ Admit(w) \/ OnStart(w)
  \/ CreateVolume(w) \/ CreateVolumeFails(w)
  \/ Aggregate(w) \/ FinishBuild(w) \/ PublishDone(w) \/ OnFinish(w)
  \/ Cleanup(w)

\* The handlers, until the process has gone.
Handlers ==
  /\ server # "exited"
  /\ \/ \E p \in Pipeline : PutPipeline(p) \/ DeletePipeline(p)
     \/ \E b \in Build : FindPipeline(b) \/ CreateBuild(b) \/ Submit(b) \/ Cancel(b)

Process == Shutdown \/ ServeReturns \/ ExitProcess

Next ==
  \/ Handlers \/ Process
  \/ \E w \in Worker : Advance(w) \/ Exit(w) \/ RunStages(w)

Spec == Init /\ [][Next]_vars

(***************************************************************************)
(* Fairness.  Workers and handlers keep running.  runStages returns when   *)
(* its context is done (StageRun's CancelEnds).  A worker whose context is *)
(* done leaves its loop: with queued builds left, the select of the loop   *)
(* picks either branch, and does not pick the queue for ever (the strong   *)
(* fairness of Exit).  Start returns once its context is done.             *)
(***************************************************************************)
Interrupted(w) == CtxDone(job[w]) /\ RunStages(w)
Request(b) == server # "exited" /\ (CreateBuild(b) \/ Submit(b))
Ending == (down /\ ServeReturns) \/ ExitProcess

SchedSpec ==
  /\ Spec
  /\ \A b \in Build : WF_vars(Request(b))
  /\ \A w \in Worker : WF_vars(Advance(w) \/ Interrupted(w)) /\ SF_vars(Exit(w))
  /\ WF_vars(Ending)
-----------------------------------------------------------------------------
(***************************************************************************)
(* Type correctness; the queue never holds more than its capacity, and a   *)
(* worker has a build exactly while it is in runBuild.                     *)
(***************************************************************************)
TypeOK ==
  /\ registered \in SUBSET Pipeline
  /\ counters \in [Pipeline -> Nat]
  /\ request \in [Build -> {"none", "found", "created", "answered"}]
  /\ number \in [Build -> Nat]
  /\ state \in [Build -> State]
  /\ cancelable \in SUBSET Build /\ ctxDone \in SUBSET Build
  /\ down \in BOOLEAN /\ server \in {"serving", "stopping", "exited"}
  /\ queue \in Seq(Build) /\ Len(queue) <= QueueCap
  /\ job \in [Worker -> Build \cup {NoBuild}]
  /\ at \in [Worker -> At]
  /\ \A w \in Worker : job[w] = NoBuild <=> at[w] \in {"idle", "gone"}
  /\ final \in [Worker -> {"pending", "success", "failed", "canceled"}]
  /\ volumes \in SUBSET Build /\ leaked \in SUBSET Build
  /\ started \in Nat /\ running \in Nat
  /\ finished \in [{"success", "failed", "canceled"} -> Nat]
  /\ doneSent \in SUBSET Build

Holders(b) == {w \in Worker : job[w] = b}
Queued(b) == {i \in 1..Len(queue) : queue[i] = b}

(***************************************************************************)
(* A build is in one place at a time: with its handler before Submit, in   *)
(* the queue, or with one worker.  So no build runs twice.                 *)
(***************************************************************************)
OnePlace ==
  \A b \in Build :
    Cardinality(Queued(b)) + Cardinality(Holders(b))
      <= (IF request[b] = "answered" THEN 1 ELSE 0)

(***************************************************************************)
(* No build is lost: one that was submitted and is nowhere has ended.      *)
(* Every early return of Submit and runBuild leaves a terminal state.      *)
(***************************************************************************)
NoneLost ==
  \A b \in Build :
    request[b] = "answered" /\ Queued(b) = {} /\ Holders(b) = {}
      => Terminal(state[b])

(***************************************************************************)
(* A build is "running" exactly while a worker is between Admit and        *)
(* finishBuild with it, and just as long Cancel can reach its context.     *)
(***************************************************************************)
InRun(w) ==
  at[w] \in {"start", "volume", "stages", "aggregate", "finish"}
RunningIsHeld ==
  \A b \in Build :
    /\ state[b] = "running" <=> \E w \in Holders(b) : InRun(w)
    /\ state[b] = "running" <=> b \in cancelable

(***************************************************************************)
(* The metrics balance at every moment: what was started is running or     *)
(* finished, and "running" counts the workers between OnStart and OnFinish.*)
(***************************************************************************)
Counted(w) ==
  at[w] \in {"volume", "stages", "aggregate", "finish", "done", "metrics"}
MetricsBalance ==
  /\ running = Cardinality({w \in Worker : Counted(w)})
  /\ started = running
       + finished["success"] + finished["failed"] + finished["canceled"]

(***************************************************************************)
(* A volume outlives runBuild only when removing it failed, and the stages *)
(* never run without one.                                                  *)
(***************************************************************************)
VolumeLifetime ==
  /\ \A b \in volumes \ leaked : Holders(b) # {}
  /\ \A w \in Worker : at[w] \in {"stages", "aggregate"} => job[w] \in volumes

(***************************************************************************)
(* Two builds of a pipeline never get the same number, whether or not the  *)
(* pipeline was deleted and registered again in between (CreateBuild).     *)
(***************************************************************************)
NumbersUnique ==
  \A b1, b2 \in Build :
    /\ b1 # b2 /\ PipelineOf[b1] = PipelineOf[b2]
    /\ Known(b1) /\ Known(b2)
    => number[b1] # number[b2]

(***************************************************************************)
(* Once the done event of a build is out, its state never changes: whoever *)
(* closes the event stream on "done" has seen the end.                     *)
(***************************************************************************)
DoneIsFinal ==
  [][\A b \in doneSent : Terminal(state[b]) /\ state'[b] = state[b]]_vars

(***************************************************************************)
(* Handlers, queue and workers together implement the promise of BuildLife *)
(* to whoever looks at the builds: each is shown once, runs at most once,  *)
(* is changed by nobody after its end, and its event done goes out once.   *)
(***************************************************************************)
Over(b) ==
  /\ request[b] = "answered" /\ Queued(b) = {}
  /\ \A w \in Holders(b) : at[w] \in {"done", "metrics", "cleanup"}
Life == INSTANCE BuildLife WITH
  shown  <- [b \in Build |-> IF Known(b) THEN state[b] ELSE "none"],
  over   <- {b \in Build : Over(b)},
  ending <- {b \in Build : \E w \in Holders(b) : at[w] = "done"},
  told   <- doneSent
LifeSpec == Life!Spec

(***************************************************************************)
(* A cancellation that reaches a build before its result is aggregated     *)
(* takes effect: the build does not end as a success.                      *)
(***************************************************************************)
CancelTakesEffect ==
  \A b \in Build :
    (/\ b \in ctxDone
     /\ \E w \in Holders(b) : at[w] \in {"start", "volume", "stages"})
      ~> state[b] \in {"canceled", "failed"}

(***************************************************************************)
(* A submitted build ends, unless the server is shut down or the stages of *)
(* some build run for ever (StageRun's Termination).                       *)
(***************************************************************************)
StagesEnd == \A w \in Worker : []<>(at[w] # "stages")
SubmittedEnds ==
  StagesEnd =>
    \A b \in Build : (request[b] = "created") ~> (Terminal(state[b]) \/ down)

(***************************************************************************)
(* After a signal the process exits, whatever was running or in the queue: *)
(* Start stops serving, every worker leaves, Scheduler.Stop returns.       *)
(* (Without one, when ListenAndServe has failed, Stop waits for workers    *)
(* that nothing tells to leave: main.go:80.)                               *)
(***************************************************************************)
StopReturns == down ~> server = "exited"
-----------------------------------------------------------------------------
(* What the repository's comments and tests say of the end of a build *)

(***************************************************************************)
(* Cancel's comment, "a queued build is marked canceled at once", and      *)
(* runBuild's, "it may have been canceled while queued": a build that was  *)
(* canceled before it ran is never run.                                    *)
(***************************************************************************)
CanceledNeverRuns ==
  [][\A b \in Build : state[b] = "canceled" => state'[b] # "running"]_vars
=============================================================================
