# minidrone in TLA+

minidrone is a small CI server: pipelines in YAML, a queue of builds, a pool of
workers, stages scheduled along a DAG, one container per step, live events to a
browser. These modules model the parts of it whose correctness depends on order:
goroutines, channels, contexts, locks, retries, limits. TLC checks them on small
instances; TLAPS proves nearly all safety properties for every instance.

`PROJECT.json` is the index: components, runs, the source lines behind every
definition, the hazards and the properties that watch them, the findings.

## The system

| part (source) | state | operations | talks to |
| --- | --- | --- | --- |
| Handlers (`internal/server/handlers.go`) | none | register, delete, run, cancel, webhook dispatch, read, event stream | Store, Scheduler, Broker |
| Store (`internal/store/store.go`) | pipelines, builds, counters, logs; one mutex, and `Build.mu` in each build | Put/Delete/GetPipeline, CreateBuild, Update, Snapshot, AppendLog, Log | Broker (lines of log) |
| Broker (`internal/store/events.go`) | subscribers' channels, one mutex | Subscribe, Unsubscribe, Publish | event stream handlers |
| Scheduler (`internal/scheduler/scheduler.go`) | queue channel, workers, `Build.Cancel` | Start, Stop, Submit, Cancel, runBuild, finishBuild | Store, Broker, Executor, Metrics, Notifier |
| Stage runner (same file) | one goroutine per stage, `done` channels, `sem` | runStages, runStage, runStep, runStepOnce | Executor, retry, artifacts |
| Retry policy (`internal/retry/policy.go`) | none | Do, Attempts, Wait | stage runner |
| Docker executor (`internal/executor`) | containers and volumes of the daemon | Run, CreateVolume, RemoveVolume, CopyOut | daemon |
| DAG library, validation (`internal/dag`, `internal/pipeline`) | none | Cycle, Topo, Ready, Validate | registration |
| Triggers, clone (`internal/webhook`, `internal/gitclone`) | none | parse, match, normalize, clone step | dispatch, CreateBuild |
| Process (`cmd/minidrone`) | signal context | start, shutdown | all |

What is hard here: a build is touched by its handler, Cancel, a worker and the
goroutines of its stages, and its state is read in one critical section and
written in another; three contexts (signal, build, step timeout) may be done at
any moment; a select takes any ready branch; channels have capacities; deferred
calls run after the state they belong to is visible.

What makes each part correct:

- stage runner: dependencies before dependents, at most `MaxParallelStages` at
  once, no outcome lost, retries used, every stage comes to an end;
- builds: in one place at a time, never lost, never restarted, running exactly
  while somebody can cancel them, counted once, their volume reclaimed;
- streams: no gap between snapshot and events, all changes known when the build has
  ended, nothing after `done`, slow readers do not block the scheduler;
- logs: whole lines, a prefix of what was written;
- graph: no cycle accepted; executor: container reclaimed, log whole, returns;
- triggers: each delivery gets the builds it is meant for and no others, about its
  commit, and the code is there before any stage of the user's runs.

## The modules

| module | what it is |
| --- | --- |
| `BuildStates` | `store.State` and `Terminal` |
| `StageDag` | the abstract promise about the stages of one build: when a stage may start, be skipped, be dropped, end |
| `StageRun` | `runStages`, `runStage`, `runStep`, `runStepOnce`, `Policy.Do`: implements `StageDag` |
| `StageRunProofs` | theorems about `StageRun`: tokens, dependencies, the refinement, no deadlock |
| `StageStepProofs` | theorems about `StageRun`: the steps of a stage |
| `BuildLife` | the abstract promise about one build to whoever looks at it: shown as pending first, run at most once, never changed after its end, its event done sent at most once |
| `Scheduler` | requests, queue, workers, Cancel, the process from signal to exit, and everything around `runStages`: implements `BuildLife` |
| `SchedulerProofs` | the theorems about `Scheduler` |
| `Trigger` | from a push to the working copy of its build: repositories, platforms, webhooks, dispatch, the clone stage |
| `TriggerProofs` | the theorems about `Trigger` |
| `EventStream` | broker, event stream handlers, the publishing side of a build |
| `EventStreamProofs` | the theorems about `EventStream` |
| `LogBuffer` | the log of one step |
| `LogBufferProofs` | the theorems about `LogBuffer` |
| `DagAlgorithms` | `Graph.Cycle`, `Topo`, `Ready`, and the checks of `depends_on` |
| `DagAlgorithmsProofs` | the theorems about `Graph.Cycle` and `Graph.Topo` |
| `DockerRun` | one `Docker.Run` with the daemon, the log goroutine and a context |
| `DockerRunProofs` | the theorems about `DockerRun` |
| `MC*` | the small instances (`DockerRun` needs none) |

How the modules meet. `Scheduler` takes a whole `runStages` as one step
(`RunStages`: some stage may fail); `StageRun` is what happens inside it, and its
`FinalState` is the outcome. `StageRun` assumes that the graph has a rank along
`depends_on`: `DagAlgorithms` shows that a graph in which `Cycle` finds nothing has
one, the place in the list of `Topo` (`NoCycleMissed`, `TopoIsOrder`), and `Trigger`
that the clone stage put in front of it leaves it acyclic (`CloneComesFirst`). It
assumes different names for the stages, which `Trigger` shows violated by a stage
called clone (`clone_twice`). `Trigger` ends where `Scheduler` begins: its
`CreateBuild` is the handler's, its `RunClone` one step inside `runStages`. `StageRun`
assumes that an executor returns once its context is done: `DockerRun` shows it of
the Docker executor (`RunReturns`). `LogBuffer` has writers that follow one
another: `QuietAfterReturn` of `DockerRun` is the reason.

### State and actions

`StageRun`. A goroutine of `runStages` is `phase[s]`; the places are the points
between which others may move. `closed` are the `done` channels, `sem` the tokens,
`checked` and `depsFailed` the wait loop, `cur` and `failed` the locals of
`runStage`, `timedOut` the step contexts that expired, `stState`, `stepState`,
`attempts`, `collected` the fields of the build. `AwaitDep`, `SkipStage`,
`AcquireSlot`, `CancelWaiting` are the wait and the select of `runStages`;
`EnterStage` to `FinishStage` are `runStage`; `BeginStep` to `FailStep` are
`runStep` with `Policy.Do` and `runStepOnce`; `ReleaseSlot` and `CloseDone` the
deferred calls in their order. `CancelCtx` and `StepTimeout` come from outside. A
step may have no definition because `runBuild` reads the pipeline anew: it may
have been registered again since the build was created.

`Scheduler`. `request[b]` is the handler of a build, `at[w]`, `job[w]`, `final[w]`
the worker and the locals of `runBuild`; an action is one `Build.Update`, one
critical section of the store or the metrics, or one call of the executor.
`SkipCanceled`/`NotCanceled` and `Admit` are the two critical sections of
admission. `Cleanup` is the deferred `RemoveVolume`. `Take` and `Exit` are the two
branches of the worker's select. `down` is the signal context and `server` where
`main` is: `ServeReturns` is `Server.Start` coming back, because of the signal or
because `ListenAndServe` failed, and `ExitProcess` is `Scheduler.Stop` coming back;
after it no handler acts.

`EventStream`. `rev` counts changes of the build and stands for its content; `due`,
which is history, is the last change that has an event, or will have one. The changes
that move only `rev` are those after which the code publishes nothing: the three ends
outside `finishBuild` (`CancelWaiting`, `Reject`, `FailMissing`) and `CancelStage`, a
stage canceled while it waits for a token. `stage[g]` is a goroutine of `runStages`:
`StartStage` is the update that skips the stage or starts it, `Update` any later one,
and a goroutine that is `behind` has changed the build and publishes before it
returns, sometimes only with a later change (the number of an attempt goes out with
its result). The context of the build can be done at any moment and nobody but
`CancelStage` looks at it here, so that it is no variable. `told[c]` is the last change
that client `c` knows. The events build, stage and step are one type, because a page
treats them alike: it fetches the build. A line of log makes it fetch nothing
(`Learned`). A handler that leaves its loop unsubscribes in the same step.

`Trigger`. An address is the sequence of its parts, so that the trimming, the
scheme, the user and the colon of `normalizeRepo` are operations on it; `Lower` maps
the parts that are written in two ways. A host or a path is one part, any `Name` that is
no `Mark` of an address; `Spellings` are the addresses that `README.md` documents. `Push` to `Propose` are the repositories and
what their platform sends; `sent` are the deliveries that are on their way,
`Deliver` is `dispatch` with the list of pipelines it took, `todo` what it has still
to create, `CreateBuild` the store's, `RunClone` the first stage of a build, whenever
a worker comes to it. `owed` is history: what each delivery was meant for, by
`README.md`, told from the address's host and path and not by `normalizeRepo`. It also
keeps which pipelines had a trigger that is not written as documented (`open`): the
documents do not say what a delivery should do with those, and an address that ends in
`.git/` is compared with its `.git` (webhook.go:129). `Valid` is `Validate` in so far as
`CreateBuild` relies on it.

`LogBuffer`. Characters stand for bytes, `sent` are the lines published, `written`
is history. `DagAlgorithms`. `stack` holds the frames of the recursive search,
`visited` their loop counters. `DockerRun`. `at` is the line `Run` has reached;
`copier` the log goroutine; a call to the daemon may fail at any time and a failed
call has done nothing.

## Runs

Each passing run is exhaustive for its instance. Every property of a passing run
is broken by a mutant: a definition next to the original, marked `mutant:`, that a
plausible bug would turn it into.

| run | instance | shows |
| --- | --- | --- |
| `stages_safety` | 4 stages, 3 roots and a join, 2 tokens, every kind of step | tokens, order, outcomes, retries; refinement of `StageDag` |
| `stages_live` | a fork, 1 token | `runStages` returns unless a container runs for ever; cancellation and timeouts end what they must even then |
| `builds` | 2 builds, 2 workers, queue of 1 | one place, none lost, running is held, metrics, volumes, numbers; refinement of `BuildLife`; builds end, cancel takes effect, the process exits after a signal |
| `events` | 2 browsers that may hang, 2 stages that run, are skipped or canceled, channels of 2 | no gap, everything known at the end, done is last, the build goes on, the stream is closed |
| `log_buffer` | limit 4, chunks up to 3, 6 written | the buffer keeps the beginning, the lines are whole |
| `graphs` | all graphs of 3 nodes, lists up to 2 with doubled and dangling names | the search, the sort, the ready set |
| `docker_run` | 3 pieces of output | removal, log, return |
| `triggers` | 3 repositories on 2 platforms, 2 branches, every spelling of README.md, 3 commits, a delivery or a run request | builds as meant, clone first, the pushed commit tested |

Runs that are expected to fail, each against a sentence of the repository (the
quotes are in `PROJECT.json`):

| run | what happens |
| --- | --- |
| `cancel_reports_failed` | a build canceled during a step ends as failed though no step failed |
| `cancel_overwritten` | a cancel between the worker's check and admission is overwritten |
| `log_doubled` | the half line at the end of a log is returned twice |
| `clone_twice` | a build of a pipeline with a stage called clone has two stages of that name |

Other places where the code and its words part, seen in the same models and left
without a run of their own; the properties named make room for them:

- a cancel between the aggregation of the result and `finishBuild` is answered true,
  and the build succeeds (`CancelTakesEffect` asks only for earlier ones);
- the state success is visible before the deferred `RemoveVolume`, which
  `scheduler_test.go:59` does not expect (`VolumeLifetime` ends with the worker);
- builds that end outside `finishBuild` publish no event and notify nobody, and a
  stage that is canceled while it waits for a token publishes none (scheduler.go:247):
  an open page learns of the former never and of the latter by the next event, at the
  latest that of `finishBuild` (`ChangesAnnounced` asks for the changes that have an
  event, `due`, and for all of them after the event of `finishBuild`);
- a stream opened after `done`, or whose full channel lost it, is never closed
  (`StreamCloses` is about the others);
- a log cut within a chunk gets no marker (`KeepsBeginning` allows it);
- the build of a pull or merge request clones the target branch, which does not have
  the request's commit, and tests its head (`PushIsTested` is about pushes);
- a pipeline whose repository ends in `.git/` matches nothing (no instance has one);
- a GitHub pull request from a fork triggers the pipelines of the fork, not those of
  the repository it is made to (github.go:101), and a tag pushed to GitHub counts as a
  push: no document says what they should do, and `Meant` follows the code in both;
- when `ListenAndServe` fails, `Stop` waits for ever (`StopReturns` asks for a signal).

### Bounds

Two tokens and three roots make stages compete; the join waits for a stage that
may fail, be skipped or be canceled while the other still runs; the step table has
a retried step with artifacts, a tolerated one, a timed one and one without
definition. Two builds on two workers show every race on one build and on the
shared counters, and fill a queue of one. Numbers are created once per build, so
counters need no bound. In `EventStream` each of two stages starts, is skipped or is
canceled; `MaxExtra` is one more change or a line of log. With the state running and
the final state that makes up to five events before `done`, and channels of two
overflow at any of them. `MaxWritten` is above `MaxLog` by two, less than a chunk: chunks
end before, at and behind the limit. In `triggers` three commits and a depth of 2
make a branch move past a commit that was announced, be rewritten, or lose it from
the clone; one delivery at a time is enough, because handlers of different
deliveries share only the store, whose changes (`Register`, `Delete`) may come
between any two of their steps. The same delivery arriving twice would give two
builds, by design, and is not among the instances. Three nodes hold self loops,
two-cycles below the root, components that the first root does not reach and
repeated dependencies. No passing run uses symmetry.

`CHECK_DEADLOCK FALSE` stands where the modelled program is over: a returned
`Run`, a finished algorithm, a log whose bound is reached.

### Fairness

Weak fairness of a goroutine's next step is the Go scheduler: a goroutine that can
run will. `SF` on `Scheduler!Exit`: a worker that keeps finding both the queue and
the context ready takes each branch again and again, because select chooses at
random. `Interrupted` is fair because an executor returns once its context is done
(`DockerRun`). Timers fire. `Ending` is fair because `Start` returns once its
context is done, after ten seconds of `Shutdown` at most; that `ListenAndServe` fails is
not fair. Nothing makes a container, a browser or a write to the
network end, and no specification assumes it. `BuildSpec` of `EventStream` is fair to
the steps of `runBuild` and `finishBuild` that wait for nothing but a lock, and to
nothing else: not to being taken from the queue, not to `CreateVolume`, not to the
goroutines of the stages. The liveness that needs more has it as
a premise: `Termination` asks for containers that end (`ContainersEnd`),
`SubmittedEnds` and `SlowClientsDoNotBlock` for stages that end (`StagesEnd`, of their
modules), `StreamCloses` for the handler of that one stream (`HandlerRuns`); it starts
when the final state is set, so that it needs nothing of the stages. Cancel, shutdown, deletion and failures are never fair.

## Proofs

`StageRunProofs`, for every finite set of stages, every acyclic graph, every table
of steps and every positive number of tokens (`StageAssumption`,
`AcyclicAssumption`; only `NeverStuckHolds` needs the second):

| theorem | says |
| --- | --- |
| `TypeCorrect` | `Spec => []TypeOK` |
| `SlotBoundHolds` | `Spec => []SlotBound` |
| `DepsDoneHolds` | `Spec => []DepsDone` |
| `ImplementsDag` | `Spec => DagSpec` |
| `NeverStuckHolds` | `Spec => []NeverStuck`: until every goroutine has returned, one of them can move |

None of the properties is inductive. `TypeOK` needs that a goroutine inside
`runStep` is at a step that exists (`TypeInv`), or `cur` could run over. `SlotBound`
counts stages that are running, while the code bounds tokens: `PhaseInv` ties the
place of a goroutine to its token, its channel and the state of its stage, and
`SlotInv` bounds the tokens. `DepsDone` speaks of what was read earlier: `WaitInv`
keeps, for the dependencies already looked at, that their channel is closed, that
`depsFailed` is right about their states, and that a stage which ran had waited for
all. Their conjunction `DagInv` is inductive (`DagInvInit`, `DagInvNext`).

`DagInv` does not mention steps. Lemma `Kinds` reduces the nineteen actions to the
ten kinds that it can see - all the actions inside `runStage` are one kind - so that
the induction has ten cases. `WaitInvKept` is shared by the cases in which no stage
state changes in a way its dependents could have seen. For `ImplementsDag`, `DagStep`
maps each kind to a step of `StageDag` or a stutter, under `DagInv`.

`NeverStuck` follows from `DagInv` too, and is where the rank of the graph and the
existence of a token count. If nobody could move, all would wait in `runStages`, so that
all tokens would be free; a goroutine that has waited for its dependencies could take
one; so each waits for the channel of a stage that waits as well, and one of them, the
first in the rank, depends on none (`SomeFirst`). `CanMove` writes out when a goroutine
can go on, since the prover has no ENABLED; the deadlock check of the `stages_safety`
run asks the same of the actions themselves. That what can move does move, and that
`runStages` therefore returns, is `Termination`, which is only model-checked.

`StageStepProofs`, under the same assumptions: `StepsInOrderHolds`,
`SuccessIsEarnedHolds`, `OnlyRefusedStaysRunningHolds`, `RetriesUsedUpHolds` and
`ClosedIsFinalHolds`. They speak of stages that are over, but were decided inside the
loop of `runStage`: `LoopInv` says what its locals are at each place, `StepInv` what the
state and the attempts of one step are there. Both mention one stage, so that an
action of another stage keeps them (`OthersUntouched`), and each action inside the
stage has one lemma. `StageInv` adds `DagInv`.

`SchedulerProofs`, for any finite sets of builds and workers, any pipelines and any
capacity (`BuildAssumption`):

| theorem | rests on |
| --- | --- |
| `TypeCorrect` | - |
| `OnePlaceHolds`, `NoneLostHolds`, `RunningIsHeldHolds` | `PlaceInv`: queue and workers hold no build twice; `StateInv`: what the place of a build says about its state |
| `DoneIsFinalHolds` | `DoneInv`: a build whose event done is out has ended and is out of the queue, and its worker is past the event |
| `ImplementsLife` | `PlaceInv`, `StateInv`, `DoneInv`, and `FreshInv`: nobody touches a build before it is created |
| `VolumeLifetimeHolds` | `VolumeInv`: a volume that exists was made by the worker that has the build |
| `MetricsBalanceHolds` | itself, and `StateInv` for the outcome that `OnFinish` counts |
| `NumbersUniqueHolds` | `NumberInv`: no build of a pipeline has a number above its counter |

`ImplementsLife` maps every action to one step in the life of one build or to a
stutter. What `BuildLife` calls over is nowhere a variable of the code: a build is over
when it was submitted, is out of the queue, and the worker that has it, if any, is past
the write of `finishBuild` (`Over`). The refinement says more than `DoneIsFinal`, which
is why the run checks it instead: also the ends that publish nothing - rejected,
skipped, pipeline gone - are final, a build is admitted once, and done goes out once.
That a cancellation may be overwritten is part of the promise, because the code does so.

Every action is of one of five kinds: a handler's, a worker's move along, a change of
the worker's own build, a build given away, a build taken from the queue.

`EventStreamProofs`, for any number of connections and goroutines and any capacity:
`TypeCorrect`, `DoneIsLastHolds`, `ChangesAnnouncedHolds`. `BuildInv` keeps all
publishers inside `runStages`; `DoneInv` strengthens `DoneIsLast` to "then finishBuild
is over"; `ConnInv` (who reads is subscribed) and `DueInv` (what is to be announced is
part of every snapshot) carry `ChangesAnnounced`. A step without an event leaves the
clients alone, and either somebody is about to announce, or nothing new is due
(`BuildOnly`); a step with one informs whoever loses nothing (`PublishInforms`).

`LogBufferProofs`, for any characters, chunks and limit: `TypeCorrect`,
`LinesAreWholeHolds`, `KeepsBeginningHolds`. The first lemma finds the last newline of
a text (the natural numbers are well-founded: some newline is nearest to the end); a text cut there gives its two pieces
back. `KeptInv` ties `size` and `truncated` to what was written.

`DagAlgorithmsProofs`, for every finite graph, doubled and dangling names included
(`GraphAssumption`): `TypeCorrect`, `CycleIsRealHolds`, `NoCycleMissedHolds`,
`TopoIsOrderHolds`, `QueueIsReadyHolds`. `PathInv` says that the
stack is a path of the graph and holds exactly the gray nodes, so that a gray
dependency closes a cycle. `BlackInv` says that black nodes depend on black ones only;
lemma `LastBlackened` then keeps their set without a cycle. `RootsInv` brings the search
to every node. For Topo, `CountInv` says that an in-degree is the number of the places in
a node's list at which a node stands that is not taken yet (`Pending`): a dependency
written twice counts twice and is released twice (`ReleaseCounts`), so that the
in-degree reaches zero exactly when nothing is pending. `ListInv` says that the queue
and the list share no node, repeat none, and together hold the nodes without a pending
dependency; the queue can then be empty early only on a cycle, which `NoCycleMissed`
excludes. That no in-degree falls below zero is part of `TypeCorrect`.

`TriggerProofs`, for any repositories, names and branches, any pipelines that
`Validate` accepts with any trigger, any depth, and any number of pushes, proposals,
losses, repetitions and requests (`RepoAssumption`: two repositories differ in more than
letters, no name is one of the marks of an address; `PipelineAssumption`):

| theorem | rests on |
| --- | --- |
| `TypeCorrect` | - |
| `BuiltAsMeantHolds` | `NumberInv`: the number of an arrival is not used again; `ClaimInv`: what is due or built for a delivery is what `Parse` made of it |
| `CloneComesFirstHolds` | `StagesInv`: the stages that wait to be built are valid |
| `PushIsTestedHolds` | `ClaimInv`, `NumberInv`: a push is to a branch |

Two sides meet in `MatchIsMeant`: a pipeline with a documented trigger matches the info
of a delivery if and only if the delivery is meant for it. `NormalForm` is its center:
`normalizeRepo` brings each of the fifteen spellings of host and path to
`host/path`, proved step by step (`TrimTail`, `CutScheme`, `CutSSH`, `CutUser`,
`ColonToSlash`); the converse, that no other address comes to the same, needs no more than
that every documented address has such a form (`SameAddress`). `ClonedOrder` puts the
clone in front of any acyclic stages: a set of stages that lacks none of its dependencies
and not the clone would be a set of the pipeline's stages in which every stage depends on
another of the set. The runs have at most one arrival; the proof speaks of any number,
the same delivery arriving again included.

`DockerRunProofs`, for any amount of output (`OutputAssumption`):

| theorem | says |
| --- | --- |
| `InvHolds` | `Spec => []Inv`, with `TypeOK` among its parts |
| `ContainerReclaimedHolds` | `Spec => []ContainerReclaimed` |
| `QuietAfterReturnHolds` | `Spec => []QuietAfterReturn` |
| `LogIsWholeHolds` | `Spec => []LogIsWhole` |
| `ResultIsExitHolds` | `Spec => []ResultIsExit` |

Three of these speak of the moment when `Run` has returned, but were decided before.
`PlaceInv` says what is true of the container and the log goroutine at each line,
`ExitInv` that a reported exit code is that of a container that has ended, and
`StreamInv` that a stream which came to its end has read all there will ever be.

Only model-checked: liveness (`Termination`, `CancelEnds`, `TimedStepsEnd`,
`SubmittedEnds`, `CancelTakesEffect`, `StopReturns`, `SlowClientsDoNotBlock`,
`StreamCloses`, `RunReturns`), because the prover does not handle fairness. Every other property of a passing run
is stated by a theorem.

## Not modelled

The notifier (`go Notifier.Send`: nobody waits for it, and its outcome is only
logged), YAML, configuration, `dronectl`, the web page but for what makes it fetch,
the read-only handlers, the metrics histogram and text format, signature checks,
container settings and environment: they keep no state that another part reads. The
length of a retry delay (`Policy.Wait`): only its end, or the context's, is a step;
its overflow at delays above 39 hours is a matter of 64-bit arithmetic. Names of
containers, which `containerName` may map to one: a creation that fails for it is
among the failures that `DockerRun` and `StageRun` allow. `CopyOut` repeats the calls
of `Run` without a log. Heartbeats of the stream change nothing. `LogBuffer` cuts
characters where the code cuts bytes. A request to the daemon that fails after it took
effect (a container created although the client saw an error) is outside `DockerRun`.

## Plan

1. An abstract event stream - a page that knows a version of its build, never newer than
   the build and never left behind for good - which `EventStream` implements.
2. An abstract log - the text written so far, cut once - which `LogBuffer` implements.
