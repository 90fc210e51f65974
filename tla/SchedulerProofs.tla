-------------------------- MODULE SchedulerProofs ---------------------------
(***************************************************************************)
(* The safety of Scheduler, for any builds, pipelines, workers and         *)
(* capacity.                                                               *)
(*                                                                         *)
(* PlaceInv says that nobody has a build twice, StateInv what the place of *)
(* a build says about its state.  With TypeOK they are inductive: every    *)
(* action moves a worker along (MovesKeep), changes the state of its own   *)
(* build (UpdatesKeep), gives a build away (ReturnsKeep), takes one from   *)
(* the queue (TakePlaces), or is a handler's (HandlersKeep).  DoneInv,     *)
(* VolumeInv, MetricsBalance and NumberInv stand on them, and so does the  *)
(* refinement of BuildLife.                                                *)
(***************************************************************************)
EXTENDS Scheduler, FiniteSetTheorems, TLAPS

LEMMA TypeInit == Init => TypeOK
<1> SUFFICES ASSUME Init PROVE TypeOK
  OBVIOUS
<1>1. queue \in Seq(Build) /\ Len(queue) <= QueueCap
  BY BuildAssumption DEF Init
<1>2. /\ registered \in SUBSET Pipeline
      /\ cancelable \in SUBSET Build /\ ctxDone \in SUBSET Build
      /\ volumes \in SUBSET Build /\ leaked \in SUBSET Build
      /\ doneSent \in SUBSET Build
  BY DEF Init
<1>3. /\ counters \in [Pipeline -> Nat]
      /\ request \in [Build -> {"none", "found", "created", "answered"}]
      /\ number \in [Build -> Nat]
      /\ state \in [Build -> State]
      /\ job \in [Worker -> Build \cup {NoBuild}]
      /\ at \in [Worker -> At]
      /\ final \in [Worker -> {"pending", "success", "failed", "canceled"}]
      /\ started \in Nat /\ running \in Nat
      /\ finished \in [{"success", "failed", "canceled"} -> Nat]
  BY DEF Init, State, At
<1> QED
  BY <1>1, <1>2, <1>3 DEF Init, TypeOK

LEMMA TypeNext == TypeOK /\ [Next]_vars => TypeOK'
<1> SUFFICES ASSUME TypeOK, [Next]_vars PROVE TypeOK'
  OBVIOUS
<1> USE BuildAssumption DEF TypeOK, At, State, storeVars, processVars, cancelVars, workerVars, volumeVars, metricsVars
<1>1. ASSUME NEW p \in Pipeline, PutPipeline(p) PROVE TypeOK'
  BY <1>1 DEF PutPipeline
<1>2. ASSUME NEW p \in Pipeline, DeletePipeline(p) PROVE TypeOK'
  BY <1>2 DEF DeletePipeline
<1>3. ASSUME NEW b \in Build, FindPipeline(b) PROVE TypeOK'
  BY <1>3 DEF FindPipeline
<1>4. ASSUME NEW b \in Build, CreateBuild(b) PROVE TypeOK'
  BY <1>4 DEF CreateBuild
<1>5. ASSUME NEW b \in Build, Submit(b) PROVE TypeOK'
  <2>1. CASE Enqueued(b)
    <3>1. queue' \in Seq(Build) /\ Len(queue') <= QueueCap
      BY <2>1 DEF Enqueued
    <3> QED
      BY <1>5, <2>1, <3>1 DEF Submit, Enqueued
  <2>2. CASE Rejected(b)
    BY <1>5, <2>2 DEF Submit, Rejected
  <2> QED
    BY <1>5, <2>1, <2>2 DEF Submit
<1>6. ASSUME NEW b \in Build, Cancel(b) PROVE TypeOK'
  BY <1>6 DEF Cancel, Known
<1>7. CASE Process
  BY <1>7 DEF Process, Shutdown, ServeReturns, ExitProcess
<1>8. ASSUME NEW w \in Worker, Advance(w) \/ Exit(w) \/ RunStages(w) PROVE TypeOK'
  <2> USE DEF Goto, Return
  <2>1. CASE Take(w)
    BY <2>1 DEF Take
  <2>2. CASE Exit(w)
    BY <2>2 DEF Exit
  <2>3. CASE SkipCanceled(w)
    BY <2>3 DEF SkipCanceled
  <2>4. CASE NotCanceled(w)
    BY <2>4 DEF NotCanceled
  <2>5. CASE LookupPipeline(w)
    BY <2>5 DEF LookupPipeline
  <2>6. CASE FailMissing(w)
    BY <2>6 DEF FailMissing
  <2>7. CASE Admit(w)
    BY <2>7 DEF Admit
  <2>8. CASE OnStart(w)
    BY <2>8 DEF OnStart
  <2>9. CASE CreateVolume(w)
    BY <2>9 DEF CreateVolume
  <2>10. CASE CreateVolumeFails(w)
    BY <2>10 DEF CreateVolumeFails
  <2>11. CASE RunStages(w)
    BY <2>11 DEF RunStages
  <2>12. CASE Aggregate(w)
    BY <2>12 DEF Aggregate, Aggregated
  <2>13. CASE FinishBuild(w)
    BY <2>13 DEF FinishBuild
  <2>14. CASE PublishDone(w)
    BY <2>14 DEF PublishDone
  <2>15. CASE OnFinish(w)
    <3>1. final[w] \in {"pending", "success", "failed", "canceled"}
      OBVIOUS
    <3>2. finished' \in [{"success", "failed", "canceled"} -> Nat]
      <4>1. CASE final[w] = "pending"
        BY <2>15, <4>1 DEF OnFinish
      <4>2. CASE final[w] \in {"success", "failed", "canceled"}
        <5>1. finished[final[w]] + 1 \in Nat
          BY <4>2
        <5> QED
          BY <2>15, <4>2, <5>1 DEF OnFinish
      <4> QED
        BY <3>1, <4>1, <4>2
    <3> QED
      BY <2>15, <3>2 DEF OnFinish
  <2>16. CASE Cleanup(w)
    <3>1. volumes' \in SUBSET Build /\ leaked' \in SUBSET Build
      BY <2>16 DEF Cleanup
    <3>2. UNCHANGED <<storeVars, state, cancelVars, queue, metricsVars, doneSent>>
      BY <2>16 DEF Cleanup
    <3>3. Return(w, "cleanup")
      BY <2>16 DEF Cleanup
    <3> QED
      BY <3>1, <3>2, <3>3
  <2> QED
    BY <1>8, <2>1, <2>2, <2>3, <2>4, <2>5, <2>6, <2>7, <2>8, <2>9, <2>10, <2>11,
       <2>12, <2>13, <2>14, <2>15, <2>16 DEF Advance
<1>9. CASE UNCHANGED vars
  BY <1>9 DEF vars
<1> QED
  BY <1>1, <1>2, <1>3, <1>4, <1>5, <1>6, <1>7, <1>8, <1>9 DEF Next, Handlers
-----------------------------------------------------------------------------
InQueue(b) == \E i \in 1 .. Len(queue) : queue[i] = b
Held(b) == \E w \in Worker : job[w] = b

\* Nobody has a build twice.
PlaceInv ==
  /\ \A i, j \in 1 .. Len(queue) : queue[i] = queue[j] => i = j
  /\ \A v, w \in Worker : job[v] = job[w] /\ job[w] # NoBuild => v = w
  /\ \A b \in Build : InQueue(b) => ~Held(b)
  /\ \A b \in Build : InQueue(b) \/ Held(b) => request[b] = "answered"

Outcome == {"success", "failed", "canceled"}

\* What the place of a build says about its state.
StateInv ==
  /\ \A b \in Build :
       /\ request[b] # "answered" \/ InQueue(b) => state[b] \in {"pending", "canceled"}
       /\ request[b] = "answered" /\ ~InQueue(b) /\ ~Held(b) => state[b] \in Outcome
       /\ b \in cancelable <=> state[b] = "running"
  /\ \A w \in Worker :
       /\ at[w] \in {"check", "lookup", "missing", "admit"} =>
            state[job[w]] \in {"pending", "canceled"}
       /\ InRun(w) => state[job[w]] = "running"
       /\ at[w] \in {"done", "metrics", "cleanup"} => state[job[w]] \in Outcome
       /\ at[w] \in {"aggregate", "finish", "done", "metrics", "cleanup"} => final[w] \in Outcome

LEMMA InitPlaces == Init => PlaceInv /\ StateInv
<1> SUFFICES ASSUME Init PROVE PlaceInv /\ StateInv
  OBVIOUS
<1>1. Len(queue) = 0
  BY DEF Init
<1>2. \A b \in Build : ~InQueue(b) /\ ~Held(b)
  BY <1>1, BuildAssumption DEF Init, InQueue, Held
<1> QED
  BY <1>1, <1>2 DEF Init, PlaceInv, StateInv, InRun

\* Submit puts a build that nobody has at the end of the queue.
LEMMA EnqueuePlaces ==
  ASSUME TypeOK, PlaceInv, NEW b \in Build, Submit(b), Enqueued(b)
  PROVE  /\ PlaceInv'
         /\ \A c \in Build : InQueue(c)' <=> InQueue(c) \/ c = b
<1>1. queue' = Append(queue, b) /\ request[b] = "created"
  BY DEF Enqueued, Submit
<1>2. ~InQueue(b) /\ ~Held(b)
  BY <1>1 DEF PlaceInv
<1>3. /\ Len(queue') = Len(queue) + 1
      /\ \A i \in 1 .. Len(queue) : queue'[i] = queue[i]
      /\ queue'[Len(queue) + 1] = b
      /\ Len(queue) \in Nat
  BY <1>1 DEF TypeOK
<1>4. \A c \in Build : InQueue(c)' <=> InQueue(c) \/ c = b
  BY <1>3 DEF InQueue
<1>5. \A i, j \in 1 .. Len(queue') : queue'[i] = queue'[j] => i = j
  BY <1>2, <1>3 DEF PlaceInv, InQueue
<1>6. /\ request' = [request EXCEPT ![b] = "answered"]
      /\ UNCHANGED job
  BY DEF Submit, workerVars
<1>7. \A c \in Build : Held(c)' <=> Held(c)
  BY <1>6 DEF Held
<1> QED
  BY <1>1, <1>2, <1>4, <1>5, <1>6, <1>7 DEF PlaceInv, TypeOK

\* Take moves the head of the queue to an idle worker.
LEMMA TakePlaces ==
  ASSUME TypeOK, PlaceInv, NEW w \in Worker, Take(w)
  PROVE  /\ PlaceInv'
         /\ job'[w] \in Build /\ InQueue(job'[w])
         /\ \A c \in Build : InQueue(c)' <=> InQueue(c) /\ c # job'[w]
         /\ \A c \in Build : Held(c)' <=> Held(c) \/ c = job'[w]
<1>1. /\ queue # <<>> /\ queue' = Tail(queue)
      /\ job' = [job EXCEPT ![w] = Head(queue)]
      /\ job[w] = NoBuild
      /\ UNCHANGED request
  BY DEF Take, Goto, storeVars, TypeOK
<1>2. /\ Len(queue) \in Nat \ {0} /\ Len(queue') = Len(queue) - 1
      /\ \A i \in 1 .. Len(queue') : queue'[i] = queue[i + 1]
      /\ Head(queue) = queue[1] /\ queue[1] \in Build
  BY <1>1 DEF TypeOK
<1>3. job'[w] = queue[1] /\ \A v \in Worker \ {w} : job'[v] = job[v]
  BY <1>1, <1>2 DEF TypeOK
<1>4. \A i, j \in 1 .. Len(queue') : queue'[i] = queue'[j] => i = j
  BY <1>2 DEF PlaceInv
<1>5. \A c \in Build : InQueue(c)' <=> InQueue(c) /\ c # queue[1]
  <2> SUFFICES ASSUME NEW c \in Build PROVE InQueue(c)' <=> InQueue(c) /\ c # queue[1]
    OBVIOUS
  <2>1. ASSUME InQueue(c)' PROVE InQueue(c) /\ c # queue[1]
    <3>1. PICK i \in 1 .. Len(queue') : queue'[i] = c
      BY <2>1, <1>2 DEF InQueue
    <3>2. i + 1 \in 1 .. Len(queue) /\ queue[i + 1] = c /\ i + 1 # 1 /\ 1 \in 1 .. Len(queue)
      BY <3>1, <1>2
    <3> QED
      BY <3>2 DEF InQueue, PlaceInv
  <2>2. ASSUME InQueue(c), c # queue[1] PROVE InQueue(c)'
    <3>1. PICK i \in 1 .. Len(queue) : queue[i] = c
      BY <2>2, <1>2 DEF InQueue
    <3>2. i - 1 \in 1 .. Len(queue') /\ queue'[i - 1] = queue[(i - 1) + 1]
      BY <3>1, <2>2, <1>2
    <3> QED
      BY <3>1, <3>2, <1>2 DEF InQueue
  <2> QED
    BY <2>1, <2>2
<1>6. \A c \in Build : Held(c)' <=> Held(c) \/ c = queue[1]
  BY <1>1, <1>2, <1>3, BuildAssumption DEF Held, TypeOK
<1>7. InQueue(queue[1]) /\ ~Held(queue[1])
  BY <1>2 DEF InQueue, PlaceInv
<1>8. \A u, v \in Worker : job'[u] = job'[v] /\ job'[v] # NoBuild => u = v
  BY <1>1, <1>2, <1>3, <1>7 DEF PlaceInv, Held
<1> QED
  BY <1>1, <1>2, <1>3, <1>4, <1>5, <1>6, <1>7, <1>8 DEF PlaceInv

\* A worker that returns gives its build away.
LEMMA ReturnPlaces ==
  ASSUME TypeOK, PlaceInv, NEW w \in Worker, NEW from \in At \ {"idle", "gone"},
         Return(w, from), UNCHANGED <<queue, request>>
  PROVE  /\ PlaceInv'
         /\ job[w] \in Build
         /\ \A c \in Build : InQueue(c)' <=> InQueue(c)
         /\ \A c \in Build : Held(c)' <=> Held(c) /\ c # job[w]
<1>1. /\ at[w] = from /\ job' = [job EXCEPT ![w] = NoBuild]
      /\ job[w] \in Build
  BY DEF Return, Goto, At, TypeOK
<1>2. \A c \in Build : InQueue(c)' <=> InQueue(c)
  BY DEF InQueue
<1>3. \A c \in Build : Held(c)' <=> Held(c) /\ c # job[w]
  BY <1>1, BuildAssumption DEF Held, PlaceInv, TypeOK
<1> QED
  BY <1>1, <1>2, <1>3 DEF PlaceInv
\* Whatever leaves queue, handlers and workers' builds alone leaves every build in place.
LEMMA PlacesKept ==
  ASSUME PlaceInv, UNCHANGED <<queue, job>>,
         \A b \in Build : request[b] = "answered" <=> request'[b] = "answered"
  PROVE  /\ PlaceInv'
         /\ \A c \in Build : InQueue(c)' <=> InQueue(c)
         /\ \A c \in Build : Held(c)' <=> Held(c)
BY DEF PlaceInv, InQueue, Held

\* The handlers: a build changes its state only where nobody counts on it.
LEMMA HandlersKeep == ASSUME TypeOK, PlaceInv, StateInv, Handlers PROVE PlaceInv' /\ StateInv'
<1>1. ASSUME NEW p \in Pipeline, PutPipeline(p) \/ DeletePipeline(p)
      PROVE  PlaceInv' /\ StateInv'
  <2>1. UNCHANGED <<queue, request, job, at, final, state, cancelable>>
    BY <1>1 DEF PutPipeline, DeletePipeline, workerVars, cancelVars
  <2> QED
    BY <2>1, PlacesKept DEF StateInv, InRun
<1>2. ASSUME NEW b \in Build, FindPipeline(b) \/ CreateBuild(b)
      PROVE  PlaceInv' /\ StateInv'
  <2>1. UNCHANGED <<queue, job, at, final, state, cancelable>>
    BY <1>2 DEF FindPipeline, CreateBuild, workerVars, cancelVars
  <2>2. \A c \in Build : request[c] = "answered" <=> request'[c] = "answered"
    BY <1>2 DEF FindPipeline, CreateBuild, TypeOK
  <2> QED
    BY <2>1, <2>2, PlacesKept DEF StateInv, InRun
<1>3. ASSUME NEW b \in Build, Submit(b) PROVE PlaceInv' /\ StateInv'
  <2>1. /\ request[b] = "created" /\ request' = [request EXCEPT ![b] = "answered"]
        /\ UNCHANGED <<job, at, final, cancelable>>
    BY <1>3 DEF Submit, workerVars, cancelVars
  <2>2. state[b] \in {"pending", "canceled"} /\ ~InQueue(b) /\ ~Held(b)
    BY <2>1 DEF StateInv, PlaceInv
  <2>3. CASE Enqueued(b)
    <3>1. /\ PlaceInv'
          /\ \A c \in Build : InQueue(c)' <=> InQueue(c) \/ c = b
      BY <1>3, <2>3, EnqueuePlaces
    <3>2. UNCHANGED state /\ \A c \in Build : Held(c)' <=> Held(c)
      BY <2>1, <2>3 DEF Enqueued, Held
    <3> QED
      BY <2>1, <2>2, <3>1, <3>2 DEF StateInv, InRun, TypeOK
  <2>4. CASE Rejected(b)
    <3>1. state' = [state EXCEPT ![b] = "failed"] /\ UNCHANGED queue
      BY <2>4 DEF Rejected
    <3>2. /\ \A c \in Build : InQueue(c)' <=> InQueue(c)
          /\ \A c \in Build : Held(c)' <=> Held(c)
      BY <2>1, <3>1 DEF InQueue, Held
    <3>3. PlaceInv'
      BY <2>1, <2>2, <3>1, <3>2 DEF PlaceInv, TypeOK
    <3>4. \A w \in Worker : job[w] # b
      BY <2>2 DEF Held
    <3>5. b \notin cancelable
      BY <2>2 DEF StateInv
    <3>6. \A c \in Build \ {b} : state'[c] = state[c] /\ request'[c] = request[c]
      BY <2>1, <3>1 DEF TypeOK
    <3>7. state'[b] = "failed" /\ request'[b] = "answered"
      BY <2>1, <3>1 DEF TypeOK
    <3>8. \A w \in Worker : job[w] \in Build => state'[job[w]] = state[job[w]]
      BY <3>4, <3>6
    <3>9. \A w \in Worker : at[w] \notin {"idle", "gone"} => job[w] \in Build
      BY DEF TypeOK
    <3> QED
      BY <2>1, <2>2, <3>2, <3>3, <3>5, <3>6, <3>7, <3>8, <3>9 DEF StateInv, InRun, Outcome
  <2> QED
    BY <1>3, <2>3, <2>4 DEF Submit
<1>4. ASSUME NEW b \in Build, Cancel(b) PROVE PlaceInv' /\ StateInv'
  <2>1. UNCHANGED <<queue, job, request, at, final, cancelable>>
    BY <1>4 DEF Cancel, workerVars, storeVars
  <2>2. PlaceInv' /\ \A c \in Build : (InQueue(c)' <=> InQueue(c)) /\ (Held(c)' <=> Held(c))
    BY <2>1, PlacesKept
  <2>3. \/ UNCHANGED state
        \/ state[b] = "pending" /\ state' = [state EXCEPT ![b] = "canceled"]
    BY <1>4 DEF Cancel
  <2>4. \A w \in Worker : at[w] \notin {"idle", "gone"} => job[w] \in Build
    BY DEF TypeOK
  <2>5. \A c \in Build :
          \/ state'[c] = state[c]
          \/ state[c] = "pending" /\ state'[c] = "canceled"
    BY <2>3 DEF TypeOK
  <2> QED
    BY <2>1, <2>2, <2>4, <2>5 DEF StateInv, InRun, Outcome
<1> QED
  BY <1>1, <1>2, <1>3, <1>4 DEF Handlers
\* A worker that goes on without touching what others see of the build.
LEMMA MovesKeep ==
  ASSUME TypeOK, PlaceInv, StateInv, NEW w \in Worker,
         NEW from \in At \ {"idle", "gone"}, NEW to \in At \ {"idle", "gone"}, Goto(w, from, to),
         UNCHANGED <<queue, job, request, state, cancelable>>,
         \A v \in Worker \ {w} : final'[v] = final[v],
         \/ {from, to} \subseteq {"check", "lookup", "missing", "admit"}
         \/ {from, to} \subseteq {"start", "volume", "stages", "aggregate", "finish"}
         \/ {from, to} \subseteq {"done", "metrics", "cleanup"},
         to \in {"aggregate", "finish", "done", "metrics", "cleanup"} => final'[w] \in Outcome
  PROVE  PlaceInv' /\ StateInv'
<1>1. PlaceInv' /\ \A c \in Build : (InQueue(c)' <=> InQueue(c)) /\ (Held(c)' <=> Held(c))
  BY PlacesKept
<1>2. at'[w] = to /\ at[w] = from /\ \A v \in Worker \ {w} : at'[v] = at[v]
  BY DEF Goto, TypeOK
<1>3. \A c \in Build :
        /\ request'[c] # "answered" \/ InQueue(c)' => state'[c] \in {"pending", "canceled"}
        /\ request'[c] = "answered" /\ ~InQueue(c)' /\ ~Held(c)' => state'[c] \in Outcome
        /\ c \in cancelable' <=> state'[c] = "running"
  BY <1>1 DEF StateInv
<1>4. ASSUME NEW v \in Worker
      PROVE  /\ at'[v] \in {"check", "lookup", "missing", "admit"} =>
                  state'[job'[v]] \in {"pending", "canceled"}
             /\ InRun(v)' => state'[job'[v]] = "running"
             /\ at'[v] \in {"done", "metrics", "cleanup"} => state'[job'[v]] \in Outcome
             /\ at'[v] \in {"aggregate", "finish", "done", "metrics", "cleanup"} =>
                  final'[v] \in Outcome
  <2>1. CASE v # w
    BY <1>2, <2>1 DEF StateInv, InRun
  <2>2. CASE v = w
    BY <1>2, <2>2 DEF StateInv, InRun
  <2> QED
    BY <2>1, <2>2
<1> QED
  BY <1>1, <1>3, <1>4 DEF StateInv

\* A worker that returns leaves a build that has ended.
LEMMA ReturnsKeep ==
  ASSUME TypeOK, PlaceInv, StateInv, NEW w \in Worker,
         NEW from \in At \ {"idle", "gone"}, Return(w, from),
         UNCHANGED <<queue, request, cancelable>>,
         state[job[w]] # "running",
         state'[job[w]] \in Outcome,
         \A c \in Build \ {job[w]} : state'[c] = state[c]
  PROVE  PlaceInv' /\ StateInv'
<1>1. /\ PlaceInv'
      /\ job[w] \in Build
      /\ \A c \in Build : InQueue(c)' <=> InQueue(c)
      /\ \A c \in Build : Held(c)' <=> Held(c) /\ c # job[w]
  BY ReturnPlaces
<1>2. /\ at'[w] = "idle" /\ job'[w] = NoBuild
      /\ \A v \in Worker \ {w} : at'[v] = at[v] /\ job'[v] = job[v] /\ final'[v] = final[v]
  BY DEF Return, Goto, TypeOK
<1>3. Held(job[w]) /\ ~InQueue(job[w]) /\ request[job[w]] = "answered"
  BY <1>1 DEF Held, PlaceInv
<1>4. ASSUME NEW v \in Worker \ {w} PROVE job[v] # job[w]
  BY <1>1, BuildAssumption DEF PlaceInv
<1>5. ASSUME NEW c \in Build
      PROVE  /\ request'[c] # "answered" \/ InQueue(c)' => state'[c] \in {"pending", "canceled"}
             /\ request'[c] = "answered" /\ ~InQueue(c)' /\ ~Held(c)' => state'[c] \in Outcome
             /\ c \in cancelable' <=> state'[c] = "running"
  <2>1. CASE c = job[w]
    BY <1>1, <1>3, <2>1 DEF StateInv, Outcome
  <2>2. CASE c # job[w]
    BY <1>1, <2>2 DEF StateInv
  <2> QED
    BY <2>1, <2>2
<1>6. ASSUME NEW v \in Worker
      PROVE  /\ at'[v] \in {"check", "lookup", "missing", "admit"} =>
                  state'[job'[v]] \in {"pending", "canceled"}
             /\ InRun(v)' => state'[job'[v]] = "running"
             /\ at'[v] \in {"done", "metrics", "cleanup"} => state'[job'[v]] \in Outcome
             /\ at'[v] \in {"aggregate", "finish", "done", "metrics", "cleanup"} =>
                  final'[v] \in Outcome
  <2>1. CASE v = w
    BY <1>2, <2>1 DEF InRun
  <2>2. CASE v # w /\ at[v] \in {"idle", "gone"}
    BY <1>2, <2>2 DEF InRun
  <2>3. CASE v # w /\ at[v] \notin {"idle", "gone"}
    <3>1. job[v] \in Build \ {job[w]}
      BY <1>4, <2>3 DEF TypeOK
    <3> QED
      BY <1>2, <2>3, <3>1 DEF StateInv, InRun
  <2> QED
    BY <2>1, <2>2, <2>3
<1> QED
  BY <1>1, <1>5, <1>6 DEF StateInv

\* A worker that changes the state of its own build, and what goes with it.
LEMMA UpdatesKeep ==
  ASSUME TypeOK, PlaceInv, StateInv, NEW w \in Worker,
         NEW from \in At \ {"idle", "gone"}, NEW to \in At \ {"idle", "gone"}, Goto(w, from, to),
         UNCHANGED <<queue, job, request, final>>,
         NEW st \in State, state' = [state EXCEPT ![job[w]] = st],
         \/ /\ to = "start" /\ from = "admit" /\ st = "running"
            /\ cancelable' = cancelable \cup {job[w]}
         \/ /\ to = "done" /\ from = "finish" /\ st \in Outcome
            /\ cancelable' = cancelable \ {job[w]}
  PROVE  PlaceInv' /\ StateInv'
<1>1. PlaceInv' /\ \A c \in Build : (InQueue(c)' <=> InQueue(c)) /\ (Held(c)' <=> Held(c))
  BY PlacesKept
<1>2. at'[w] = to /\ at[w] = from /\ \A v \in Worker \ {w} : at'[v] = at[v]
  BY DEF Goto, TypeOK
<1>3. job[w] \in Build
  BY <1>2 DEF TypeOK
<1>4. /\ state'[job[w]] = st
      /\ \A c \in Build \ {job[w]} : state'[c] = state[c]
  BY <1>3 DEF TypeOK
<1>5. Held(job[w]) /\ ~InQueue(job[w]) /\ request[job[w]] = "answered"
  BY <1>3 DEF Held, PlaceInv
<1>6. ASSUME NEW v \in Worker \ {w} PROVE job[v] # job[w]
  BY <1>3, BuildAssumption DEF PlaceInv
<1>7. ASSUME NEW c \in Build
      PROVE  /\ request'[c] # "answered" \/ InQueue(c)' => state'[c] \in {"pending", "canceled"}
             /\ request'[c] = "answered" /\ ~InQueue(c)' /\ ~Held(c)' => state'[c] \in Outcome
             /\ c \in cancelable' <=> state'[c] = "running"
  <2>1. CASE c = job[w]
    BY <1>1, <1>4, <1>5, <2>1 DEF Outcome
  <2>2. CASE c # job[w]
    BY <1>1, <1>4, <2>2 DEF StateInv
  <2> QED
    BY <2>1, <2>2
<1>8. ASSUME NEW v \in Worker
      PROVE  /\ at'[v] \in {"check", "lookup", "missing", "admit"} =>
                  state'[job'[v]] \in {"pending", "canceled"}
             /\ InRun(v)' => state'[job'[v]] = "running"
             /\ at'[v] \in {"done", "metrics", "cleanup"} => state'[job'[v]] \in Outcome
             /\ at'[v] \in {"aggregate", "finish", "done", "metrics", "cleanup"} =>
                  final'[v] \in Outcome
  <2>1. CASE v = w
    BY <1>2, <1>4, <2>1 DEF InRun, StateInv
  <2>2. CASE v # w /\ at[v] \in {"idle", "gone"}
    BY <1>2, <2>2 DEF InRun
  <2>3. CASE v # w /\ at[v] \notin {"idle", "gone"}
    <3>1. job[v] \in Build \ {job[w]}
      BY <1>6, <2>3 DEF TypeOK
    <3> QED
      BY <1>2, <1>4, <2>3, <3>1 DEF StateInv, InRun
  <2> QED
    BY <2>1, <2>2, <2>3
<1> QED
  BY <1>1, <1>7, <1>8 DEF StateInv
LEMMA WorkersKeep ==
  ASSUME TypeOK, PlaceInv, StateInv, NEW w \in Worker, Advance(w) \/ Exit(w) \/ RunStages(w)
  PROVE  PlaceInv' /\ StateInv'
<1>1. CASE Take(w)
  <2>1. /\ PlaceInv'
        /\ job'[w] \in Build /\ InQueue(job'[w])
        /\ \A c \in Build : InQueue(c)' <=> InQueue(c) /\ c # job'[w]
        /\ \A c \in Build : Held(c)' <=> Held(c) \/ c = job'[w]
    BY <1>1, TakePlaces
  <2>2. /\ at'[w] = "check"
        /\ \A v \in Worker \ {w} : at'[v] = at[v] /\ job'[v] = job[v]
        /\ UNCHANGED <<request, state, cancelable, final>>
    BY <1>1 DEF Take, Goto, TypeOK, storeVars, cancelVars
  <2>3. state[job'[w]] \in {"pending", "canceled"}
    BY <2>1 DEF StateInv
  <2> QED
    BY <2>1, <2>2, <2>3 DEF StateInv, InRun
<1>2. CASE Exit(w)
  <2>1. /\ at[w] = "idle" /\ at'[w] = "gone" /\ \A v \in Worker \ {w} : at'[v] = at[v]
        /\ UNCHANGED <<queue, job, request, final, state, cancelable>>
    BY <1>2 DEF Exit, Goto, TypeOK, storeVars, cancelVars
  <2> QED
    BY <2>1, PlacesKept DEF StateInv, InRun
<1>3. CASE NotCanceled(w)
  <2>1. /\ Goto(w, "check", "lookup")
        /\ UNCHANGED <<queue, job, request, state, cancelable>>
        /\ \A v \in Worker \ {w} : final'[v] = final[v]
    BY <1>3 DEF NotCanceled, storeVars, cancelVars
  <2> QED
    BY <2>1, MovesKeep DEF At
<1>4. CASE SkipCanceled(w)
  <2>1. /\ Return(w, "check") /\ UNCHANGED <<queue, request, cancelable, state>>
        /\ state[job[w]] = "canceled"
    BY <1>4 DEF SkipCanceled, storeVars, cancelVars
  <2> QED
    BY <2>1, ReturnsKeep DEF At, Outcome
<1>5. CASE FailMissing(w)
  <2>1. /\ Return(w, "missing") /\ UNCHANGED <<queue, request, cancelable>>
        /\ state' = [state EXCEPT ![job[w]] = "failed"]
    BY <1>5 DEF FailMissing, storeVars, cancelVars
  <2>2. at[w] = "missing" /\ job[w] \in Build
    BY <2>1 DEF Return, Goto, TypeOK
  <2>3. state[job[w]] # "running" /\ state'[job[w]] = "failed"
    BY <2>1, <2>2 DEF StateInv, TypeOK
  <2>4. \A c \in Build \ {job[w]} : state'[c] = state[c]
    BY <2>1 DEF TypeOK
  <2> QED
    BY <2>1, <2>3, <2>4, ReturnsKeep DEF At, Outcome
<1>6. CASE OnStart(w)
  <2>1. /\ Goto(w, "start", "volume")
        /\ UNCHANGED <<queue, job, request, state, cancelable>>
        /\ \A v \in Worker \ {w} : final'[v] = final[v]
    BY <1>6 DEF OnStart, storeVars, cancelVars
  <2> QED
    BY <2>1, MovesKeep DEF At
<1>7. CASE CreateVolume(w)
  <2>1. /\ Goto(w, "volume", "stages")
        /\ UNCHANGED <<queue, job, request, state, cancelable>>
        /\ \A v \in Worker \ {w} : final'[v] = final[v]
    BY <1>7 DEF CreateVolume, storeVars, cancelVars
  <2> QED
    BY <2>1, MovesKeep DEF At
<1>8. CASE CreateVolumeFails(w)
  <2>1. /\ Goto(w, "volume", "finish")
        /\ UNCHANGED <<queue, job, request, state, cancelable>>
        /\ \A v \in Worker \ {w} : final'[v] = final[v]
    BY <1>8 DEF CreateVolumeFails, storeVars, cancelVars, TypeOK
  <2>2. final'[w] \in Outcome
    BY <1>8 DEF CreateVolumeFails, TypeOK, Outcome
  <2> QED
    BY <2>1, <2>2, MovesKeep DEF At
<1>9. CASE RunStages(w)
  <2>1. /\ Goto(w, "stages", "aggregate")
        /\ UNCHANGED <<queue, job, request, state, cancelable>>
        /\ \A v \in Worker \ {w} : final'[v] = final[v]
    BY <1>9 DEF RunStages, storeVars, cancelVars, TypeOK
  <2>2. final'[w] \in Outcome
    BY <1>9 DEF RunStages, TypeOK, Outcome
  <2> QED
    BY <2>1, <2>2, MovesKeep DEF At
<1>10. CASE Aggregate(w)
  <2>1. /\ Goto(w, "aggregate", "finish")
        /\ UNCHANGED <<queue, job, request, state, cancelable>>
        /\ \A v \in Worker \ {w} : final'[v] = final[v]
    BY <1>10 DEF Aggregate, storeVars, cancelVars, TypeOK
  <2>2. final'[w] \in Outcome
    BY <1>10 DEF Aggregate, Aggregated, StateInv, Goto, TypeOK, Outcome
  <2> QED
    BY <2>1, <2>2, MovesKeep DEF At
<1>11. CASE PublishDone(w)
  <2>1. /\ Goto(w, "done", "metrics")
        /\ UNCHANGED <<queue, job, request, state, cancelable>>
        /\ \A v \in Worker \ {w} : final'[v] = final[v]
    BY <1>11 DEF PublishDone, storeVars, cancelVars
  <2>2. final'[w] \in Outcome
    BY <1>11 DEF PublishDone, StateInv, Goto
  <2> QED
    BY <2>1, <2>2, MovesKeep DEF At
<1>12. CASE OnFinish(w)
  <2>1. /\ Goto(w, "metrics", "cleanup")
        /\ UNCHANGED <<queue, job, request, state, cancelable>>
        /\ \A v \in Worker \ {w} : final'[v] = final[v]
    BY <1>12 DEF OnFinish, storeVars, cancelVars
  <2>2. final'[w] \in Outcome
    BY <1>12 DEF OnFinish, StateInv, Goto
  <2> QED
    BY <2>1, <2>2, MovesKeep DEF At
<1>13. CASE Admit(w)
  <2>1. /\ Goto(w, "admit", "start") /\ UNCHANGED <<queue, job, request, final>>
        /\ state' = [state EXCEPT ![job[w]] = "running"]
        /\ cancelable' = cancelable \cup {job[w]}
    BY <1>13 DEF Admit, storeVars
  <2> QED
    BY <2>1, UpdatesKeep DEF At, State
<1>14. CASE FinishBuild(w)
  <2>1. /\ Goto(w, "finish", "done") /\ UNCHANGED <<queue, job, request, final>>
        /\ state' = [state EXCEPT ![job[w]] = final[w]]
        /\ cancelable' = cancelable \ {job[w]}
    BY <1>14 DEF FinishBuild, storeVars
  <2>2. final[w] \in Outcome /\ Outcome \subseteq State
    BY <2>1 DEF StateInv, Goto, Outcome, State
  <2> QED
    BY <2>1, <2>2, UpdatesKeep DEF At
<1>15. CASE LookupPipeline(w)
  <2>1. /\ Goto(w, "lookup", "admit") \/ Goto(w, "lookup", "missing")
        /\ UNCHANGED <<queue, job, request, state, cancelable, final>>
    BY <1>15 DEF LookupPipeline, storeVars, cancelVars
  <2> QED
    BY <2>1, MovesKeep DEF At
<1>16. CASE Cleanup(w)
  <2>1. Return(w, "cleanup") /\ UNCHANGED <<queue, request, cancelable, state>>
    BY <1>16 DEF Cleanup, storeVars, cancelVars
  <2>2. state[job[w]] \in Outcome
    BY <2>1 DEF Return, Goto, StateInv
  <2> QED
    BY <2>1, <2>2, ReturnsKeep DEF At, Outcome
<1> QED
  BY <1>1, <1>2, <1>3, <1>4, <1>5, <1>6, <1>7, <1>8, <1>9, <1>10, <1>11, <1>12,
     <1>13, <1>14, <1>15, <1>16 DEF Advance

IInv == TypeOK /\ PlaceInv /\ StateInv

LEMMA IInvNext == IInv /\ [Next]_vars => IInv'
<1> SUFFICES ASSUME IInv, [Next]_vars PROVE IInv'
  OBVIOUS
<1> USE DEF IInv
<1>1. CASE Handlers
  BY <1>1, HandlersKeep, TypeNext
<1>2. ASSUME NEW w \in Worker, Advance(w) \/ Exit(w) \/ RunStages(w) PROVE IInv'
  BY <1>2, WorkersKeep, TypeNext
<1>3. CASE Process \/ UNCHANGED vars
  <2>1. UNCHANGED <<queue, job, request, at, final, state, cancelable>>
    BY <1>3 DEF Process, Shutdown, ServeReturns, ExitProcess, vars, storeVars, workerVars,
                cancelVars
  <2> QED
    BY <2>1, TypeNext, PlacesKept DEF StateInv, InRun
<1> QED
  BY <1>1, <1>2, <1>3 DEF Next

\* The queue never exceeds its capacity, and a worker has a build exactly in runBuild.
THEOREM TypeCorrect == Spec => []TypeOK
<1>1. TypeOK /\ [Next]_vars => TypeOK'
  BY TypeNext
<1> QED
  BY TypeInit, <1>1, PTL DEF Spec

\* The inductive invariant: every build is in one place, and its state fits the place.
THEOREM InvHolds == Spec => []IInv
<1>1. Init => IInv
  BY TypeInit, InitPlaces DEF IInv
<1> QED
  BY <1>1, IInvNext, PTL DEF Spec

\* Submit, the queue and the workers never have a build twice: no build runs twice.
THEOREM OnePlaceHolds == Spec => []OnePlace
<1>1. IInv => OnePlace
  <2> SUFFICES ASSUME IInv, NEW b \in Build
      PROVE Cardinality(Queued(b)) + Cardinality(Holders(b))
              <= (IF request[b] = "answered" THEN 1 ELSE 0)
    BY DEF OnePlace
  <2>1. Queued(b) = {} \/ \E i : Queued(b) = {i}
    <3> SUFFICES ASSUME NEW i \in Queued(b) PROVE Queued(b) = {i}
      OBVIOUS
    <3>1. ASSUME NEW j \in Queued(b) PROVE j = i
      BY <3>1 DEF Queued, IInv, PlaceInv
    <3> QED
      BY <3>1
  <2>2. Holders(b) = {} \/ \E w : Holders(b) = {w}
    BY BuildAssumption DEF Holders, IInv, PlaceInv
  <2>3. (Queued(b) # {} <=> InQueue(b)) /\ (Holders(b) # {} <=> Held(b))
    BY DEF Queued, Holders, InQueue, Held
  <2>4. /\ InQueue(b) => ~Held(b)
        /\ InQueue(b) \/ Held(b) => request[b] = "answered"
    BY DEF IInv, PlaceInv
  <2>5. Cardinality({}) = 0 /\ \A x : Cardinality({x}) = 1
    BY FS_EmptySet, FS_Singleton
  <2>6. CASE InQueue(b)
    <3>1. Cardinality(Queued(b)) = 1 /\ Cardinality(Holders(b)) = 0
      BY <2>1, <2>3, <2>4, <2>5, <2>6
    <3> QED
      BY <2>4, <2>6, <3>1
  <2>7. CASE Held(b)
    <3>1. Cardinality(Queued(b)) = 0 /\ Cardinality(Holders(b)) = 1
      BY <2>2, <2>3, <2>4, <2>5, <2>7
    <3> QED
      BY <2>4, <2>7, <3>1
  <2>8. CASE ~InQueue(b) /\ ~Held(b)
    <3>1. Cardinality(Queued(b)) = 0 /\ Cardinality(Holders(b)) = 0
      BY <2>3, <2>5, <2>8
    <3> QED
      BY <3>1
  <2> QED
    BY <2>6, <2>7, <2>8
<1> QED
  BY <1>1, InvHolds, PTL

\* A submitted build that is nowhere has ended: no early return of Submit or runBuild
\* loses one.
THEOREM NoneLostHolds == Spec => []NoneLost
<1>1. IInv => NoneLost
  BY DEF IInv, StateInv, NoneLost, Queued, Holders, InQueue, Held, Outcome, Terminal
<1> QED
  BY <1>1, InvHolds, PTL

\* A build is running exactly while a worker is between admission and finishBuild with
\* it, and as long Cancel finds its context.
THEOREM RunningIsHeldHolds == Spec => []RunningIsHeld
<1>1. IInv => RunningIsHeld
  <2> SUFFICES ASSUME IInv, NEW b \in Build
      PROVE  /\ state[b] = "running" <=> \E w \in Holders(b) : InRun(w)
             /\ state[b] = "running" <=> b \in cancelable
    BY DEF RunningIsHeld
  <2>1. state[b] = "running" <=> b \in cancelable
    BY DEF IInv, StateInv
  <2>2. ASSUME NEW w \in Holders(b), InRun(w) PROVE state[b] = "running"
    BY <2>2 DEF Holders, IInv, StateInv
  <2>3. ASSUME state[b] = "running" PROVE \E w \in Holders(b) : InRun(w)
    <3>1. Held(b)
      BY <2>3 DEF IInv, StateInv, Outcome
    <3>2. PICK w \in Worker : job[w] = b
      BY <3>1 DEF Held
    <3>3. at[w] \in At \ {"idle", "gone"}
      BY <3>2, BuildAssumption DEF IInv, TypeOK
    <3>4. InRun(w)
      BY <2>3, <3>2, <3>3 DEF IInv, StateInv, InRun, Outcome, At
    <3> QED
      BY <3>2, <3>4 DEF Holders
  <2> QED
    BY <2>1, <2>2, <2>3
<1> QED
  BY <1>1, InvHolds, PTL
-----------------------------------------------------------------------------
\* What is left when a build has ended: the event done, and its volume.
DoneInv ==
  \A b \in doneSent :
    /\ request[b] = "answered" /\ ~InQueue(b) /\ state[b] \in Outcome
    /\ \A w \in Worker : job[w] = b => at[w] \in {"metrics", "cleanup"}

\* The places of a worker that has not yet made the volume.
Before == {"check", "lookup", "missing", "admit", "start", "volume"}

VolumeInv ==
  /\ \A b \in volumes : request[b] = "answered" /\ ~InQueue(b)
  /\ \A w \in Worker : job[w] \in volumes => at[w] \notin Before
  /\ \A w \in Worker : at[w] \in {"stages", "aggregate"} => job[w] \in volumes
  /\ \A b \in volumes \ leaked : Held(b)

\* A step of the handlers.
LEMMA HandlersKeepEnds ==
  ASSUME IInv, DoneInv, VolumeInv, Handlers
  PROVE  DoneInv' /\ VolumeInv' /\ \A b \in doneSent : state'[b] = state[b]
<1> USE DEF IInv
<1>1. UNCHANGED <<job, at, volumes, leaked, doneSent>>
  BY DEF Handlers, PutPipeline, DeletePipeline, FindPipeline, CreateBuild, Submit, Cancel,
         workerVars, volumeVars
<1>2. \A b \in Build : request[b] = "answered" =>
        /\ request'[b] = "answered"
        /\ InQueue(b)' => InQueue(b)
        /\ state[b] \in Outcome => state'[b] = state[b]
  <2>1. CASE UNCHANGED <<request, queue, state>>
    BY <2>1 DEF InQueue
  <2>2. ASSUME NEW b \in Build, FindPipeline(b) \/ CreateBuild(b)
        PROVE  UNCHANGED <<queue, state>> /\
               \A c \in Build : request[c] = "answered" => request'[c] = "answered"
    BY <2>2 DEF FindPipeline, CreateBuild, TypeOK
  <2>3. ASSUME NEW b \in Build, Submit(b), NEW c \in Build, request[c] = "answered"
        PROVE  request'[c] = "answered" /\ (InQueue(c)' => InQueue(c)) /\ state'[c] = state[c]
    <3>1. request[b] = "created" /\ request' = [request EXCEPT ![b] = "answered"]
      BY <2>3 DEF Submit
    <3>2. c # b /\ request'[c] = "answered"
      BY <2>3, <3>1 DEF TypeOK
    <3>3. CASE Enqueued(b)
      BY <2>3, <3>2, <3>3, EnqueuePlaces DEF Enqueued
    <3>4. CASE Rejected(b)
      BY <2>3, <3>2, <3>4 DEF Rejected, InQueue, TypeOK
    <3> QED
      BY <2>3, <3>2, <3>3, <3>4 DEF Submit
  <2>4. ASSUME NEW b \in Build, Cancel(b)
        PROVE  UNCHANGED <<request, queue>> /\
               \A c \in Build : state[c] \in Outcome => state'[c] = state[c]
    BY <2>4 DEF Cancel, storeVars, Outcome, TypeOK
  <2>5. ASSUME NEW p \in Pipeline, PutPipeline(p) \/ DeletePipeline(p)
        PROVE  UNCHANGED <<request, queue, state>>
    BY <2>5 DEF PutPipeline, DeletePipeline
  <2> QED
    BY <2>1, <2>2, <2>3, <2>4, <2>5 DEF Handlers, InQueue
<1>3. doneSent \subseteq Build /\ volumes \subseteq Build
  BY DEF TypeOK
<1>4. \A b \in Build : Held(b)' <=> Held(b)
  BY <1>1 DEF Held
<1> QED
  BY <1>1, <1>2, <1>3, <1>4 DEF DoneInv, VolumeInv

\* A step of a worker inside runBuild that neither publishes done nor touches the volume.
LEMMA MovesKeepEnds ==
  ASSUME IInv, DoneInv, VolumeInv, NEW w \in Worker,
         NEW from \in At \ {"idle", "gone"}, NEW to \in At \ {"idle", "gone"}, Goto(w, from, to),
         UNCHANGED <<queue, job, request, volumes, leaked, doneSent>>,
         state' = state \/ \E st \in State : state' = [state EXCEPT ![job[w]] = st] /\ from \notin {"metrics", "cleanup"},
         from \in {"metrics", "cleanup"} => to \in {"metrics", "cleanup"},
         to \in Before => from \in Before,
         to \in {"stages", "aggregate"} => from \in {"stages", "aggregate"}
  PROVE  DoneInv' /\ VolumeInv' /\ \A b \in doneSent : state'[b] = state[b]
<1> USE DEF IInv
<1>1. at'[w] = to /\ at[w] = from /\ \A v \in Worker \ {w} : at'[v] = at[v]
  BY DEF Goto, TypeOK
<1>2. \A b \in Build : (InQueue(b)' <=> InQueue(b)) /\ (Held(b)' <=> Held(b))
  BY DEF InQueue, Held
<1>3. doneSent \subseteq Build /\ volumes \subseteq Build
  BY DEF TypeOK
<1>4. \A b \in doneSent : state'[b] = state[b]
  BY <1>1, <1>3 DEF DoneInv, TypeOK
<1>5. DoneInv'
  BY <1>1, <1>2, <1>3, <1>4 DEF DoneInv
<1>6. VolumeInv'
  BY <1>1, <1>2, <1>3 DEF VolumeInv
<1> QED
  BY <1>4, <1>5, <1>6

\* A worker that returns, with its volume removed, leaked or never made.
LEMMA ReturnsKeepEnds ==
  ASSUME IInv, DoneInv, VolumeInv, NEW w \in Worker,
         NEW from \in At \ {"idle", "gone"}, Return(w, from),
         UNCHANGED <<queue, request, doneSent>>,
         \A b \in Build \ {job[w]} : state'[b] = state[b],
         state' = state \/ from \notin {"metrics", "cleanup"},
         volumes' \subseteq volumes /\ leaked \subseteq leaked',
         \A b \in Build \ {job[w]} : b \in volumes => b \in volumes',
         job[w] \notin volumes' \ leaked'
  PROVE  DoneInv' /\ VolumeInv' /\ \A b \in doneSent : state'[b] = state[b]
<1> USE DEF IInv
<1>1. /\ job[w] \in Build
      /\ \A c \in Build : InQueue(c)' <=> InQueue(c)
      /\ \A c \in Build : Held(c)' <=> Held(c) /\ c # job[w]
  BY ReturnPlaces
<1>2. /\ at[w] = from /\ at'[w] = "idle" /\ job'[w] = NoBuild
      /\ \A v \in Worker \ {w} : at'[v] = at[v] /\ job'[v] = job[v]
  BY DEF Return, Goto, TypeOK
<1>3. doneSent \subseteq Build /\ volumes \subseteq Build /\ NoBuild \notin Build
  BY BuildAssumption DEF TypeOK
<1>4. \A v \in Worker \ {w} : job[v] # job[w]
  BY <1>1, <1>3 DEF PlaceInv
<1>5. \A b \in doneSent : state'[b] = state[b]
  BY <1>2, <1>3 DEF DoneInv
<1>6. DoneInv'
  BY <1>1, <1>2, <1>3, <1>5 DEF DoneInv
<1>7. \A v \in Worker : at'[v] \in {"stages", "aggregate"} => job'[v] \in volumes'
  <2> SUFFICES ASSUME NEW v \in Worker, at'[v] \in {"stages", "aggregate"}
               PROVE  job'[v] \in volumes'
    OBVIOUS
  <2>1. v # w /\ job'[v] = job[v] /\ job[v] \in volumes
    BY <1>2 DEF VolumeInv
  <2> QED
    BY <2>1, <1>3, <1>4
<1>8. VolumeInv'
  BY <1>1, <1>2, <1>3, <1>7 DEF VolumeInv
<1> QED
  BY <1>5, <1>6, <1>8
LEMMA WorkersKeepEnds ==
  ASSUME IInv, DoneInv, VolumeInv, NEW w \in Worker, Advance(w) \/ Exit(w) \/ RunStages(w)
  PROVE  DoneInv' /\ VolumeInv' /\ \A b \in doneSent : state'[b] = state[b]
<1>0. doneSent \subseteq Build /\ volumes \subseteq Build /\ NoBuild \notin Build
  BY BuildAssumption DEF IInv, TypeOK
<1>1. CASE Take(w)
  <2>1. /\ job'[w] \in Build /\ InQueue(job'[w])
        /\ \A c \in Build : InQueue(c)' <=> InQueue(c) /\ c # job'[w]
        /\ \A c \in Build : Held(c)' <=> Held(c) \/ c = job'[w]
    BY <1>1, TakePlaces DEF IInv
  <2>2. /\ at'[w] = "check"
        /\ \A v \in Worker \ {w} : at'[v] = at[v] /\ job'[v] = job[v]
        /\ UNCHANGED <<request, state, volumes, leaked, doneSent>>
    BY <1>1 DEF Take, Goto, IInv, TypeOK, storeVars, volumeVars
  <2>3. job'[w] \notin doneSent /\ job'[w] \notin volumes
    BY <2>1 DEF DoneInv, VolumeInv
  <2>4. DoneInv'
    BY <1>0, <2>1, <2>2, <2>3 DEF DoneInv
  <2>5. VolumeInv'
    BY <1>0, <2>1, <2>2, <2>3 DEF VolumeInv
  <2> QED
    BY <2>2, <2>4, <2>5
<1>2. CASE Exit(w)
  <2>1. /\ at[w] = "idle" /\ at'[w] = "gone" /\ \A v \in Worker \ {w} : at'[v] = at[v]
        /\ UNCHANGED <<queue, job, request, state, volumes, leaked, doneSent>>
    BY <1>2 DEF Exit, Goto, IInv, TypeOK, storeVars, volumeVars
  <2>2. job[w] = NoBuild
    BY <2>1 DEF IInv, TypeOK
  <2>3. \A b \in Build : (InQueue(b)' <=> InQueue(b)) /\ (Held(b)' <=> Held(b))
    BY <2>1 DEF InQueue, Held
  <2>4. DoneInv'
    BY <1>0, <2>1, <2>2, <2>3 DEF DoneInv
  <2>5. VolumeInv'
    BY <1>0, <2>1, <2>2, <2>3 DEF VolumeInv, Before
  <2> QED
    BY <2>1, <2>4, <2>5
<1>3. CASE NotCanceled(w)
  <2>1. /\ Goto(w, "check", "lookup")
        /\ UNCHANGED <<queue, job, request, volumes, leaked, doneSent>>
        /\ UNCHANGED state
    BY <1>3 DEF NotCanceled, storeVars, volumeVars
  <2> QED
    BY <2>1, MovesKeepEnds DEF At, Before
<1>4. CASE SkipCanceled(w)
  <2>1. /\ Return(w, "check") /\ UNCHANGED <<queue, request, doneSent, state, volumes, leaked>>
    BY <1>4 DEF SkipCanceled, storeVars, volumeVars
  <2>2. job[w] \notin volumes
    BY <2>1 DEF Return, Goto, VolumeInv, Before
  <2> QED
    BY <2>1, <2>2, ReturnsKeepEnds DEF At
<1>5. CASE FailMissing(w)
  <2>1. /\ Return(w, "missing") /\ UNCHANGED <<queue, request, doneSent, volumes, leaked>>
        /\ state' = [state EXCEPT ![job[w]] = "failed"]
    BY <1>5 DEF FailMissing, storeVars, volumeVars
  <2>2. job[w] \notin volumes
    BY <2>1 DEF Return, Goto, VolumeInv, Before
  <2>3. \A c \in Build \ {job[w]} : state'[c] = state[c]
    BY <2>1 DEF IInv, TypeOK
  <2> QED
    BY <2>1, <2>2, <2>3, ReturnsKeepEnds DEF At
<1>6. CASE OnStart(w)
  <2>1. /\ Goto(w, "start", "volume")
        /\ UNCHANGED <<queue, job, request, volumes, leaked, doneSent>>
        /\ UNCHANGED state
    BY <1>6 DEF OnStart, storeVars, volumeVars
  <2> QED
    BY <2>1, MovesKeepEnds DEF At, Before
<1>7. CASE CreateVolumeFails(w)
  <2>1. /\ Goto(w, "volume", "finish")
        /\ UNCHANGED <<queue, job, request, volumes, leaked, doneSent>>
        /\ UNCHANGED state
    BY <1>7 DEF CreateVolumeFails, storeVars, volumeVars
  <2> QED
    BY <2>1, MovesKeepEnds DEF At, Before
<1>8. CASE RunStages(w)
  <2>1. /\ Goto(w, "stages", "aggregate")
        /\ UNCHANGED <<queue, job, request, volumes, leaked, doneSent>>
        /\ UNCHANGED state
    BY <1>8 DEF RunStages, storeVars, volumeVars
  <2> QED
    BY <2>1, MovesKeepEnds DEF At, Before
<1>9. CASE Aggregate(w)
  <2>1. /\ Goto(w, "aggregate", "finish")
        /\ UNCHANGED <<queue, job, request, volumes, leaked, doneSent>>
        /\ UNCHANGED state
    BY <1>9 DEF Aggregate, storeVars, volumeVars
  <2> QED
    BY <2>1, MovesKeepEnds DEF At, Before
<1>10. CASE OnFinish(w)
  <2>1. /\ Goto(w, "metrics", "cleanup")
        /\ UNCHANGED <<queue, job, request, volumes, leaked, doneSent>>
        /\ UNCHANGED state
    BY <1>10 DEF OnFinish, storeVars, volumeVars
  <2> QED
    BY <2>1, MovesKeepEnds DEF At, Before
<1>11. CASE LookupPipeline(w)
  <2>1. /\ Goto(w, "lookup", "admit") \/ Goto(w, "lookup", "missing")
        /\ UNCHANGED <<queue, job, request, state, volumes, leaked, doneSent>>
    BY <1>11 DEF LookupPipeline, storeVars, volumeVars
  <2> QED
    BY <2>1, MovesKeepEnds DEF At, Before
<1>12. CASE Admit(w)
  <2>1. /\ Goto(w, "admit", "start")
        /\ UNCHANGED <<queue, job, request, volumes, leaked, doneSent>>
        /\ state' = [state EXCEPT ![job[w]] = "running"]
    BY <1>12 DEF Admit, storeVars, volumeVars
  <2> QED
    BY <2>1, MovesKeepEnds DEF At, Before, State
<1>13. CASE FinishBuild(w)
  <2>1. /\ Goto(w, "finish", "done")
        /\ UNCHANGED <<queue, job, request, volumes, leaked, doneSent>>
        /\ state' = [state EXCEPT ![job[w]] = final[w]]
    BY <1>13 DEF FinishBuild, storeVars, volumeVars
  <2>2. final[w] \in State
    BY DEF IInv, TypeOK, State
  <2> QED
    BY <2>1, <2>2, MovesKeepEnds DEF At, Before
<1>14. CASE CreateVolume(w)
  <2>1. /\ at[w] = "volume" /\ at'[w] = "stages" /\ \A v \in Worker \ {w} : at'[v] = at[v]
        /\ UNCHANGED <<queue, job, request, state, leaked, doneSent>>
        /\ volumes' = volumes \cup {job[w]}
    BY <1>14 DEF CreateVolume, Goto, IInv, TypeOK, storeVars
  <2>2. job[w] \in Build /\ Held(job[w])
    BY <2>1 DEF IInv, TypeOK, Held
  <2>3. request[job[w]] = "answered" /\ ~InQueue(job[w])
    BY <2>2 DEF IInv, PlaceInv
  <2>4. \A v \in Worker \ {w} : job[v] # job[w]
    BY <2>2, <1>0 DEF IInv, PlaceInv
  <2>5. \A b \in Build : (InQueue(b)' <=> InQueue(b)) /\ (Held(b)' <=> Held(b))
    BY <2>1 DEF InQueue, Held
  <2>6. DoneInv'
    BY <1>0, <2>1, <2>5 DEF DoneInv
  <2>7. VolumeInv'
    BY <1>0, <2>1, <2>2, <2>3, <2>4, <2>5 DEF VolumeInv, Before
  <2> QED
    BY <2>1, <2>6, <2>7
<1>15. CASE PublishDone(w)
  <2>1. /\ at[w] = "done" /\ at'[w] = "metrics" /\ \A v \in Worker \ {w} : at'[v] = at[v]
        /\ UNCHANGED <<queue, job, request, state, volumes, leaked>>
        /\ doneSent' = doneSent \cup {job[w]}
    BY <1>15 DEF PublishDone, Goto, IInv, TypeOK, storeVars, volumeVars
  <2>2. job[w] \in Build /\ Held(job[w])
    BY <2>1 DEF IInv, TypeOK, Held
  <2>3. request[job[w]] = "answered" /\ ~InQueue(job[w]) /\ state[job[w]] \in Outcome
    BY <2>1, <2>2 DEF IInv, PlaceInv, StateInv
  <2>4. \A v \in Worker \ {w} : job[v] # job[w]
    BY <2>2, <1>0 DEF IInv, PlaceInv
  <2>5. \A b \in Build : (InQueue(b)' <=> InQueue(b)) /\ (Held(b)' <=> Held(b))
    BY <2>1 DEF InQueue, Held
  <2>6. DoneInv'
    BY <1>0, <2>1, <2>2, <2>3, <2>4, <2>5 DEF DoneInv
  <2>7. VolumeInv'
    BY <1>0, <2>1, <2>5 DEF VolumeInv, Before
  <2> QED
    BY <2>1, <2>6, <2>7
<1>16. CASE Cleanup(w)
  <2>1. /\ Return(w, "cleanup") /\ UNCHANGED <<queue, request, state, doneSent>>
    BY <1>16 DEF Cleanup, storeVars, cancelVars
  <2>2. PICK failing \in SUBSET ({job[w]} \cap volumes) :
          leaked' = leaked \cup failing /\ volumes' = volumes \ ({job[w]} \ failing)
    BY <1>16 DEF Cleanup
  <2> QED
    BY <2>1, <2>2, ReturnsKeepEnds DEF At
<1> QED
  BY <1>1, <1>2, <1>3, <1>4, <1>5, <1>6, <1>7, <1>8, <1>9, <1>10, <1>11, <1>12,
     <1>13, <1>14, <1>15, <1>16 DEF Advance

EndInv == IInv /\ DoneInv /\ VolumeInv

LEMMA EndInvNext ==
  EndInv /\ [Next]_vars => EndInv' /\ \A b \in doneSent : state'[b] = state[b]
<1> SUFFICES ASSUME EndInv, [Next]_vars
             PROVE  EndInv' /\ \A b \in doneSent : state'[b] = state[b]
  OBVIOUS
<1> USE DEF EndInv
<1>1. CASE Handlers
  BY <1>1, HandlersKeepEnds, IInvNext
<1>2. ASSUME NEW w \in Worker, Advance(w) \/ Exit(w) \/ RunStages(w)
      PROVE  EndInv' /\ \A b \in doneSent : state'[b] = state[b]
  BY <1>2, WorkersKeepEnds, IInvNext
<1>3. CASE Process \/ UNCHANGED vars
  <2>1. UNCHANGED <<queue, job, request, at, state, volumes, leaked, doneSent>>
    BY <1>3 DEF Process, Shutdown, ServeReturns, ExitProcess, vars, storeVars, workerVars,
                volumeVars
  <2> QED
    BY <2>1, IInvNext DEF DoneInv, VolumeInv, InQueue, Held
<1> QED
  BY <1>1, <1>2, <1>3 DEF Next

\* The invariant of the ends: whose done event is out is with nobody but a worker that
\* tidies up, and a volume is with a worker or leaked.
THEOREM EndInvHolds == Spec => []EndInv
<1>1. Init => EndInv
  <2> SUFFICES ASSUME Init PROVE EndInv
    OBVIOUS
  <2>1. doneSent = {} /\ volumes = {} /\ \A w \in Worker : at[w] = "idle"
    BY DEF Init
  <2> QED
    BY <2>1, TypeInit, InitPlaces DEF EndInv, IInv, DoneInv, VolumeInv
<1> QED
  BY <1>1, EndInvNext, PTL DEF Spec

\* A volume outlives runBuild only when RemoveVolume failed, and stages run with one.
THEOREM VolumeLifetimeHolds == Spec => []VolumeLifetime
<1>1. EndInv => VolumeLifetime
  BY DEF EndInv, IInv, TypeOK, VolumeInv, VolumeLifetime, Holders, Held
<1> QED
  BY <1>1, EndInvHolds, PTL

\* No step of anybody changes the state of a build whose done event is out.
THEOREM DoneIsFinalHolds == Spec => DoneIsFinal
<1>1. EndInv /\ [Next]_vars =>
        [\A b \in doneSent : Terminal(state[b]) /\ state'[b] = state[b]]_vars
  <2> SUFFICES ASSUME EndInv, [Next]_vars, NEW b \in doneSent
               PROVE  Terminal(state[b]) /\ state'[b] = state[b]
    OBVIOUS
  <2>1. Terminal(state[b])
    BY DEF EndInv, DoneInv, Outcome, Terminal
  <2> QED
    BY <2>1, EndInvNext
<1> QED
  BY <1>1, EndInvHolds, PTL DEF Spec, DoneIsFinal
-----------------------------------------------------------------------------
\* MetricsBalance is inductive but for the outcome that OnFinish is given (StateInv).
Counting == {w \in Worker : Counted(w)}

LEMMA CountingIsFinite == IsFiniteSet(Counting)
BY FS_Subset, BuildAssumption DEF Counting

\* A step that neither starts nor finishes a count.
LEMMA CountKept ==
  ASSUME MetricsBalance, UNCHANGED metricsVars,
         \A w \in Worker : Counted(w)' <=> Counted(w)
  PROVE  MetricsBalance'
BY DEF MetricsBalance, metricsVars, Counted

LEMMA StartCounts ==
  ASSUME TypeOK, MetricsBalance, NEW w \in Worker, OnStart(w)
  PROVE  MetricsBalance'
<1>1. /\ at[w] = "start" /\ at' = [at EXCEPT ![w] = "volume"]
      /\ started' = started + 1 /\ running' = running + 1 /\ UNCHANGED finished
  BY DEF OnStart, Goto
<1>2. w \notin Counting /\ Counting' = Counting \cup {w}
  BY <1>1 DEF Counting, Counted, TypeOK
<1>3. Cardinality(Counting') = Cardinality(Counting) + 1
  BY <1>2, CountingIsFinite, FS_AddElement
<1>4. running = Cardinality(Counting) /\ running' = Cardinality(Counting')
  BY <1>1, <1>3 DEF MetricsBalance, Counting
<1>5. started' = running' + finished'["success"] + finished'["failed"] + finished'["canceled"]
  <2>1. /\ finished["success"] \in Nat /\ finished["failed"] \in Nat
        /\ finished["canceled"] \in Nat /\ running \in Nat
    BY DEF TypeOK
  <2>2. started = running + finished["success"] + finished["failed"] + finished["canceled"]
    BY DEF MetricsBalance
  <2> QED
    BY <1>1, <2>1, <2>2
<1> QED
  BY <1>4, <1>5 DEF MetricsBalance, Counting

LEMMA FinishCounts ==
  ASSUME TypeOK, StateInv, MetricsBalance, NEW w \in Worker, OnFinish(w)
  PROVE  MetricsBalance'
<1>1. /\ at[w] = "metrics" /\ at' = [at EXCEPT ![w] = "cleanup"]
      /\ running' = IF running > 0 THEN running - 1 ELSE running
      /\ finished' = [finished EXCEPT ![final[w]] = @ + 1]
      /\ UNCHANGED started
  BY DEF OnFinish, Goto
<1>2. w \in Counting /\ Counting' = Counting \ {w}
  BY <1>1 DEF Counting, Counted, TypeOK
<1>3. Cardinality(Counting') = Cardinality(Counting) - 1
  BY <1>2, CountingIsFinite, FS_RemoveElement
<1>4. Cardinality(Counting) # 0 /\ Cardinality(Counting) \in Nat
  BY <1>2, CountingIsFinite, FS_EmptySet, FS_CardinalityType
<1>5. running = Cardinality(Counting) /\ running > 0 /\ running' = running - 1
  BY <1>1, <1>4 DEF MetricsBalance, Counting
<1>6. final[w] \in Outcome
  BY <1>1 DEF StateInv
<1>7. /\ finished["success"] \in Nat /\ finished["failed"] \in Nat /\ finished["canceled"] \in Nat
      /\ finished'["success"] \in Nat /\ finished'["failed"] \in Nat
      /\ finished'["canceled"] \in Nat
      /\ finished'["success"] + finished'["failed"] + finished'["canceled"]
           = finished["success"] + finished["failed"] + finished["canceled"] + 1
  <2>1. /\ finished["success"] \in Nat /\ finished["failed"] \in Nat
        /\ finished["canceled"] \in Nat
        /\ finished \in [Outcome -> Nat]
    BY DEF TypeOK, Outcome
  <2>2. CASE final[w] = "success"
    BY <1>1, <2>1, <2>2 DEF Outcome
  <2>3. CASE final[w] = "failed"
    BY <1>1, <2>1, <2>3 DEF Outcome
  <2>4. CASE final[w] = "canceled"
    BY <1>1, <2>1, <2>4 DEF Outcome
  <2> QED
    BY <1>6, <2>1, <2>2, <2>3, <2>4 DEF Outcome
<1>8. running' = Cardinality(Counting')
  BY <1>3, <1>5
<1>9. started' = running' + finished'["success"] + finished'["failed"] + finished'["canceled"]
  <2>1. started = running + finished["success"] + finished["failed"] + finished["canceled"]
    BY DEF MetricsBalance
  <2>2. /\ running \in Nat /\ started' = started /\ running' = running - 1
    BY <1>1, <1>5 DEF TypeOK
  <2> DEFINE old == finished["success"] + finished["failed"] + finished["canceled"]
             new == finished'["success"] + finished'["failed"] + finished'["canceled"]
  <2>3. old \in Nat /\ new = old + 1
    BY <1>7
  <2>4. started = running + old
    BY <1>7, <2>1, <2>2
  <2>5. running' + finished'["success"] + finished'["failed"] + finished'["canceled"]
          = running' + new
    BY <1>7, <2>2, <1>5
  <2> HIDE DEF old, new
  <2>6. started' = running' + new
    BY <2>2, <2>3, <2>4
  <2> QED
    BY <2>5, <2>6
<1> QED
  BY <1>8, <1>9 DEF MetricsBalance, Counting

LEMMA MetricsNext == IInv /\ MetricsBalance /\ [Next]_vars => MetricsBalance'
<1> SUFFICES ASSUME IInv, MetricsBalance, [Next]_vars PROVE MetricsBalance'
  OBVIOUS
<1>1. CASE Handlers \/ Process \/ UNCHANGED vars
  <2>1. UNCHANGED <<at, metricsVars>>
    BY <1>1 DEF Handlers, PutPipeline, DeletePipeline, FindPipeline, CreateBuild, Submit,
         Cancel, Process, Shutdown, ServeReturns, ExitProcess, vars, workerVars
  <2> QED
    BY <2>1, CountKept DEF Counted
<1>2. ASSUME NEW w \in Worker, Advance(w) \/ Exit(w) \/ RunStages(w) PROVE MetricsBalance'
  <2>1. CASE OnStart(w)
    BY <2>1, StartCounts DEF IInv
  <2>2. CASE OnFinish(w)
    BY <2>2, FinishCounts DEF IInv
  <2>3. CASE Take(w) \/ Exit(w) \/ NotCanceled(w) \/ LookupPipeline(w) \/ Admit(w)
             \/ CreateVolume(w) \/ CreateVolumeFails(w)
    <3>1. /\ UNCHANGED metricsVars
          /\ \E from, to \in At :
               /\ at[w] = from /\ at' = [at EXCEPT ![w] = to]
               /\ <<from, to>> \in
                    {<<"idle", "check">>, <<"idle", "gone">>, <<"check", "lookup">>,
                     <<"lookup", "admit">>, <<"lookup", "missing">>, <<"admit", "start">>,
                     <<"volume", "stages">>, <<"volume", "finish">>}
      BY <2>3 DEF Take, Exit, NotCanceled, LookupPipeline, Admit, CreateVolume,
           CreateVolumeFails, Goto, At
    <3> QED
      BY <3>1, CountKept DEF Counted, IInv, TypeOK
  <2>4. CASE SkipCanceled(w) \/ FailMissing(w) \/ Cleanup(w)
    <3>1. /\ UNCHANGED metricsVars
          /\ at[w] \in {"check", "missing", "cleanup"} /\ at' = [at EXCEPT ![w] = "idle"]
      BY <2>4 DEF SkipCanceled, FailMissing, Cleanup, Return, Goto
    <3> QED
      BY <3>1, CountKept DEF Counted, IInv, TypeOK
  <2>5. CASE RunStages(w) \/ Aggregate(w) \/ FinishBuild(w) \/ PublishDone(w)
    <3>1. /\ UNCHANGED metricsVars
          /\ at[w] \in {"stages", "aggregate", "finish", "done"}
          /\ \E to \in {"aggregate", "finish", "done", "metrics"} : at' = [at EXCEPT ![w] = to]
      BY <2>5 DEF RunStages, Aggregate, FinishBuild, PublishDone, Goto
    <3> QED
      BY <3>1, CountKept DEF Counted, IInv, TypeOK
  <2> QED
    BY <1>2, <2>1, <2>2, <2>3, <2>4, <2>5 DEF Advance
<1> QED
  BY <1>1, <1>2 DEF Next

\* The counters of the metrics registry balance after every step of OnStart and OnFinish.
THEOREM MetricsBalanceHolds == Spec => []MetricsBalance
<1>1. Init => MetricsBalance
  <2> SUFFICES ASSUME Init PROVE MetricsBalance
    OBVIOUS
  <2>1. Counting = {}
    BY DEF Init, Counting, Counted
  <2>2. Cardinality(Counting) = 0
    BY <2>1, FS_EmptySet
  <2> QED
    BY <2>2 DEF Init, MetricsBalance, Counting
<1> QED
  BY <1>1, InvHolds, MetricsNext, PTL DEF Spec
-----------------------------------------------------------------------------
\* Numbers come from a counter that never goes back.
NumberInv == \A b \in Build : Known(b) => number[b] <= counters[PipelineOf[b]]

LEMMA NumbersNext ==
  ASSUME TypeOK, NumberInv, NumbersUnique, [Next]_vars
  PROVE  NumberInv' /\ NumbersUnique'
<1>1. ASSUME NEW b \in Build, CreateBuild(b) PROVE NumberInv' /\ NumbersUnique'
  <2> DEFINE p == PipelineOf[b]
  <2>1. /\ p \in Pipeline /\ counters[p] \in Nat
        /\ counters' = [counters EXCEPT ![p] = @ + 1]
        /\ number' = [number EXCEPT ![b] = counters[p] + 1]
        /\ request' = [request EXCEPT ![b] = "created"]
    BY <1>1, BuildAssumption DEF CreateBuild, TypeOK
  <2>2. number'[b] = counters[p] + 1 /\ counters'[p] = counters[p] + 1
    BY <2>1 DEF TypeOK
  <2>3. ASSUME NEW c \in Build \ {b}
        PROVE  /\ number'[c] = number[c] /\ number[c] \in Nat
               /\ Known(c)' <=> Known(c)
               /\ counters[PipelineOf[c]] \in Nat /\ counters'[PipelineOf[c]] \in Nat
               /\ counters[PipelineOf[c]] <= counters'[PipelineOf[c]]
    <3>1. PipelineOf[c] \in Pipeline
      BY BuildAssumption
    <3>2. number'[c] = number[c] /\ number[c] \in Nat /\ (Known(c)' <=> Known(c))
      BY <2>1 DEF TypeOK, Known
    <3>3. CASE PipelineOf[c] = p
      BY <2>1, <2>2, <3>2, <3>3
    <3>4. CASE PipelineOf[c] # p
      BY <2>1, <3>1, <3>2, <3>4 DEF TypeOK
    <3> QED
      BY <3>3, <3>4
  <2>4. ASSUME NEW c \in Build, Known(c)' PROVE number'[c] <= counters'[PipelineOf[c]]
    <3>1. CASE c = b
      BY <2>1, <2>2, <3>1
    <3>2. CASE c # b
      BY <2>3, <2>4, <3>2 DEF NumberInv
    <3> QED
      BY <3>1, <3>2
  <2>5. ASSUME NEW c \in Build \ {b}, PipelineOf[c] = p, Known(c)' PROVE number'[c] # number'[b]
    BY <2>1, <2>2, <2>3, <2>5 DEF NumberInv
  <2> QED
    BY <2>3, <2>4, <2>5 DEF NumberInv, NumbersUnique
<1>2. ASSUME NEW b \in Build, FindPipeline(b) \/ Submit(b) PROVE NumberInv' /\ NumbersUnique'
  <2>1. UNCHANGED <<number, counters>> /\ \A c \in Build : Known(c)' <=> Known(c)
    BY <1>2 DEF FindPipeline, Submit, Known, TypeOK
  <2> QED
    BY <2>1 DEF NumberInv, NumbersUnique
<1>3. CASE UNCHANGED <<number, counters, request>>
  BY <1>3 DEF NumberInv, NumbersUnique, Known
<1>4. ASSUME NEW p \in Pipeline, PutPipeline(p) \/ DeletePipeline(p)
      PROVE  UNCHANGED <<number, counters, request>>
  BY <1>4 DEF PutPipeline, DeletePipeline
<1>5. ASSUME NEW b \in Build, Cancel(b) PROVE UNCHANGED <<number, counters, request>>
  BY <1>5 DEF Cancel, storeVars
<1>6. CASE Process \/ UNCHANGED vars
  BY <1>3, <1>6 DEF Process, Shutdown, ServeReturns, ExitProcess, vars, storeVars
<1>7. ASSUME NEW w \in Worker, Advance(w) \/ Exit(w) \/ RunStages(w)
      PROVE  UNCHANGED <<number, counters, request>>
  BY <1>7 DEF Advance, Take, SkipCanceled, NotCanceled, LookupPipeline, FailMissing, Admit,
     OnStart, CreateVolume, CreateVolumeFails, Aggregate, FinishBuild, PublishDone, OnFinish,
     Cleanup, Exit, RunStages, storeVars
<1> QED
  BY <1>1, <1>2, <1>3, <1>4, <1>5, <1>6, <1>7 DEF Next, Handlers

\* Two builds of a pipeline have different numbers, whatever is deleted in between.
THEOREM NumbersUniqueHolds == Spec => []NumbersUnique
<1>1. Init => NumberInv /\ NumbersUnique
  BY DEF Init, NumberInv, NumbersUnique, Known
<1>2. TypeOK /\ NumberInv /\ NumbersUnique /\ [Next]_vars => NumberInv' /\ NumbersUnique'
  BY NumbersNext
<1> QED
  BY <1>1, <1>2, TypeCorrect, PTL DEF Spec
-----------------------------------------------------------------------------
(***************************************************************************)
(* The refinement of BuildLife.  Each action changes the life of one build *)
(* at most: of the one whose handler moves, or of the worker's own.        *)
(***************************************************************************)
Shown == [b \in Build |-> IF Known(b) THEN state[b] ELSE "none"]
OverSet == {b \in Build : Over(b)}
EndingSet == {b \in Build : \E w \in Holders(b) : at[w] = "done"}
Late == {"done", "metrics", "cleanup"}
ToTell(b) == \E w \in Worker : job[w] = b /\ at[w] = "done"

\* Nobody touches a build before it is created.
FreshInv == \A b \in Build : ~ Known(b) => state[b] = "pending"

SameLife(b) ==
  /\ (Known(b)' <=> Known(b)) /\ (Known(b) => state'[b] = state[b])
  /\ (Over(b)' <=> Over(b)) /\ (ToTell(b)' <=> ToTell(b))
  /\ (b \in doneSent' <=> b \in doneSent)

LEMMA OverIs ==
  ASSUME NEW b
  PROVE  Over(b) <=> /\ request[b] = "answered" /\ ~ InQueue(b)
                     /\ \A w \in Worker : job[w] = b => at[w] \in Late
BY DEF Over, Queued, Holders, InQueue, Late

\* The same one step later.
LEMMA OverIsNext ==
  ASSUME NEW b
  PROVE  Over(b)' <=> /\ request'[b] = "answered" /\ ~ InQueue(b)'
                      /\ \A w \in Worker : job'[w] = b => at'[w] \in Late
BY DEF Over, Queued, Holders, InQueue, Late

LEMMA EndingIs ==
  /\ EndingSet = {b \in Build : ToTell(b)}
  /\ EndingSet' = {b \in Build : ToTell(b)'}
BY DEF EndingSet, ToTell, Holders

\* A step that changes no life is a stutter.
LEMMA LifeKept ==
  ASSUME IInv, IInv', \A c \in Build : SameLife(c)
  PROVE  UNCHANGED Life!vars
<1>1. Shown' = Shown
  BY DEF Shown, SameLife
<1>2. OverSet' = OverSet
  BY DEF OverSet, SameLife
<1>3. EndingSet' = EndingSet
  BY EndingIs DEF SameLife
<1>4. doneSent' = doneSent
  BY DEF IInv, TypeOK, SameLife
<1> QED BY <1>1, <1>2, <1>3, <1>4 DEF Life!vars, Shown, OverSet, EndingSet

\* A step that changes one.
LEMMA LifeChanged ==
  ASSUME IInv, IInv', NEW b \in Build, \A c \in Build \ {b} : SameLife(c)
  PROVE  /\ Known(b)' => Shown' = [Shown EXCEPT ![b] = state'[b]]
         /\ Over(b)' => OverSet' = OverSet \cup {b}
         /\ ~ Over(b) /\ ~ Over(b)' => OverSet' = OverSet
         /\ ToTell(b)' => EndingSet' = EndingSet \cup {b}
         /\ ~ ToTell(b)' => EndingSet' = EndingSet \ {b}
         /\ b \in doneSent' => doneSent' = doneSent \cup {b}
         /\ b \notin doneSent' /\ b \notin doneSent => doneSent' = doneSent
<1>1. Known(b)' => Shown' = [Shown EXCEPT ![b] = state'[b]]
  BY DEF Shown, SameLife
<1>2. /\ Over(b)' => OverSet' = OverSet \cup {b}
      /\ ~ Over(b) /\ ~ Over(b)' => OverSet' = OverSet
  BY DEF OverSet, SameLife
<1>3. /\ ToTell(b)' => EndingSet' = EndingSet \cup {b}
      /\ ~ ToTell(b)' => EndingSet' = EndingSet \ {b}
  BY EndingIs DEF SameLife
<1>4. /\ b \in doneSent' => doneSent' = doneSent \cup {b}
      /\ b \notin doneSent' /\ b \notin doneSent => doneSent' = doneSent
  <2>1. doneSent \subseteq Build /\ doneSent' \subseteq Build
    BY DEF IInv, TypeOK
  <2> QED BY <2>1 DEF SameLife
<1> QED BY <1>1, <1>2, <1>3, <1>4

\* A build is over only with an outcome.
LEMMA OverEnded ==
  ASSUME IInv, NEW b \in Build, Over(b)
  PROVE  state[b] \in Outcome /\ Known(b)
<1>1. /\ request[b] = "answered" /\ ~ InQueue(b)
      /\ \A w \in Worker : job[w] = b => at[w] \in Late
  BY OverIs
<1>2. CASE Held(b)
  BY <1>1, <1>2 DEF Held, IInv, StateInv, Late, Known
<1>3. CASE ~ Held(b)
  BY <1>1, <1>3 DEF IInv, StateInv, Known
<1> QED BY <1>2, <1>3

\* A worker moves along with its build.
LEMMA MoveLife ==
  ASSUME IInv, NEW w \in Worker, NEW from \in At \ {"idle", "gone"},
         NEW to \in At \ {"idle", "gone"}, Goto(w, from, to),
         UNCHANGED <<queue, job, request>>
  PROVE  /\ job[w] \in Build /\ Known(job[w])
         /\ \A c \in Build : Known(c)' <=> Known(c)
         /\ \A c \in Build \ {job[w]} : (Over(c)' <=> Over(c)) /\ (ToTell(c)' <=> ToTell(c))
         /\ Over(job[w]) <=> from \in Late
         /\ Over(job[w])' <=> to \in Late
         /\ ToTell(job[w]) <=> from = "done"
         /\ ToTell(job[w])' <=> to = "done"
<1>1. /\ at[w] = from /\ at'[w] = to /\ \A v \in Worker \ {w} : at'[v] = at[v]
      /\ job[w] \in Build
  BY DEF Goto, IInv, TypeOK
<1>2. /\ request[job[w]] = "answered" /\ ~ InQueue(job[w])
      /\ \A v \in Worker : job[v] = job[w] => v = w
  BY <1>1, BuildAssumption DEF IInv, PlaceInv, Held
<1>3. \A c : InQueue(c)' <=> InQueue(c)
  BY DEF InQueue
<1>4. \A c \in Build \ {job[w]} : (Over(c)' <=> Over(c)) /\ (ToTell(c)' <=> ToTell(c))
  BY <1>1, <1>3, OverIs, OverIsNext DEF ToTell
<1> DEFINE b == job[w]
<1>5. Over(b) <=> from \in Late
  BY <1>1, <1>2, OverIs
<1>6. ASSUME NEW c, c = b
      PROVE  /\ Over(c)' <=> to \in Late
             /\ ToTell(c) <=> from = "done"
             /\ ToTell(c)' <=> to = "done"
  BY <1>1, <1>2, <1>3, <1>6, OverIsNext DEF ToTell
<1> QED BY <1>1, <1>2, <1>4, <1>5, <1>6 DEF Known

\* A worker gives its build away for good, or has published its end before.
LEMMA ReturnLife ==
  ASSUME IInv, NEW w \in Worker, NEW from \in At \ {"idle", "gone"}, Return(w, from),
         UNCHANGED <<queue, request>>
  PROVE  /\ job[w] \in Build /\ Known(job[w])
         /\ \A c \in Build : Known(c)' <=> Known(c)
         /\ \A c \in Build \ {job[w]} : (Over(c)' <=> Over(c)) /\ (ToTell(c)' <=> ToTell(c))
         /\ Over(job[w]) <=> from \in Late
         /\ \A c \in {job[w]} : Over(c)' /\ ~ ToTell(c)'
         /\ ToTell(job[w]) <=> from = "done"
<1>1. /\ at[w] = from /\ job[w] \in Build
      /\ at'[w] = "idle" /\ job'[w] = NoBuild
      /\ \A v \in Worker \ {w} : at'[v] = at[v] /\ job'[v] = job[v]
  BY DEF Return, Goto, IInv, TypeOK
<1>2. /\ request[job[w]] = "answered" /\ ~ InQueue(job[w])
      /\ \A v \in Worker : job[v] = job[w] => v = w
  BY <1>1, BuildAssumption DEF IInv, PlaceInv, Held
<1>3. \A c : InQueue(c)' <=> InQueue(c)
  BY DEF InQueue
<1>4. \A c \in Build \ {job[w]} : (Over(c)' <=> Over(c)) /\ (ToTell(c)' <=> ToTell(c))
  BY <1>1, <1>3, OverIs, OverIsNext, BuildAssumption DEF ToTell
<1>5. Over(job[w]) <=> from \in Late
  BY <1>1, <1>2, OverIs
<1>6. ToTell(job[w]) <=> from = "done"
  BY <1>1, <1>2 DEF ToTell
<1>7. ASSUME NEW c \in {job[w]} PROVE Over(c)' /\ ~ ToTell(c)'
  BY <1>1, <1>2, <1>3, <1>7, OverIsNext, BuildAssumption DEF ToTell
<1> QED BY <1>1, <1>2, <1>4, <1>5, <1>6, <1>7 DEF Known

\* A handler that leaves the queue alone changes no place.
LEMMA PlaceLife ==
  ASSUME UNCHANGED <<queue, job, at, doneSent>>, NEW c \in Build,
         request'[c] = "answered" <=> request[c] = "answered"
  PROVE  /\ Over(c)' <=> Over(c)
         /\ ToTell(c)' <=> ToTell(c)
         /\ c \in doneSent' <=> c \in doneSent
<1>1. InQueue(c)' <=> InQueue(c)
  BY DEF InQueue
<1> QED BY <1>1, OverIs, OverIsNext DEF ToTell

LifeStep == Life!Next \/ UNCHANGED Life!vars

LEMMA CreateLife ==
  ASSUME EndInv, IInv', FreshInv, NEW b \in Build, CreateBuild(b)
  PROVE  Life!Create(b)
<1>1. /\ request[b] = "found" /\ request' = [request EXCEPT ![b] = "created"]
      /\ UNCHANGED <<state, queue, job, at, doneSent>>
  BY DEF CreateBuild, workerVars
<1>2. request'[b] = "created" /\ \A c \in Build \ {b} : request'[c] = request[c]
  BY <1>1 DEF EndInv, IInv, TypeOK
<1>3. \A c \in Build : /\ Over(c)' <=> Over(c)
                       /\ ToTell(c)' <=> ToTell(c)
                       /\ c \in doneSent' <=> c \in doneSent
  BY <1>1, <1>2, PlaceLife
<1>4. \A c \in Build \ {b} : SameLife(c)
  BY <1>1, <1>2, <1>3 DEF SameLife, Known
<1>5. ~ Known(b) /\ Known(b)' /\ state'[b] = "pending" /\ ~ Over(b)
  BY <1>1, <1>2, OverIs DEF Known, FreshInv
<1>6. Shown' = [Shown EXCEPT ![b] = "pending"] /\ Shown[b] = "none"
  BY <1>4, <1>5, LifeChanged DEF EndInv, Shown
<1>7. OverSet' = OverSet /\ EndingSet' = EndingSet /\ doneSent' = doneSent /\ b \notin OverSet
  BY <1>1, <1>3, <1>5, EndingIs DEF OverSet
<1> QED BY <1>6, <1>7 DEF Life!Create, Life!Become, Shown, OverSet, EndingSet

LEMMA SubmitLife ==
  ASSUME EndInv, IInv', NEW b \in Build, Submit(b)
  PROVE  LifeStep
<1>1. /\ request[b] = "created" /\ request' = [request EXCEPT ![b] = "answered"]
      /\ UNCHANGED <<job, at, doneSent>>
  BY DEF Submit, workerVars
<1>2. request'[b] = "answered" /\ \A c \in Build \ {b} : request'[c] = request[c]
  BY <1>1 DEF EndInv, IInv, TypeOK
<1>3. /\ state[b] \in {"pending", "canceled"} /\ ~ InQueue(b) /\ ~ Held(b)
      /\ Known(b) /\ Known(b)' /\ ~ Over(b)
  BY <1>1, <1>2, OverIs DEF EndInv, IInv, StateInv, PlaceInv, Known
<1>4. ~ ToTell(b) /\ \A c \in Build : ToTell(c)' <=> ToTell(c)
  BY <1>1, <1>3 DEF ToTell, Held
<1>5. CASE Enqueued(b)
  <2>1. \A c \in Build : InQueue(c)' <=> InQueue(c) \/ c = b
    BY <1>5, EnqueuePlaces DEF EndInv, IInv
  <2>2. \A c \in Build : Over(c)' <=> Over(c)
    BY <1>1, <1>2, <1>3, <2>1, OverIs, OverIsNext
  <2>3. \A c \in Build : SameLife(c)
    BY <1>1, <1>2, <1>3, <1>4, <1>5, <2>2 DEF SameLife, Enqueued, Known
  <2> QED BY <2>3, LifeKept DEF EndInv, LifeStep
<1>6. CASE Rejected(b)
  <2>1. state' = [state EXCEPT ![b] = "failed"] /\ UNCHANGED queue
    BY <1>6 DEF Rejected
  <2>2. state'[b] = "failed" /\ \A c \in Build \ {b} : state'[c] = state[c]
    BY <2>1 DEF EndInv, IInv, TypeOK
  <2>3. \A c \in Build \ {b} : SameLife(c)
    BY <1>1, <1>2, <2>1, <2>2, PlaceLife DEF SameLife, Known
  <2>4. Over(b)'
    BY <1>1, <1>2, <1>3, <2>1, OverIsNext DEF InQueue, Held
  <2>5. /\ Shown' = [Shown EXCEPT ![b] = "failed"] /\ Shown[b] \in {"pending", "canceled"}
        /\ OverSet' = OverSet \cup {b} /\ b \notin OverSet
    BY <1>3, <2>2, <2>3, <2>4, LifeChanged DEF EndInv, Shown, OverSet
  <2>6. EndingSet' = EndingSet /\ doneSent' = doneSent
    BY <1>1, <1>4, EndingIs
  <2>7. Life!Refuse(b)
    BY <2>5, <2>6 DEF Life!Refuse, Life!Become, Shown, OverSet, EndingSet
  <2> QED BY <2>7 DEF Life!Next, LifeStep
<1> QED BY <1>5, <1>6 DEF Submit

LEMMA CancelLife ==
  ASSUME EndInv, IInv', NEW b \in Build, Cancel(b)
  PROVE  LifeStep
<1>1. Known(b) /\ UNCHANGED <<request, queue, job, at, doneSent>>
  BY DEF Cancel, storeVars, workerVars
<1>2. \A c \in Build : /\ Over(c)' <=> Over(c)
                       /\ ToTell(c)' <=> ToTell(c)
                       /\ c \in doneSent' <=> c \in doneSent
                       /\ Known(c)' <=> Known(c)
  BY <1>1, PlaceLife DEF Known
<1>3. CASE UNCHANGED state
  <2>1. \A c \in Build : SameLife(c)
    BY <1>2, <1>3 DEF SameLife
  <2> QED BY <2>1, LifeKept DEF EndInv, LifeStep
<1>4. CASE state[b] = "pending" /\ state' = [state EXCEPT ![b] = "canceled"]
  <2>1. state'[b] = "canceled" /\ \A c \in Build \ {b} : state'[c] = state[c]
    BY <1>4 DEF EndInv, IInv, TypeOK
  <2>2. ~ Over(b)
    BY <1>4, OverEnded DEF EndInv, Outcome
  <2>3. \A c \in Build \ {b} : SameLife(c)
    BY <1>2, <2>1 DEF SameLife
  <2>4. /\ Shown' = [Shown EXCEPT ![b] = "canceled"] /\ Shown[b] = "pending"
        /\ b \notin OverSet
    BY <1>1, <1>2, <1>4, <2>1, <2>2, <2>3, LifeChanged DEF EndInv, Shown, OverSet
  <2>5. OverSet' = OverSet /\ EndingSet' = EndingSet /\ doneSent' = doneSent
    BY <1>1, <1>2, EndingIs DEF OverSet
  <2>6. Life!Cancel(b)
    BY <2>4, <2>5 DEF Life!Cancel, Life!Become, Shown, OverSet, EndingSet
  <2> QED BY <2>6 DEF Life!Next, LifeStep
<1> QED BY <1>3, <1>4 DEF Cancel

\* Inside runBuild most steps show nothing.
LEMMA QuietLife ==
  ASSUME EndInv, IInv', NEW w \in Worker,
         NEW from \in At \ {"idle", "gone"}, NEW to \in At \ {"idle", "gone"}, Goto(w, from, to),
         UNCHANGED <<queue, job, request, state, doneSent>>,
         from \in Late <=> to \in Late, from # "done", to # "done"
  PROVE  LifeStep
<1>1. \A c \in Build : SameLife(c)
  BY MoveLife DEF EndInv, SameLife
<1> QED BY <1>1, LifeKept DEF EndInv, LifeStep

LEMMA TakeLife ==
  ASSUME EndInv, IInv', NEW w \in Worker, Take(w) \/ Exit(w)
  PROVE  LifeStep
<1>1. /\ at[w] = "idle" /\ job[w] = NoBuild /\ at'[w] \in {"check", "gone"}
      /\ \A v \in Worker \ {w} : at'[v] = at[v] /\ job'[v] = job[v]
      /\ UNCHANGED <<request, state, doneSent>>
  BY DEF Take, Exit, Goto, EndInv, IInv, TypeOK, storeVars
<1>2. \A c \in Build : (Over(c)' <=> Over(c)) /\ (ToTell(c)' <=> ToTell(c))
  <2>1. CASE Take(w)
    <3>1. /\ \A c \in Build : InQueue(c)' <=> InQueue(c) /\ c # job'[w]
          /\ \A c \in Build : Held(c)' <=> Held(c) \/ c = job'[w]
          /\ job'[w] \in Build /\ InQueue(job'[w])
      BY <2>1, TakePlaces DEF EndInv, IInv
    <3>2. at'[w] \notin Late
      BY <1>1 DEF Late
    <3> QED BY <1>1, <3>1, <3>2, OverIs, OverIsNext, BuildAssumption DEF ToTell, Late
  <2>2. CASE Exit(w)
    <3>1. UNCHANGED <<queue, job>>
      BY <2>2 DEF Exit
    <3> QED BY <1>1, <3>1, OverIs, OverIsNext, BuildAssumption DEF ToTell, InQueue
  <2> QED BY <2>1, <2>2
<1>3. \A c \in Build : SameLife(c)
  BY <1>1, <1>2 DEF SameLife, Known
<1> QED BY <1>3, LifeKept DEF EndInv, LifeStep

\* A worker finds its build canceled, or its pipeline gone.
LEMMA GiveUpLife ==
  ASSUME EndInv, IInv', NEW w \in Worker, SkipCanceled(w) \/ FailMissing(w)
  PROVE  LifeStep
<1>1. PICK from \in {"check", "missing"} : Return(w, from)
  BY DEF SkipCanceled, FailMissing
<1>2. UNCHANGED <<queue, request, doneSent>> /\ from \in At \ {"idle", "gone"} /\ from \notin Late
  BY DEF SkipCanceled, FailMissing, storeVars, At, Late
<1> DEFINE b == job[w]
<1>3. /\ b \in Build /\ Known(b)
      /\ \A c \in Build : Known(c)' <=> Known(c)
      /\ \A c \in Build \ {b} : (Over(c)' <=> Over(c)) /\ (ToTell(c)' <=> ToTell(c))
      /\ ~ Over(b) /\ ~ ToTell(b)
      /\ \A c \in {b} : Over(c)' /\ ~ ToTell(c)'
  BY <1>1, <1>2, ReturnLife DEF EndInv, Late
<1>4. PICK c \in Build : c = b
  BY <1>3
<1>5. /\ ~ Over(c) /\ Over(c)' /\ ~ ToTell(c) /\ ~ ToTell(c)' /\ Known(c) /\ Known(c)'
      /\ \A d \in Build \ {c} : (Over(d)' <=> Over(d)) /\ (ToTell(d)' <=> ToTell(d))
  BY <1>3, <1>4
<1>6. EndingSet' = EndingSet /\ doneSent' = doneSent
  BY <1>2, <1>5, EndingIs
<1>7. CASE SkipCanceled(w)
  <2>1. UNCHANGED state /\ state[c] = "canceled"
    BY <1>4, <1>7 DEF SkipCanceled
  <2>2. Shown' = Shown /\ Shown[c] = "canceled"
    BY <1>2, <1>5, <2>1 DEF Shown, Known
  <2>3. OverSet' = OverSet \cup {c} /\ c \notin OverSet
    BY <1>5 DEF OverSet
  <2>4. Life!Drop(c)
    BY <1>6, <2>2, <2>3 DEF Life!Drop, Shown, OverSet, EndingSet
  <2> QED BY <2>4 DEF Life!Next, LifeStep
<1>8. CASE FailMissing(w)
  <2>1. state' = [state EXCEPT ![c] = "failed"] /\ at[w] = "missing"
    BY <1>4, <1>8 DEF FailMissing, Return, Goto
  <2>2. state'[c] = "failed" /\ \A d \in Build \ {c} : state'[d] = state[d]
    BY <2>1 DEF EndInv, IInv, TypeOK
  <2>3. state[c] \in {"pending", "canceled"}
    BY <1>4, <2>1 DEF EndInv, IInv, StateInv
  <2>4. \A d \in Build \ {c} : SameLife(d)
    BY <1>2, <1>5, <2>2 DEF SameLife, Known
  <2>5. /\ Shown' = [Shown EXCEPT ![c] = "failed"] /\ Shown[c] \in {"pending", "canceled"}
        /\ OverSet' = OverSet \cup {c} /\ c \notin OverSet
    BY <1>5, <2>2, <2>3, <2>4, LifeChanged DEF EndInv, Shown, OverSet
  <2>6. Life!Refuse(c)
    BY <1>6, <2>5 DEF Life!Refuse, Life!Become, Shown, OverSet, EndingSet
  <2> QED BY <2>6 DEF Life!Next, LifeStep
<1> QED BY <1>7, <1>8

LEMMA AdmitLife ==
  ASSUME EndInv, IInv', NEW w \in Worker, Admit(w)
  PROVE  LifeStep
<1>1. /\ Goto(w, "admit", "start") /\ at[w] = "admit"
      /\ UNCHANGED <<queue, job, request, doneSent>>
      /\ state' = [state EXCEPT ![job[w]] = "running"]
  BY DEF Admit, Goto, storeVars
<1>2. /\ job[w] \in Build /\ Known(job[w])
      /\ \A c \in Build : Known(c)' <=> Known(c)
      /\ \A c \in Build \ {job[w]} : (Over(c)' <=> Over(c)) /\ (ToTell(c)' <=> ToTell(c))
      /\ ~ Over(job[w]) /\ ~ ToTell(job[w]) /\ ~ Over(job[w])' /\ ~ ToTell(job[w])'
  BY <1>1, MoveLife DEF EndInv, At, Late
<1>3. PICK c \in Build : c = job[w] /\ c = job'[w]
  BY <1>1, <1>2
<1>4. \A d \in Build : (Over(d)' <=> Over(d)) /\ (ToTell(d)' <=> ToTell(d))
  BY <1>2, <1>3
<1>5. /\ state'[c] = "running" /\ \A d \in Build \ {c} : state'[d] = state[d]
      /\ state[c] \in {"pending", "canceled"}
  BY <1>1, <1>3 DEF EndInv, IInv, TypeOK, StateInv
<1>6. \A d \in Build \ {c} : SameLife(d)
  BY <1>1, <1>2, <1>4, <1>5 DEF SameLife
<1>7. ~ Over(c) /\ Known(c) /\ Known(c)'
  BY <1>2, <1>3
<1>8. /\ Shown' = [Shown EXCEPT ![c] = "running"] /\ Shown[c] \in {"pending", "canceled"}
      /\ OverSet' = OverSet /\ EndingSet' = EndingSet /\ doneSent' = doneSent /\ c \notin OverSet
  BY <1>1, <1>4, <1>5, <1>6, <1>7, LifeChanged, EndingIs DEF EndInv, Shown, OverSet
<1>9. Life!Run(c)
  BY <1>8 DEF Life!Run, Life!Become, Shown, OverSet, EndingSet
<1> QED BY <1>9 DEF Life!Next, LifeStep

LEMMA FinishLife ==
  ASSUME EndInv, IInv', NEW w \in Worker, FinishBuild(w)
  PROVE  LifeStep
<1>1. /\ Goto(w, "finish", "done") /\ at[w] = "finish"
      /\ UNCHANGED <<queue, job, request, doneSent>>
      /\ state' = [state EXCEPT ![job[w]] = final[w]]
  BY DEF FinishBuild, Goto, storeVars
<1>2. /\ job[w] \in Build /\ Known(job[w])
      /\ \A c \in Build : Known(c)' <=> Known(c)
      /\ \A c \in Build \ {job[w]} : (Over(c)' <=> Over(c)) /\ (ToTell(c)' <=> ToTell(c))
      /\ ~ Over(job[w]) /\ Over(job[w])' /\ ToTell(job[w])'
  BY <1>1, MoveLife DEF EndInv, At, Late
<1>3. PICK c \in Build : c = job[w] /\ c = job'[w]
  BY <1>1, <1>2
<1>4. /\ \A d \in Build \ {c} : (Over(d)' <=> Over(d)) /\ (ToTell(d)' <=> ToTell(d))
      /\ ~ Over(c) /\ Over(c)' /\ ToTell(c)' /\ Known(c) /\ Known(c)'
  BY <1>2, <1>3
<1>5. /\ state'[c] = final[w] /\ \A d \in Build \ {c} : state'[d] = state[d]
      /\ state[c] = "running" /\ final[w] \in Outcome
  BY <1>1, <1>3 DEF EndInv, IInv, TypeOK, StateInv, InRun
<1>6. \A d \in Build \ {c} : SameLife(d)
  BY <1>1, <1>2, <1>4, <1>5 DEF SameLife
<1>7. PICK outcome \in Outcome : outcome = final[w]
  BY <1>5
<1>8. /\ Shown' = [Shown EXCEPT ![c] = outcome] /\ Shown[c] = "running"
      /\ OverSet' = OverSet \cup {c} /\ EndingSet' = EndingSet \cup {c}
      /\ doneSent' = doneSent /\ c \notin OverSet
  BY <1>1, <1>4, <1>5, <1>6, <1>7, LifeChanged DEF EndInv, Shown, OverSet
<1>9. Life!Become(c, {"running"}, outcome)
  BY <1>8 DEF Life!Become, Shown, OverSet
<1>10. Life!End(c)
  BY <1>8, <1>9 DEF Life!End, Outcome, OverSet, EndingSet
<1> QED BY <1>10 DEF Life!Next, LifeStep

LEMMA PublishLife ==
  ASSUME EndInv, IInv', NEW w \in Worker, PublishDone(w)
  PROVE  LifeStep
<1>1. /\ Goto(w, "done", "metrics") /\ at[w] = "done"
      /\ UNCHANGED <<queue, job, request, state>>
      /\ doneSent' = doneSent \cup {job[w]}
  BY DEF PublishDone, Goto, storeVars
<1>2. /\ job[w] \in Build
      /\ \A c \in Build : Known(c)' <=> Known(c)
      /\ \A c \in Build \ {job[w]} : (Over(c)' <=> Over(c)) /\ (ToTell(c)' <=> ToTell(c))
      /\ Over(job[w]) /\ Over(job[w])' /\ ToTell(job[w]) /\ ~ ToTell(job[w])'
  BY <1>1, MoveLife DEF EndInv, At, Late
<1>3. PICK c \in Build : c = job[w] /\ c = job'[w]
  BY <1>1, <1>2
<1>4. /\ \A d \in Build : Over(d)' <=> Over(d)
      /\ \A d \in Build \ {c} : ToTell(d)' <=> ToTell(d)
      /\ ToTell(c) /\ ~ ToTell(c)'
  BY <1>2, <1>3
<1>5. c \notin doneSent
  BY <1>1, <1>3 DEF EndInv, DoneInv
<1>6. Shown' = Shown /\ OverSet' = OverSet
  BY <1>1, <1>4 DEF Shown, Known, OverSet
<1>7. c \in EndingSet /\ EndingSet' = EndingSet \ {c} /\ doneSent' = doneSent \cup {c}
  BY <1>1, <1>3, <1>4, EndingIs
<1>8. Life!Tell(c)
  BY <1>5, <1>6, <1>7 DEF Life!Tell, Shown, OverSet, EndingSet
<1> QED BY <1>8 DEF Life!Next, LifeStep

LEMMA CleanupLife ==
  ASSUME EndInv, IInv', NEW w \in Worker, Cleanup(w)
  PROVE  LifeStep
<1>1. Return(w, "cleanup") /\ UNCHANGED <<queue, request, state, doneSent>>
  BY DEF Cleanup, storeVars
<1>2. /\ \A c \in Build : Known(c)' <=> Known(c)
      /\ \A c \in Build \ {job[w]} : (Over(c)' <=> Over(c)) /\ (ToTell(c)' <=> ToTell(c))
      /\ Over(job[w]) /\ ~ ToTell(job[w])
      /\ \A c \in {job[w]} : Over(c)' /\ ~ ToTell(c)'
  BY <1>1, ReturnLife DEF EndInv, At, Late
<1>3. \A c \in Build : SameLife(c)
  BY <1>1, <1>2 DEF SameLife
<1> QED BY <1>3, LifeKept DEF EndInv, LifeStep

LEMMA WorkersLife ==
  ASSUME EndInv, IInv', NEW w \in Worker, Advance(w) \/ Exit(w) \/ RunStages(w)
  PROVE  LifeStep
<1>1. CASE Take(w) \/ Exit(w)
  BY <1>1, TakeLife
<1>2. CASE SkipCanceled(w) \/ FailMissing(w)
  BY <1>2, GiveUpLife
<1>3. CASE NotCanceled(w) \/ LookupPipeline(w)
  <2>1. /\ \/ Goto(w, "check", "lookup") \/ Goto(w, "lookup", "admit")
           \/ Goto(w, "lookup", "missing")
        /\ UNCHANGED <<queue, job, request, state, doneSent>>
    BY <1>3 DEF NotCanceled, LookupPipeline, storeVars
  <2> QED BY <2>1, QuietLife DEF At, Late
<1>4. CASE OnStart(w) \/ CreateVolume(w) \/ CreateVolumeFails(w) \/ RunStages(w) \/ Aggregate(w)
  <2>1. /\ \/ Goto(w, "start", "volume") \/ Goto(w, "volume", "stages")
           \/ Goto(w, "volume", "finish") \/ Goto(w, "stages", "aggregate")
           \/ Goto(w, "aggregate", "finish")
        /\ UNCHANGED <<queue, job, request, state, doneSent>>
    BY <1>4 DEF OnStart, CreateVolume, CreateVolumeFails, RunStages, Aggregate, storeVars
  <2> QED BY <2>1, QuietLife DEF At, Late
<1>5. CASE OnFinish(w)
  <2>1. Goto(w, "metrics", "cleanup") /\ UNCHANGED <<queue, job, request, state, doneSent>>
    BY <1>5 DEF OnFinish, storeVars
  <2> QED BY <2>1, QuietLife DEF At, Late
<1> QED
  BY <1>1, <1>2, <1>3, <1>4, <1>5, AdmitLife, FinishLife, PublishLife, CleanupLife DEF Advance

LEMMA LifeNext == EndInv /\ FreshInv /\ [Next]_vars => [Life!Next]_(Life!vars)
<1> SUFFICES ASSUME EndInv, FreshInv, [Next]_vars PROVE LifeStep
  BY DEF LifeStep
<1>1. IInv'
  BY IInvNext DEF EndInv
<1>2. ASSUME NEW b \in Build, CreateBuild(b) PROVE LifeStep
  BY <1>1, <1>2, CreateLife DEF Life!Next, LifeStep
<1>3. ASSUME NEW b \in Build, Submit(b) \/ Cancel(b) PROVE LifeStep
  BY <1>1, <1>3, SubmitLife, CancelLife
<1>4. ASSUME NEW w \in Worker, Advance(w) \/ Exit(w) \/ RunStages(w) PROVE LifeStep
  BY <1>1, <1>4, WorkersLife
<1>5. ASSUME NEW b \in Build, FindPipeline(b) PROVE LifeStep
  <2>1. /\ UNCHANGED <<queue, job, at, state, doneSent>>
        /\ request[b] = "none" /\ request' = [request EXCEPT ![b] = "found"]
    BY <1>5 DEF FindPipeline, workerVars
  <2>2. \A c \in Build : /\ Known(c)' <=> Known(c)
                         /\ request'[c] = "answered" <=> request[c] = "answered"
    BY <2>1 DEF EndInv, IInv, TypeOK, Known
  <2>3. \A c \in Build : SameLife(c)
    BY <2>1, <2>2, PlaceLife DEF SameLife
  <2> QED BY <1>1, <2>3, LifeKept DEF EndInv, LifeStep
<1>6. ASSUME UNCHANGED <<queue, job, at, request, state, doneSent>> PROVE LifeStep
  <2>1. \A c \in Build : SameLife(c)
    BY <1>6, PlaceLife DEF SameLife, Known
  <2> QED BY <1>1, <2>1, LifeKept DEF EndInv, LifeStep
<1>7. ASSUME NEW p \in Pipeline, PutPipeline(p) \/ DeletePipeline(p) PROVE LifeStep
  BY <1>6, <1>7 DEF PutPipeline, DeletePipeline, workerVars
<1>8. CASE Process \/ UNCHANGED vars
  BY <1>6, <1>8 DEF Process, Shutdown, ServeReturns, ExitProcess, vars, storeVars, workerVars
<1> QED BY <1>2, <1>3, <1>4, <1>5, <1>7, <1>8 DEF Next, Handlers

LEMMA FreshNext == EndInv /\ FreshInv /\ [Next]_vars => FreshInv'
<1> SUFFICES ASSUME EndInv, FreshInv, [Next]_vars, NEW b \in Build, ~ Known(b)'
             PROVE  state'[b] = "pending"
  BY DEF FreshInv
<1>1. request[b] \notin {"created", "answered"} /\ state[b] = "pending"
  <2>1. request[b] \in {"none", "found"} \/ request'[b] = request[b] \/ request'[b] = "answered"
    BY DEF EndInv, IInv, TypeOK, Next, Handlers, PutPipeline, DeletePipeline, FindPipeline,
           CreateBuild, Submit, Cancel, Process, Shutdown, ServeReturns, ExitProcess, vars,
           Advance, Take, SkipCanceled, NotCanceled, LookupPipeline, FailMissing, Admit,
           OnStart, CreateVolume, CreateVolumeFails, Aggregate, FinishBuild, PublishDone,
           OnFinish, Cleanup, Exit, RunStages, storeVars
  <2> QED BY <2>1 DEF FreshInv, Known
<1>2. ASSUME NEW w \in Worker, FailMissing(w) \/ Admit(w) \/ FinishBuild(w)
      PROVE  state'[b] = state[b]
  <2>1. /\ at[w] \in {"missing", "admit", "finish"}
        /\ \A c \in Build \ {job[w]} : state'[c] = state[c]
    BY <1>2 DEF FailMissing, Admit, FinishBuild, Return, Goto, EndInv, IInv, TypeOK
  <2>2. job[w] # b
    BY <1>1, <2>1 DEF EndInv, IInv, PlaceInv, Held
  <2> QED BY <2>1, <2>2
<1>3. ASSUME NEW c \in Build, Submit(c) \/ Cancel(c) PROVE state'[b] = state[b]
  <2>1. c # b
    BY <1>1, <1>3 DEF Submit, Cancel, Known
  <2> QED BY <1>3, <2>1 DEF Submit, Cancel, Enqueued, Rejected, EndInv, IInv, TypeOK
<1>4. \/ UNCHANGED state
      \/ \E w \in Worker : FailMissing(w) \/ Admit(w) \/ FinishBuild(w)
      \/ \E c \in Build : Submit(c) \/ Cancel(c)
  BY DEF Next, Handlers, PutPipeline, DeletePipeline, FindPipeline, CreateBuild,
         Process, Shutdown, ServeReturns, ExitProcess, vars, Advance, Take, SkipCanceled,
         NotCanceled, LookupPipeline, OnStart, CreateVolume, CreateVolumeFails, Aggregate,
         PublishDone, OnFinish, Cleanup, Exit, RunStages
<1> QED BY <1>1, <1>2, <1>3, <1>4

\* Handlers, queue and workers implement the promise of BuildLife, with Shown, Over,
\* EndingSet and doneSent as its variables: what Store and the event done show of a build
\* begins as pending, runs once at most, and is final after its end, told once at most.
THEOREM ImplementsLife == Spec => LifeSpec
<1>1. Init => Life!Init /\ FreshInv
  <2> SUFFICES ASSUME Init PROVE Life!Init /\ FreshInv
    OBVIOUS
  <2>1. \A b \in Build : ~ Known(b) /\ ~ Over(b)
    BY OverIs DEF Init, Known
  <2>2. Shown = [b \in Build |-> "none"] /\ OverSet = {}
    BY <2>1 DEF Shown, OverSet
  <2>3. EndingSet = {}
    <3>1. \A b \in Build : ~ ToTell(b)
      BY DEF Init, ToTell
    <3> QED BY <3>1, EndingIs
  <2>4. Life!Init
    BY <2>2, <2>3 DEF Init, Life!Init, Shown, OverSet, EndingSet
  <2> QED BY <2>4 DEF Init, FreshInv
<1>2. EndInv /\ FreshInv /\ [Next]_vars => FreshInv' /\ [Life!Next]_(Life!vars)
  BY LifeNext, FreshNext
<1> QED BY <1>1, <1>2, EndInvHolds, PTL DEF Spec, LifeSpec, Life!Spec
=============================================================================
