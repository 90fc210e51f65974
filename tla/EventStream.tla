---------------------------- MODULE EventStream -----------------------------
(***************************************************************************)
(* How browsers follow one build: Broker.Subscribe, Unsubscribe and        *)
(* Publish (internal/store/events.go), the handler of                      *)
(* /api/builds/{id}/events (internal/server/handlers.go), and the          *)
(* goroutines that change the build and announce it                        *)
(* (internal/scheduler/scheduler.go).                                      *)
(*                                                                         *)
(* An action is one critical section of Build.mu or Broker.mu, or one turn *)
(* of the handler's loop.  What a change changes does not matter here: rev *)
(* counts the changes, and a client that knows rev knows them all.  Some   *)
(* changes are made without an event: due is the last one that has one.    *)
(***************************************************************************)
EXTENDS Naturals, Sequences, FiniteSets, BuildStates

CONSTANTS
  Client,     \* the connections to /api/builds/{id}/events
  Stager,     \* the goroutines of runStages
  BufferCap,  \* capacity of a subscriber's channel (256 in Subscribe)
  MaxExtra    \* bounds the changes of the stages after their first, and the
              \* lines of log, together

ASSUME StreamAssumption ==
  /\ IsFiniteSet(Client) /\ IsFiniteSet(Stager)
  /\ BufferCap \in Nat \ {0}
  /\ MaxExtra \in Nat

VARIABLES
  state,   \* Build.State
  rev,     \* how many changes were made to the build
  due,     \* history: the last change that was or will be announced
  main,    \* where Submit and then runBuild are
  stage,   \* stage[g]: where a goroutine of runStages is
  extra,   \* how many such changes and lines there were
  subs,    \* the keys of Broker.subs[build]
  chan,    \* chan[c]: the events in the channel of c
  conn,    \* conn[c]: where the handler of c is
  told,    \* told[c]: the changes that c knows of
  lost     \* the clients whose channel was full when an event came

buildVars  == <<state, rev, due, main, stage, extra>>
streamVars == <<subs, chan, conn, told, lost>>
vars == <<buildVars, streamVars>>

\* The events build, stage and step make a page fetch the build again: they are
\* one type here.  As an event is sent after the change, fetching shows
\* all that had changed when it was sent: its rev.  So does done; log does not.
EventType == {"change", "log", "done"}
Event == [type : EventType, rev : Nat]

MainAt ==
  {"queued",   \* Submit has not run or the build waits in the queue
   "checked",  \* runBuild found it not canceled
   "started",  \* State is running, and that is not yet announced
   "stages",   \* in CreateVolume, then in runStages
   "ended",    \* finishBuild has set the final state
   "told",     \* and published the event build
   "over",     \* and published the event done
   "dropped"}  \* Submit or runBuild returned without finishBuild

StageAt ==
  {"waiting",   \* for its dependencies, or in the select for a token
   "behind",    \* it changed the build and has not yet announced it
   "acting",    \* in a step, or between two
   "returned"}

ConnAt == {"closed", "subscribed", "streaming"}

Init ==
  /\ state = "pending" /\ rev = 0 /\ due = 0 /\ main = "queued"
  /\ stage = [g \in Stager |-> "waiting"] /\ extra = 0
  /\ subs = {} /\ chan = [c \in Client |-> <<>>]
  /\ conn = [c \in Client |-> "closed"]
  /\ told = [c \in Client |-> 0] /\ lost = {}

-----------------------------------------------------------------------------
(***************************************************************************)
(* The broker.                                                             *)
(***************************************************************************)

\* mutant: waits for room instead of dropping the event
PublishBlocking(type) ==
  /\ \A c \in subs : Len(chan[c]) < BufferCap
  /\ chan' = [c \in Client |->
                IF c \in subs THEN Append(chan[c], [type |-> type, rev |-> rev])
                              ELSE chan[c]]
  /\ UNCHANGED <<subs, conn, told, lost>>

\* mutant: gives up at the first full channel
PublishUnlessFull(type) ==
  LET full == {c \in subs : Len(chan[c]) >= BufferCap} IN
  /\ chan' = [c \in Client |->
                IF c \in subs /\ full = {}
                  THEN Append(chan[c], [type |-> type, rev |-> rev])
                  ELSE chan[c]]
  /\ lost' = lost \cup full
  /\ UNCHANGED <<subs, conn, told>>

\* Publish: a channel that is full loses the event.
Publish(type) ==
  LET full == {c \in subs : Len(chan[c]) >= BufferCap} IN
  /\ chan' = [c \in Client |->
                IF c \in subs \ full
                  THEN Append(chan[c], [type |-> type, rev |-> rev])
                  ELSE chan[c]]
  /\ lost' = lost \cup full
  /\ UNCHANGED <<subs, conn, told>>

-----------------------------------------------------------------------------
(***************************************************************************)
(* The build.                                                              *)
(***************************************************************************)

Change(st) == state' = st /\ rev' = rev + 1

\* whether an event follows the change that a step makes
Announced   == due' = rev'
Unannounced == due' = due

Goto(place) == main' = place /\ UNCHANGED <<stage, extra>>

\* Cancel of a build that waits: no event.  Cancel of one that runs, like a signal,
\* only makes its context done, which just CancelStage looks at.
CancelWaiting ==
  /\ state = "pending"
  /\ Change("canceled") /\ Unannounced
  /\ UNCHANGED <<main, stage, extra, streamVars>>

\* Submit with the queue full: no event.
Reject ==
  /\ main = "queued"
  /\ Change("failed") /\ Unannounced
  /\ Goto("dropped")
  /\ UNCHANGED streamVars

\* runBuild finds the build canceled.
SkipCanceled ==
  /\ main = "queued" /\ state = "canceled"
  /\ Goto("dropped")
  /\ UNCHANGED <<state, rev, due, streamVars>>

NotCanceled ==
  /\ main = "queued" /\ state # "canceled"
  /\ Goto("checked")
  /\ UNCHANGED <<state, rev, due, streamVars>>

\* The pipeline was deleted: no event.
FailMissing ==
  /\ main = "checked"
  /\ Change("failed") /\ Unannounced
  /\ Goto("dropped")
  /\ UNCHANGED streamVars

Admit ==
  /\ main = "checked"
  /\ Change("running") /\ Announced
  /\ Goto("started")
  /\ UNCHANGED streamVars

AnnounceStart ==
  /\ main = "started"
  /\ Goto("stages")
  /\ Publish("change")
  /\ UNCHANGED <<state, rev, due>>

\* What a goroutine g of runStages does to the build.
StageChange(g, place) ==
  /\ main = "stages"
  /\ rev' = rev + 1
  /\ stage' = [stage EXCEPT ![g] = place]
  /\ UNCHANGED <<state, main, streamVars>>

\* The wait of g is over: the stage is skipped, or has a token and runs.
StartStage(g) ==
  /\ stage[g] = "waiting"
  /\ StageChange(g, "behind") /\ Announced
  /\ UNCHANGED extra

\* The context is done before there is a token: canceled, and no event.  That can
\* be so at any moment of a build that runs.
CancelStage(g) ==
  /\ stage[g] = "waiting"
  /\ StageChange(g, "returned") /\ Unannounced
  /\ UNCHANGED extra

\* Any other Update of runStage, runStep and runStepOnce, or AddArtifacts.  An
\* event follows each, sometimes only that of a later change of the stage.
Update(g) ==
  /\ stage[g] \in {"behind", "acting"}
  /\ StageChange(g, "behind") /\ Announced
  /\ extra < MaxExtra /\ extra' = extra + 1

Announce(g) ==
  /\ stage[g] = "behind"
  /\ stage' = [stage EXCEPT ![g] = "acting"]
  /\ Publish("change")
  /\ UNCHANGED <<state, rev, due, main, extra>>

\* The last thing that a goroutine does to its stage is an event.
Return(g) ==
  /\ stage[g] = "acting"
  /\ stage' = [stage EXCEPT ![g] = "returned"]
  /\ UNCHANGED <<state, rev, due, main, extra, streamVars>>

\* AppendLog publishes one event for each complete line.
AppendLog ==
  /\ \E g \in Stager : stage[g] \in {"behind", "acting"}
  /\ extra < MaxExtra /\ extra' = extra + 1
  /\ Publish("log")
  /\ UNCHANGED <<state, rev, due, main, stage>>

\* The first step of finishBuild.
SetFinal(st) ==
  /\ Change(st) /\ Announced
  /\ Goto("ended")
  /\ UNCHANGED streamVars

\* CreateVolume fails: no goroutine was started.
NoVolume ==
  /\ main = "stages" /\ \A g \in Stager : stage[g] = "waiting"
  /\ SetFinal("failed")

\* mutant: does not wait for the stages
FinishEarly ==
  /\ main = "stages"
  /\ \E st \in {"success", "failed", "canceled"} : SetFinal(st)

\* runStages has waited for its goroutines.
Finish ==
  /\ main = "stages" /\ \A g \in Stager : stage[g] = "returned"
  /\ \E st \in {"success", "failed", "canceled"} : SetFinal(st)

AnnounceEnd ==
  /\ main = "ended"
  /\ Goto("told")
  /\ Publish("change")
  /\ UNCHANGED <<state, rev, due>>

AnnounceDone ==
  /\ main = "told"
  /\ Goto("over")
  /\ Publish("done")
  /\ UNCHANGED <<state, rev, due>>

-----------------------------------------------------------------------------
(***************************************************************************)
(* The handler of one connection.                                          *)
(***************************************************************************)

\* A page is opened, opened again, or reconnects.
Subscribe(c) ==
  /\ conn[c] = "closed"
  /\ conn' = [conn EXCEPT ![c] = "subscribed"]
  /\ subs' = subs \cup {c}
  /\ UNCHANGED <<chan, told, lost, buildVars>>

\* A copy of the build, taken under its lock: all that has changed so far.
Snapshot == rev

SendSnapshot(c) ==
  /\ conn[c] = "subscribed"
  /\ conn' = [conn EXCEPT ![c] = "streaming"]
  /\ told' = [told EXCEPT ![c] = Snapshot]
  /\ UNCHANGED <<subs, chan, lost, buildVars>>

\* What a page knows once it has the event ev.
Learned(known, ev) == IF ev.type # "log" /\ known < ev.rev THEN ev.rev ELSE known

\* The deferred Unsubscribe, as soon as the handler's loop is left: in between the
\* channel may at most fill up unread.
Unsubscribe(c) ==
  /\ conn' = [conn EXCEPT ![c] = "closed"]
  /\ subs' = subs \ {c}
  /\ chan' = [chan EXCEPT ![c] = <<>>]
  /\ told' = [told EXCEPT ![c] = 0]
  /\ lost' = lost \ {c}

\* An event is sent on to the browser.
PassOn(c) ==
  /\ chan' = [chan EXCEPT ![c] = Tail(@)]
  /\ told' = [told EXCEPT ![c] = Learned(@, Head(chan[c]))]
  /\ UNCHANGED <<conn, subs, lost>>

\* mutant: goes on after done
ForwardAll(c) ==
  /\ conn[c] = "streaming" /\ chan[c] # <<>>
  /\ PassOn(c)
  /\ UNCHANGED buildVars

\* One turn of the loop with an event: after done the handler returns.
Forward(c) ==
  /\ conn[c] = "streaming" /\ chan[c] # <<>>
  /\ IF Head(chan[c]).type = "done" THEN Unsubscribe(c) ELSE PassOn(c)
  /\ UNCHANGED buildVars

\* The browser has gone: r.Context().Done().
Leave(c) ==
  /\ conn[c] = "streaming"
  /\ Unsubscribe(c)
  /\ UNCHANGED buildVars

-----------------------------------------------------------------------------
\* The steps of runBuild and finishBuild that wait for nothing but a lock.  To be
\* taken from the queue a build needs a free worker; CreateVolume needs the daemon.
RunBuild ==
  FailMissing \/ Admit \/ AnnounceStart \/ Finish \/ AnnounceEnd \/ AnnounceDone

StageStep(g) == StartStage(g) \/ CancelStage(g) \/ Announce(g) \/ Return(g)

Build ==
  \/ CancelWaiting \/ Reject \/ SkipCanceled \/ NotCanceled \/ NoVolume
  \/ RunBuild \/ AppendLog
  \/ \E g \in Stager : StageStep(g) \/ Update(g)

Handler(c) == SendSnapshot(c) \/ Forward(c)

Next ==
  \/ Build
  \/ \E c \in Client : Subscribe(c) \/ Handler(c) \/ Leave(c)

Spec == Init /\ [][Next]_vars

\* Nothing else is fair: a build may wait for a worker for ever, a container may
\* never end, a handler may hang in a write to the network.
BuildSpec == Spec /\ WF_vars(RunBuild)

-----------------------------------------------------------------------------
(***************************************************************************)
(* Type correctness; no channel holds more than its capacity (Publish).    *)
(***************************************************************************)
TypeOK ==
  /\ state \in State /\ rev \in Nat /\ due \in Nat /\ extra \in 0 .. MaxExtra
  /\ main \in MainAt /\ stage \in [Stager -> StageAt]
  /\ subs \subseteq Client
  /\ chan \in [Client -> Seq(Event)] /\ \A c \in Client : Len(chan[c]) <= BufferCap
  /\ conn \in [Client -> ConnAt] /\ told \in [Client -> Nat] /\ lost \subseteq Client

\* c knows of the first n changes, or will from what is in its channel.
Informed(c, n) ==
  \/ told[c] >= n
  \/ \E i \in 1 .. Len(chan[c]) : chan[c][i].type # "log" /\ chan[c][i].rev >= n

Behind == {g \in Stager : stage[g] = "behind"}

Announcing == Behind # {} \/ main \in {"started", "ended"}

(***************************************************************************)
(* The hand-over from the snapshot to the events has no gap: when a        *)
(* connection that lost nothing does not know of a change that is to be    *)
(* announced and has no event for it in its channel, an event is still to  *)
(* come from the goroutine that made a change.  It is why handleEvents     *)
(* subscribes before it takes the snapshot and why every Update comes      *)
(* before its publish.  And once finishBuild has announced the end, the    *)
(* connection knows, or will know, of every change, those of the stages    *)
(* canceled without an event (scheduler.go:247) included.                  *)
(*                                                                         *)
(* Not to be announced are the changes after which the code publishes      *)
(* nothing: those stages, until another event comes, and the ends of a     *)
(* build that do not go through finishBuild.                               *)
(***************************************************************************)
ChangesAnnounced ==
  \A c \in Client :
    conn[c] = "streaming" /\ c \notin lost =>
      /\ Informed(c, due) \/ Announcing
      /\ main \in {"told", "over"} => Informed(c, rev)

(***************************************************************************)
(* The event done is the last one: no change or line of log follows it in  *)
(* any channel (finishBuild runs after wg.Wait of runStages), so that the  *)
(* handler that returns on it cuts nothing off.                            *)
(***************************************************************************)
DoneIsLast ==
  \A c \in Client : \A i \in DOMAIN chan[c] :
    chan[c][i].type = "done" => i = Len(chan[c]) /\ Behind = {}

(***************************************************************************)
(* A build whose stages end comes to its own end even when no handler      *)
(* takes an event any more: Publish never blocks the scheduler             *)
(* (events.go:67).  That the stages end is a premise: every goroutine goes *)
(* on when it can, and no container that it waits for runs for ever.       *)
(***************************************************************************)
StagesEnd == \A g \in Stager : WF_vars(StageStep(g))
SlowClientsDoNotBlock == StagesEnd => (main = "stages" ~> main = "over")

(***************************************************************************)
(* A connection that is open after finishBuild has set the final state and *)
(* before it publishes done is closed, if no write to it hangs, and unless *)
(* its channel overflowed.                                                 *)
(***************************************************************************)
HandlerRuns(c) == WF_vars(Handler(c))
StreamCloses ==
  \A c \in Client : HandlerRuns(c) =>
    ((conn[c] # "closed" /\ main \in {"ended", "told"})
       ~> (conn[c] = "closed" \/ c \in lost))
=============================================================================
