----------------------------- MODULE DockerRun ------------------------------
(***************************************************************************)
(* One call of Docker.Run (internal/executor/docker.go): the goroutine of  *)
(* the step, the goroutine that copies the container's output to the log,  *)
(* the container itself, and a context that may be canceled at any moment  *)
(* (Cancel, shutdown or the step's timeout).  The Docker daemon is         *)
(* external: any call may fail, a call with a canceled context does, and a *)
(* call that fails has done nothing.                                       *)
(***************************************************************************)
EXTENDS Naturals

CONSTANT MaxOutput  \* bounds the output of the container

ASSUME OutputAssumption == MaxOutput \in Nat

VARIABLES
  at,         \* where Run is
  result,     \* what it will return: "ok", "exit" (not 0), "err"; "none" before
  ctx,        \* "live" or "canceled"
  container,  \* "none", "created", "running", "exited", "removed"
  exit,       \* how it exited: "ok", "exit", "killed"; "none" before
  produced,   \* how much it has written
  copied,     \* how much of that is in the step's log
  copier,     \* the log goroutine: "off", "copying", "done" (logsDone closed)
  cut,        \* the connection of the log stream failed
  kept        \* ContainerRemove failed

runVars    == <<at, result, kept>>
hostVars   == <<container, exit, produced>>
streamVars == <<copied, copier, cut>>
vars == <<runVars, ctx, hostVars, streamVars>>

Place == {"image", "create", "start", "logs", "wait", "kill", "drain", "remove", "returned"}

Init ==
  /\ at = "image" /\ result = "none" /\ kept = FALSE
  /\ ctx = "live"
  /\ container = "none" /\ exit = "none" /\ produced = 0
  /\ copied = 0 /\ copier = "off" /\ cut = FALSE

Live == ctx = "live"

-----------------------------------------------------------------------------
(***************************************************************************)
(* The goroutine of the step.                                              *)
(***************************************************************************)

Goto(place) == at' = place /\ UNCHANGED <<result, kept>>
Leave(place, res) == at' = place /\ result' = res /\ UNCHANGED kept

\* ensureImage: the image is there, or is pulled; or neither.
EnsureImage ==
  /\ at = "image"
  /\ \/ Live /\ Goto("create")
     \/ Leave("returned", "err")
  /\ UNCHANGED <<ctx, hostVars, streamVars>>

Create ==
  /\ at = "create"
  /\ \/ Live /\ Goto("start") /\ container' = "created"
     \/ Leave("returned", "err") /\ UNCHANGED container
  /\ UNCHANGED <<ctx, exit, produced, streamVars>>

\* mutant: the deferred removal comes after the start
StartNotRemoving ==
  /\ at = "start"
  /\ \/ Live /\ Goto("logs") /\ container' = "running"
     \/ Leave("returned", "err") /\ UNCHANGED container
  /\ UNCHANGED <<ctx, exit, produced, streamVars>>

\* From here on every return passes by the deferred ContainerRemove.
Start ==
  /\ at = "start"
  /\ \/ Live /\ Goto("logs") /\ container' = "running"
     \/ Leave("remove", "err") /\ UNCHANGED container
  /\ UNCHANGED <<ctx, exit, produced, streamVars>>

\* Without a stream logsDone is closed at once and the step goes on.
AttachLogs ==
  /\ at = "logs" /\ Goto("wait")
  /\ \/ Live /\ copier' = "copying" /\ UNCHANGED cut
     \/ copier' = "done" /\ cut' = TRUE
  /\ UNCHANGED <<ctx, hostVars, copied>>

\* The three branches of the select.
SeeCancel ==
  /\ at = "wait" /\ ~Live
  /\ Goto("kill")
  /\ UNCHANGED <<ctx, hostVars, streamVars>>

\* errCh, which also reports a canceled context; also the return of line 161.
WaitFails ==
  /\ at = "wait"
  /\ Leave("drain", "err")
  /\ UNCHANGED <<ctx, hostVars, streamVars>>

\* mutant: does not wait for the log
SeeExitAtOnce ==
  /\ at = "wait" /\ container = "exited"
  /\ \E res \in {exit, "err"} : Leave("remove", res)
  /\ UNCHANGED <<ctx, hostVars, streamVars>>

\* The daemon may report an error with the status.
SeeExit ==
  /\ at = "wait" /\ container = "exited"
  /\ \E res \in {exit, "err"} : Leave("drain", res)
  /\ UNCHANGED <<ctx, hostVars, streamVars>>

\* mutant: does not wait for the log
KillNotDraining ==
  /\ at = "kill"
  /\ Leave("remove", "err")
  /\ IF container = "running"
       THEN container' = "exited" /\ exit' = "killed"
       ELSE UNCHANGED <<container, exit>>
  /\ UNCHANGED <<ctx, produced, streamVars>>

\* It may have exited meanwhile, and it may survive a call that fails.
Kill ==
  /\ at = "kill"
  /\ Leave("drain", "err")
  /\ IF container = "running"
       THEN \/ container' = "exited" /\ exit' = "killed"
            \/ UNCHANGED <<container, exit>>
       ELSE UNCHANGED <<container, exit>>
  /\ UNCHANGED <<ctx, produced, streamVars>>

Drain ==
  /\ at = "drain" /\ copier = "done"
  /\ Goto("remove")
  /\ UNCHANGED <<ctx, hostVars, streamVars>>

\* With Force, running or not; a context of its own, of 15 s.
Remove ==
  /\ at = "remove"
  /\ at' = "returned" /\ UNCHANGED result
  /\ \/ container' = "removed" /\ UNCHANGED kept
     \/ kept' = TRUE /\ UNCHANGED container
  /\ UNCHANGED <<ctx, exit, produced, streamVars>>

Run ==
  \/ EnsureImage \/ Create \/ Start \/ AttachLogs \/ SeeCancel \/ WaitFails
  \/ SeeExit \/ Kill \/ Drain \/ Remove

-----------------------------------------------------------------------------
(***************************************************************************)
(* The goroutine that copies the log.                                      *)
(***************************************************************************)

\* stdcopy.StdCopy, one write.
Copy ==
  /\ copier = "copying" /\ copied < produced
  /\ copied' = copied + 1
  /\ UNCHANGED <<runVars, ctx, hostVars, copier, cut>>

\* The stream has an end when the container has: then all is read.
StreamEnds ==
  /\ copier = "copying" /\ container # "running" /\ copied = produced
  /\ copier' = "done"
  /\ UNCHANGED <<runVars, ctx, hostVars, copied, cut>>

\* mutant: the stream has a context of its own
StreamDetached == FALSE /\ UNCHANGED vars

\* ContainerLogs was given ctx: canceling it ends the stream.
StreamCanceled ==
  /\ copier = "copying" /\ ~Live
  /\ copier' = "done" /\ cut' = TRUE
  /\ UNCHANGED <<runVars, ctx, hostVars, copied>>

StreamFails ==
  /\ copier = "copying"
  /\ copier' = "done" /\ cut' = TRUE
  /\ UNCHANGED <<runVars, ctx, hostVars, copied>>

CopyLogs == Copy \/ StreamEnds \/ StreamCanceled

-----------------------------------------------------------------------------
(***************************************************************************)
(* The container and the context.                                          *)
(***************************************************************************)

Output ==
  /\ container = "running" /\ produced < MaxOutput
  /\ produced' = produced + 1
  /\ UNCHANGED <<runVars, ctx, container, exit, streamVars>>

Exit ==
  /\ container = "running"
  /\ container' = "exited"
  /\ exit' \in {"ok", "exit"}
  /\ UNCHANGED <<runVars, ctx, produced, streamVars>>

CancelCtx ==
  /\ Live
  /\ ctx' = "canceled"
  /\ UNCHANGED <<runVars, hostVars, streamVars>>

Next == Run \/ CopyLogs \/ StreamFails \/ Output \/ Exit \/ CancelCtx

Spec == Init /\ [][Next]_vars

\* Run and the log goroutine are scheduled; Go's select may take WaitFails or
\* not, so it is promised nothing.  No container need end.
FairSpec ==
  /\ Spec
  /\ WF_vars(EnsureImage \/ Create \/ Start \/ AttachLogs \/ SeeCancel
             \/ SeeExit \/ Kill \/ Drain \/ Remove)
  /\ WF_vars(CopyLogs)

-----------------------------------------------------------------------------
(***************************************************************************)
(* Type correctness; the log never holds more than was written.            *)
(***************************************************************************)
TypeOK ==
  /\ at \in Place /\ result \in {"none", "ok", "exit", "err"} /\ kept \in BOOLEAN
  /\ ctx \in {"live", "canceled"}
  /\ container \in {"none", "created", "running", "exited", "removed"}
  /\ exit \in {"none", "ok", "exit", "killed"}
  /\ produced \in 0 .. MaxOutput /\ copied \in 0 .. produced
  /\ copier \in {"off", "copying", "done"} /\ cut \in BOOLEAN

(***************************************************************************)
(* README.md:10 "forced removal": however Run ends, it leaves no container *)
(* behind unless the daemon refuses to remove it (docker.go:110).          *)
(***************************************************************************)
ContainerReclaimed ==
  at = "returned" => container \in {"none", "removed"} \/ kept

(***************************************************************************)
(* When Run has returned nobody writes to the step's log any more: the     *)
(* next attempt, the artifacts' notice and the done event come after the   *)
(* last line of this one.                                                  *)
(***************************************************************************)
QuietAfterReturn == at = "returned" => copier # "copying"

(***************************************************************************)
(* docker.go:121 "even if the container exits at once, its log can be read *)
(* whole before it is removed": a step that reports an exit code has its   *)
(* whole output in the log, unless the connection of the log failed.       *)
(***************************************************************************)
LogIsWhole ==
  at = "returned" /\ result \in {"ok", "exit"} /\ ~cut => copied = produced

(***************************************************************************)
(* An exit code is that of a container which ended by itself, and nothing  *)
(* runs after the return: a container that Kill ended, that was canceled   *)
(* or that is still running is never a success.                            *)
(***************************************************************************)
ResultIsExit == result \in {"ok", "exit"} => exit = result

(***************************************************************************)
(* A cancellation makes Run return even when the container never ends and  *)
(* the kill fails (StageRun assumes it of every executor), and so does the *)
(* end of the container.                                                   *)
(***************************************************************************)
RunReturns == (ctx = "canceled" \/ container = "exited") ~> at = "returned"
=============================================================================
