--------------------------- MODULE DockerRunProofs ---------------------------
(***************************************************************************)
(* Theorems about DockerRun, for any amount of output.                     *)
(*                                                                         *)
(* The safety properties speak of the moment when Run has returned.  What  *)
(* makes them hold was decided earlier: PlaceInv says what is true of the  *)
(* container and the log goroutine at each line of Run, and StreamInv what *)
(* a log stream that has ended has read.                                   *)
(***************************************************************************)
EXTENDS DockerRun, TLAPS

\* The lines before the one that attaches the log.
Early == {"image", "create", "start", "logs"}

PlaceInv ==
  /\ at \in {"image", "create"} => container = "none"
  /\ at = "start" => container = "created"
  /\ at \in {"logs", "wait", "kill", "drain"} => container \in {"running", "exited"}
  /\ at \in Early <=> copier = "off" /\ at \notin {"remove", "returned"}
  /\ at \in {"remove", "returned"} => copier # "copying"
  /\ at \in Early \cup {"wait", "kill"} => result = "none" /\ exit # "killed"
  /\ at = "returned" => container \in {"none", "removed"} \/ kept

\* A container that has ended says how, and one that reports an exit code has ended.
ExitInv ==
  /\ container = "exited" => exit # "none"
  /\ result \in {"ok", "exit"} =>
       /\ exit = result
       /\ container \in {"exited", "removed"}
       /\ copier # "off"

\* A stream that came to its end has read all there will ever be.
StreamInv ==
  copier = "done" /\ ~cut =>
    container \in {"exited", "removed"} /\ copied = produced

Inv == TypeOK /\ PlaceInv /\ ExitInv /\ StreamInv

LEMMA InvInit == Init => Inv
<1> SUFFICES ASSUME Init PROVE Inv
  OBVIOUS
<1>1. 0 \in 0 .. MaxOutput /\ 0 \in 0 .. 0
  BY OutputAssumption
<1>2. TypeOK
  BY <1>1 DEF Init, TypeOK, Place
<1>3. PlaceInv /\ ExitInv /\ StreamInv
  BY DEF Init, PlaceInv, ExitInv, StreamInv, Early
<1> QED
  BY <1>2, <1>3 DEF Inv

LEMMA RunKeepsInv == ASSUME Inv, Run PROVE Inv'
<1> USE DEF Inv, TypeOK, PlaceInv, ExitInv, StreamInv, Early, Place, Goto, Leave,
            Live, runVars, hostVars, streamVars
<1>1. CASE EnsureImage
  BY <1>1 DEF EnsureImage
<1>2. CASE Create
  BY <1>2 DEF Create
<1>3. CASE Start
  BY <1>3 DEF Start
<1>4. CASE AttachLogs
  BY <1>4 DEF AttachLogs
<1>5. CASE SeeCancel
  BY <1>5 DEF SeeCancel
<1>6. CASE WaitFails
  BY <1>6 DEF WaitFails
<1>7. CASE SeeExit
  BY <1>7 DEF SeeExit
<1>8. CASE Kill
  BY <1>8 DEF Kill
<1>9. CASE Drain
  BY <1>9 DEF Drain
<1>10. CASE Remove
  BY <1>10 DEF Remove
<1> QED
  BY <1>1, <1>2, <1>3, <1>4, <1>5, <1>6, <1>7, <1>8, <1>9, <1>10 DEF Run

LEMMA OthersKeepInv ==
  ASSUME Inv, CopyLogs \/ StreamFails \/ Output \/ Exit \/ CancelCtx
  PROVE  Inv'
<1> USE DEF Inv, TypeOK, PlaceInv, ExitInv, StreamInv, Early, Place, Live,
            runVars, hostVars, streamVars
<1>1. CASE Copy
  BY <1>1 DEF Copy
<1>2. CASE StreamEnds
  BY <1>2 DEF StreamEnds
<1>3. CASE StreamCanceled
  BY <1>3 DEF StreamCanceled
<1>4. CASE StreamFails
  BY <1>4 DEF StreamFails
<1>5. CASE Output
  BY <1>5, OutputAssumption DEF Output
<1>6. CASE Exit
  BY <1>6 DEF Exit
<1>7. CASE CancelCtx
  BY <1>7 DEF CancelCtx
<1> QED
  BY <1>1, <1>2, <1>3, <1>4, <1>5, <1>6, <1>7 DEF CopyLogs

LEMMA InvNext == ASSUME Inv, [Next]_vars PROVE Inv'
<1>1. CASE Next
  BY <1>1, RunKeepsInv, OthersKeepInv DEF Next
<1>2. CASE UNCHANGED vars
  BY <1>2 DEF vars, runVars, hostVars, streamVars, Inv, TypeOK, PlaceInv,
              ExitInv, StreamInv
<1> QED
  BY <1>1, <1>2

(***************************************************************************)
(* The inductive invariant holds.                                          *)
(***************************************************************************)
THEOREM InvHolds == Spec => []Inv
  BY InvInit, InvNext, PTL DEF Spec

(***************************************************************************)
(* Run leaves no container behind unless its removal fails: every return   *)
(* after the creation passes by the deferred ContainerRemove.              *)
(***************************************************************************)
THEOREM ContainerReclaimedHolds == Spec => []ContainerReclaimed
<1>1. Inv => ContainerReclaimed
  BY DEF Inv, PlaceInv, ContainerReclaimed
<1> QED
  BY <1>1, InvHolds, PTL

(***************************************************************************)
(* The log goroutine writes nothing once Run has returned: Run waits for   *)
(* logsDone on every path that started the goroutine.                      *)
(***************************************************************************)
THEOREM QuietAfterReturnHolds == Spec => []QuietAfterReturn
<1>1. Inv => QuietAfterReturn
  BY DEF Inv, PlaceInv, QuietAfterReturn
<1> QED
  BY <1>1, InvHolds, PTL

(***************************************************************************)
(* A step that reports an exit code has its whole output in the log,       *)
(* however much that is, unless the connection of the log failed.          *)
(***************************************************************************)
THEOREM LogIsWholeHolds == Spec => []LogIsWhole
<1>1. Inv => LogIsWhole
  BY DEF Inv, TypeOK, PlaceInv, ExitInv, StreamInv, LogIsWhole
<1> QED
  BY <1>1, InvHolds, PTL

(***************************************************************************)
(* The exit code that Run reports is that of a container which ended by    *)
(* itself, never of one that Kill ended.                                   *)
(***************************************************************************)
THEOREM ResultIsExitHolds == Spec => []ResultIsExit
<1>1. Inv => ResultIsExit
  BY DEF Inv, ExitInv, ResultIsExit
<1> QED
  BY <1>1, InvHolds, PTL
=============================================================================
