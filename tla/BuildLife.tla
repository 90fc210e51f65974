----------------------------- MODULE BuildLife ------------------------------
(***************************************************************************)
(* What the server promises whoever looks at its builds, said without      *)
(* queue, workers or requests: a build is shown as pending first; it runs  *)
(* at most once; whoever ended it, canceled it for good or refused it is   *)
(* the last to change it; and its event done goes out at most once, after  *)
(* a run, when the end can be seen.  A cancellation is no end: until       *)
(* somebody has found it, a worker may overwrite it, or the full queue.    *)
(*                                                                         *)
(* Scheduler, which follows internal/scheduler and internal/store,         *)
(* implements it.                                                          *)
(***************************************************************************)
EXTENDS BuildStates

CONSTANT Build  \* the builds that will ever be created

VARIABLES
  shown,   \* shown[b]: the state of b that a reader sees, "none" before it exists
  over,    \* the builds that nobody will change any more
  ending,  \* of these, those that ran and whose event done is still to come
  told     \* those whose event done went out

vars == <<shown, over, ending, told>>
-----------------------------------------------------------------------------
Init ==
  /\ shown = [b \in Build |-> "none"]
  /\ over = {} /\ ending = {} /\ told = {}

Become(b, from, to) ==
  /\ b \notin over /\ shown[b] \in from
  /\ shown' = [shown EXCEPT ![b] = to]

Create(b) == Become(b, {"none"}, "pending") /\ UNCHANGED <<over, ending, told>>

Cancel(b) == Become(b, {"pending"}, "canceled") /\ UNCHANGED <<over, ending, told>>

\* The queue was full, or the pipeline is gone.
Refuse(b) ==
  /\ Become(b, {"pending", "canceled"}, "failed")
  /\ over' = over \cup {b}
  /\ UNCHANGED <<ending, told>>

\* A worker finds the build canceled.
Drop(b) ==
  /\ b \notin over /\ shown[b] = "canceled"
  /\ over' = over \cup {b}
  /\ UNCHANGED <<shown, ending, told>>

Run(b) == Become(b, {"pending", "canceled"}, "running") /\ UNCHANGED <<over, ending, told>>

End(b) ==
  /\ \E outcome \in {"success", "failed", "canceled"} : Become(b, {"running"}, outcome)
  /\ over' = over \cup {b} /\ ending' = ending \cup {b}
  /\ UNCHANGED told

Tell(b) ==
  /\ b \in ending \ told
  /\ ending' = ending \ {b} /\ told' = told \cup {b}
  /\ UNCHANGED <<shown, over>>

Next ==
  \E b \in Build :
    Create(b) \/ Cancel(b) \/ Refuse(b) \/ Drop(b) \/ Run(b) \/ End(b) \/ Tell(b)

Spec == Init /\ [][Next]_vars
=============================================================================
