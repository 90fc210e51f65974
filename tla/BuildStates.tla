---------------------------- MODULE BuildStates ----------------------------
(***************************************************************************)
(* The life-cycle states shared by builds, stages and steps                *)
(* (internal/store/store.go, type State).                                  *)
(***************************************************************************)

State == {"pending", "running", "success", "failed", "skipped", "canceled"}

\* store.State.Terminal
Terminal(st) == st \in {"success", "failed", "skipped", "canceled"}
=============================================================================
