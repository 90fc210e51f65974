---------------------------- MODULE MCScheduler -----------------------------
(***************************************************************************)
(* Small servers for TLC: all builds are of pipeline app.                  *)
(***************************************************************************)
EXTENDS Scheduler, TLC

CONSTANTS b1, b2, app, w1, w2

OfOne == [b \in Build |-> app]

\* Sound for safety: no definition tells builds or workers apart.
Symmetry == Permutations(Worker) \cup Permutations(Build)
=============================================================================
