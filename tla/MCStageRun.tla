----------------------------- MODULE MCStageRun -----------------------------
(***************************************************************************)
(* Small builds for TLC.  The .cfg files choose one of the graphs and one  *)
(* of the step tables below.                                               *)
(***************************************************************************)
EXTENDS StageRun, TLC

CONSTANTS build, unit, lint, ship

plain     == [defined |-> TRUE, retries |-> 0, timeout |-> FALSE,
              allowFailure |-> FALSE, artifacts |-> FALSE]
retried   == [plain EXCEPT !.retries = 1, !.artifacts = TRUE]
tolerated == [plain EXCEPT !.allowFailure = TRUE, !.timeout = TRUE]
timed     == [plain EXCEPT !.timeout = TRUE]
timedRetried == [timed EXCEPT !.retries = 1]
gone      == [plain EXCEPT !.defined = FALSE]

\* Three roots compete for the tokens; ship waits for build, then for unit.
Join == build :> <<>> @@ unit :> <<>> @@ lint :> <<>> @@ ship :> <<build, unit>>
\* Every kind of step.
MixedSteps ==
  build :> <<retried, tolerated>> @@ unit :> <<timed>> @@ lint :> <<plain>>
    @@ ship :> <<gone, plain>>

\* unit and lint wait for build.
Fork == build :> <<>> @@ unit :> <<build>> @@ lint :> <<build>>
ForkSteps == build :> <<timedRetried>> @@ unit :> <<plain, plain>> @@ lint :> <<tolerated>>
=============================================================================
