\* A fork, one token: both branches need it after the build stage.  Containers need
\* not end by themselves.
SPECIFICATION SchedSpec
CONSTANTS
  build = build
  unit = unit
  lint = lint
  ship = ship
  Stage = {build, unit, lint}
  DependsOn <- Fork
  StepDef <- ForkSteps
  MaxParallel = 1
PROPERTIES
  Termination
  CancelEnds
  TimedStepsEnd
