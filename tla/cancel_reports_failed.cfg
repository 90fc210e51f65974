\* The same build, canceled while a container runs.
SPECIFICATION Spec
CONSTANTS
  build = build
  unit = unit
  lint = lint
  ship = ship
  Stage = {build, unit, lint}
  DependsOn <- Fork
  StepDef <- ForkSteps
  MaxParallel = 1
INVARIANTS
  CanceledIsNotFailed
