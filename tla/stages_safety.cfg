\* Three roots and a join; two tokens, so that the roots compete for them.
SPECIFICATION Spec
CONSTANTS
  build = build
  unit = unit
  lint = lint
  ship = ship
  Stage = {build, unit, lint, ship}
  DependsOn <- Join
  StepDef <- MixedSteps
  MaxParallel = 2
INVARIANTS
  TypeOK
  SlotBound
  DepsDone
  StepsInOrder
  SuccessIsEarned
  OnlyRefusedStaysRunning
  RetriesUsedUp
PROPERTIES
  ClosedIsFinal
  DagSpec
