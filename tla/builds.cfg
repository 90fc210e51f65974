\* Two builds, two workers, a queue of one; stages need not end by themselves.
SPECIFICATION SchedSpec
CONSTANTS
  b1 = b1
  b2 = b2
  app = app
  w1 = w1
  w2 = w2
  Build = {b1, b2}
  Pipeline = {app}
  PipelineOf <- OfOne
  Worker = {w1, w2}
  QueueCap = 1
  NoBuild = NoBuild
INVARIANTS
  TypeOK
  OnePlace
  NoneLost
  RunningIsHeld
  MetricsBalance
  VolumeLifetime
  NumbersUnique
PROPERTIES
  LifeSpec
  SubmittedEnds
  CancelTakesEffect
  StopReturns
\* The process may have exited.
CHECK_DEADLOCK FALSE
