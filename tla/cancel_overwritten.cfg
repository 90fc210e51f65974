\* A cancellation that was answered is overwritten.
SPECIFICATION Spec
CONSTANTS
  b1 = b1
  b2 = b2
  app = app
  w1 = w1
  w2 = w2
  Build = {b1, b2}
  Pipeline = {app}
  PipelineOf <- OfOne
  Worker = {w1}
  QueueCap = 1
  NoBuild = NoBuild
SYMMETRY Symmetry
PROPERTIES
  CanceledNeverRuns
\* The process may have exited.
CHECK_DEADLOCK FALSE
