\* A container with up to three pieces of output.
SPECIFICATION FairSpec
CONSTANTS
  MaxOutput = 3
INVARIANTS
  ContainerReclaimed
  QuietAfterReturn
  LogIsWhole
PROPERTIES
  RunReturns
\* Run has returned.
CHECK_DEADLOCK FALSE
