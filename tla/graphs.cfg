\* All graphs of three nodes with lists of up to two dependencies.
SPECIFICATION Spec
CONSTANTS
  n1 = n1
  n2 = n2
  n3 = n3
  ghost = ghost
  Node = {n1, n2, n3}
  Order <- Added
  Missing = {ghost}
  DepLists <- ShortLists
INVARIANTS
  CycleIsReal
  NoCycleMissed
  TopoIsOrder
  QueueIsReady
\* It ends with phase "cyclic" or "sorted".
CHECK_DEADLOCK FALSE
