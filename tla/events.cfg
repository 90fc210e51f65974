\* Two browsers that may hang, two stages, channels of two events.
SPECIFICATION BuildSpec
CONSTANTS
  tab1 = tab1
  tab2 = tab2
  g1 = g1
  g2 = g2
  Client = {tab1, tab2}
  Stager = {g1, g2}
  BufferCap = 2
  MaxExtra = 1
INVARIANTS
  ChangesAnnounced
  DoneIsLast
PROPERTIES
  SlowClientsDoNotBlock
  StreamCloses
