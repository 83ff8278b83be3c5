SPECIFICATION FairSpec
CONSTANTS
  Services = {s1, s2}
  Producers = {p1, p2}
  Importers = {p2}
  Main = main
  NoThread = NoThread
  MaxPending = 1
  MaxBlocks = 2
INVARIANTS
  NoStrandedCallback
  BlocksInOrder
  EmptyQueueAlone
PROPERTIES
  SerialQueueSpec
  SyncReturns
  ShutdownEnds
CHECK_DEADLOCK FALSE
