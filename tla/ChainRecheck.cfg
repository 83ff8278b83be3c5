SPECIFICATION Spec
CONSTANTS
  Blocks <- MCBlocks
  Genesis = 0
  Parent <- MCParent
  Anc <- MCAnc
  Height <- MCHeight
  Work <- MCHeight
  BadContext = {4}
  BadConnect = {}
  Signed = {2, 4, 5}
  AuthForkHeight = 2
  MinBlocksToKeep = 1
  MinChainWork = 1
  MinSequenceId <- MCMinSequenceId
  Threads = {t1}
  CarefulOperator = TRUE
  None = None
CHECK_DEADLOCK FALSE
INVARIANT
  ActiveChainRechecks
