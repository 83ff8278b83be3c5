SPECIFICATION Spec
CONSTANTS
  Blocks <- MCBlocks
  Genesis = 0
  Parent <- MCParent
  Anc <- MCAnc
  Height <- MCHeight
  Work <- MCHeight
  BadContext = {}
  BadConnect = {}
  Signed = {}
  AuthForkHeight = 0
  MinBlocksToKeep = 1
  MinChainWork = 1
  MinSequenceId <- MCMinSequenceId
  Threads = {t1, t2}
  CarefulOperator = TRUE
  None = None
CHECK_DEADLOCK FALSE
INVARIANT
  ActivatedBest
