SPECIFICATION Spec
CONSTANTS
  Blocks <- MCBlocks
  Genesis = 0
  Parent <- MCParent
  Anc <- MCAnc
  Height <- MCHeight
  Work <- MCHeight
  BadContext = {4}
  BadConnect = {}
  Signed = {1, 2, 3, 4}
  AuthForkHeight = 2
  MinBlocksToKeep = 1
  MinChainWork = 1
  MinSequenceId <- MCMinSequenceId
  Threads = {t1}
  CarefulOperator = TRUE
  None = None
INVARIANTS
  CandidatesExact
  FailedHasInvalidAncestor
  WaitingBlocksAreFound
  ActiveChainValid
  ActivatedBest
  AuthorizedChain
  NoAssertFails
PROPERTIES
  WorkLossNeedsInvalidBlock
  ActivationProgresses
