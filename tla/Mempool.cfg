SPECIFICATION Spec
CONSTANTS
  Txs <- MCTxs
  Inputs <- MCInputs
  Fee <- MCFee
  Replaceable = {1, 2, 9}
  NonStandard = {7}
  LockTime <- MCLockTime
  Blocks <- MCBlocks
  Parent <- MCParent
  Height <- MCHeight
  Vtx <- MCVtx
  Deltas <- MCDeltas
  LimitAncestors = 5
  LimitDescendants = 4
  MaxMempool = 5
  MaxDisconnected = 4
  Maturity = 2
  IncrementalFee = 1
  MaxExpired = 1
INVARIANTS
  LinksMirrorInputs
  TotalsAreSums
  PoolMineable
PROPERTY
  ReplacementPays
