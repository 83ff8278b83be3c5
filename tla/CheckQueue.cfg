SPECIFICATION FairSpec
CONSTANTS
  Workers = {w1, w2}
  Masters = {m1}
  NoMaster = NoMaster
  Checks = {c1, c2, c3, c4}
  Bad = {c4}
  nBatchSize = 2
INVARIANTS
  TodoCountsPending
  IdleCountsWaiting
  WaitIsConjunction
  QueueUnusedWhenFree
PROPERTY
  WaitReturns
