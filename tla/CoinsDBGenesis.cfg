SPECIFICATION Spec
CONSTANTS
  Blocks <- MCBlocks
  Genesis = 0
  Parent <- MCParent
  Anc <- MCAnc
  Height <- MCHeight
  Outpoints <- MCOutpoints
  Creates <- MCCreates
  Spends <- MCSpends
  Utxo <- MCUtxo
  GenesisSpent = TRUE
  FreshStart = FALSE
  NoCoin = NoCoin
  None = None
CHECK_DEADLOCK FALSE
INVARIANT
  NeverStuck
