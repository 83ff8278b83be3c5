SPECIFICATION FairSpec
CONSTANTS
  Blocks <- MCBlocks
  Genesis = 0
  Parent <- MCParent
  Anc <- MCAnc
  Height <- MCHeight
  Outpoints <- MCOutpoints
  Creates <- MCCreates
  Spends <- MCSpends
  Utxo <- MCUtxo
  GenesisSpent = FALSE
  FreshStart = FALSE
  NoCoin = NoCoin
  None = None
INVARIANTS
  CoinsMatchTip
  DatabaseBetweenHeads
  NeverStuck
  FlushContinuesReplay
PROPERTY
  ComesBack
