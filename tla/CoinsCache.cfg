SPECIFICATION Spec
CONSTANTS
  Outpoints = {o1, o2}
  Coins = {c1, c2, burn}
  Unspendable = {burn}
  NoCoin = NoCoin
  NoEntry = NoEntry
  Blocks = {b1, b2}
  NoBlock = NoBlock
INVARIANTS
  FreshMeansAbsentBelow
  CleanEqualsBelow
  NoLogicError
PROPERTY
  UtxoSpec
