SPECIFICATION FairSpec
CONSTANTS
  p1 = p1
  p2 = p2
  None = None
  Peers = {p1, p2}
  Responsive = {p2}
  Kinds <- MCKinds
  Blocks <- MCBlocks
  Parent <- MCParent
  Height <- MCHeight
  Has <- MCHas
  Tips <- MCTips
  Bad = {5}
  LastDay = {2, 3, 4, 5}
  Recent = {2, 3, 4, 5}
  MaxInTransit = 2
  Window = 1
CHECK_DEADLOCK FALSE
INVARIANTS FlightTablesAgree StallerHasBlocks
PROPERTIES NoTakeover Synced
