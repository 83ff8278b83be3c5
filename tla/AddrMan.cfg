SPECIFICATION Spec
CONSTANTS
  a1 = a1  a2 = a2  a3 = a3  s1 = s1  s2 = s2
  Addrs <- MCAddrs
  Sources <- MCSources
  NewBucket <- MCNewBucket
  NewPos <- MCNewPos
  TriedSlot <- MCTriedSlot
  MaxRefs = 2
  MaxCollisions = 2
  MaxIds = 3
INVARIANTS CheckPasses CollisionsPending
PROPERTIES ReloadKeepsTables
