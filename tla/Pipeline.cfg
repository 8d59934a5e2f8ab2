SPECIFICATION FairSpec
CONSTANTS
  p = p
  Peers <- OnePeer
  NWorkers = 2
  Limits = {1, 2}
  MaxConnections = 2
  MaxMessages = 4
  MaxCrashes = 1
INVARIANTS OrderInv
PROPERTY ChainsDrain
CHECK_DEADLOCK FALSE
