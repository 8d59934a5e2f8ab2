SPECIFICATION FairSpec
CONSTANTS
  KeepAlives <- AnyEnds
  Cooldown = TRUE
  QueueMax = 1
  MaxBatch = 2
  MaxConns = 2
  MaxPackets <- FewPackets
  MaxRestarts = 1
INVARIANTS WireInv WireIntact
PROPERTY SocketsClosed
CHECK_DEADLOCK FALSE
