SPECIFICATION FairSpec
CONSTANTS
  p1 = p1
  p2 = p2
  Producers <- TwoTasks
  NSlots = 2
  Capacity = 1
  MaxAttempts = 2
  MaxFrames <- TwoAndOne
  MaxMounts = 2
INVARIANTS QueueInv SentFresh NoLostWakeup
PROPERTY WorkerDrains
CHECK_DEADLOCK FALSE
