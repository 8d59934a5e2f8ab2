SPECIFICATION FairSpec
CONSTANTS
  Lens <- ShortOrLong
  MaxFrameSize = 9
  MaxQueuePackets = 3
  SendOverflowMax = 1
  SendRetryMax = 1
  HighWater = 5
  LowWater = 1
  MaxPackets = 6
  MaxConnections = 2
INVARIANTS FrameInv BufferFifo NoneLost RetryNotOvertaken
PROPERTY AcceptedIsSent
CHECK_DEADLOCK FALSE
