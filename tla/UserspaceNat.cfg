SPECIFICATION Spec
CONSTANTS
  MSS = 2
  Slack = 1
  ResumeMin = 1
  TcpMaxPending = 3
  MaxConnections = 2
  Windows = {0, 2, 6}
  FullWindow = 6
  Reads = {1, 4}
  W = 16
  FirstSeqs = {13}
  MaxSyns = 2
  MaxRead = 11
INVARIANTS CountInv StreamIntact NoRstAfterFin NoStall
CHECK_DEADLOCK FALSE
