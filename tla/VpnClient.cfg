SPECIFICATION FairClientSpec
CONSTANTS
  NGuard = 1
  NRoute = 1
  NActivate = 1
  NHold = 2
  TunOps <- Second
  InGuard = 2
  InBase = 4
  InHttps = 1
  InHold = 2
  InTunOps <- Third
  InSameOps <- Fourth
INVARIANTS ForwardInv ReleasedAfterDns
PROPERTIES IngressJournal IngressRecovers
