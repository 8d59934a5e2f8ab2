SPECIFICATION FairSpec
CONSTANTS
  NGuard = 2
  NRoute = 2
  NActivate = 2
  NHold = 3
  TunOps <- SecondRoute
INVARIANTS JournalInv Owned NoDirectDns
PROPERTIES JournalSpec RecoveryCompletes

