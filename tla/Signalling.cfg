SPECIFICATION FairSpec
CONSTANTS
  n1 = n1
  n2 = n2
  Null = Null
  Nodes <- TwoNodes
  Pinned <- PinInRange
  FirstIp = 2
  TunNodes = {n1}
  MaxSockets = 2
  Budgets <- Mixed
INVARIANTS TypeOK RegistrationSurvivesStaleSockets ViewsAgree
PROPERTIES ClashOnlyByCounter SignalsInOrder RegistryFollows
CHECK_DEADLOCK FALSE
