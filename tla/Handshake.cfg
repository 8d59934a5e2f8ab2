SPECIFICATION FairSpec
CONSTANTS
  n1 = n1
  n2 = n2
  Nodes <- MCNodes
  Initiator = n1
  Budgets <- EachFault
INVARIANTS SessionInv
PROPERTIES EventuallyConnected ConnectionKept
CHECK_DEADLOCK FALSE
