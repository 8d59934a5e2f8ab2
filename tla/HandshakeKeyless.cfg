SPECIFICATION Spec
CONSTANTS
  n1 = n1
  n2 = n2
  Nodes <- MCNodes
  Initiator = n1
  Budgets <- OneFailure
INVARIANTS KeyedWhenOpen
CHECK_DEADLOCK FALSE
