CONSTANTS
  l = l
  a = a
  b = b
  c = c
  Nodes <- Four
  From = l
  Latencies <- Weights
  DEFAULT_LATENCY = 3
  GoalSets <- OneOrTwo
  ExcludedSets <- NoneOrOne
SPECIFICATION SearchSpec
INVARIANT Optimal
