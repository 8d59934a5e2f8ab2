CONSTANTS
  l = l
  a = a
  b = b
  Local = l
  Others <- AandB
  Exits <- JustA
  Relays <- JustB
  Budgets <- LinksOrDrop
SPECIFICATION FairRouterSpec
INVARIANTS RouterTypeOK RouteIsPath
PROPERTIES EventuallyRouted
