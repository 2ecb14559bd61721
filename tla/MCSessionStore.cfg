\* Two handlers at a time, each under the lock; one dies.
CONSTANTS
  Players = {p1, p2, p3, p4}
  RequestIds = {1, 2}
  None = None
  MaxTurn = 2
  MaxOffline = 1
  Workers = {a, b}
  MaxCrashes = 1
SYMMETRY Symmetry
SPECIFICATION SpecOneDealing
PROPERTY ImplementsRules
