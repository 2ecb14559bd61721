\* Five players: the game survives two deaths.
CONSTANTS
  Players = {p1, p2, p3, p4, p5}
  RequestIds = {1, 2, 3}
  None = None
  MaxTurn = 2
  MaxOffline = 1
SYMMETRY Symmetry
SPECIFICATION Spec
INVARIANT TypeOK
INVARIANT NightTargetsAreCurrent
INVARIANT BallotsAreCurrent
INVARIANT FinishedWhenDecided
INVARIANT HintsAreGuards
INVARIANT ClientOffersTheSame
PROPERTY MajorityIsExecuted
PROPERTY ChoicesAreFinal
