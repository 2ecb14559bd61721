\* Three overlapping transactions; no call is bound to be made.
CONSTANTS
  Writers = {w1, w2, w3}
  MaxEvents = 4
SYMMETRY Symmetry
CHECK_DEADLOCK FALSE
SPECIFICATION LogSpec
INVARIANT TimelineIsGapless
