\* Three connections; two handlers overlap.
CONSTANTS
  Sockets = {s1, s2, s3}
  None = None
  MaxHandlers = 2
  Contended = FALSE
  MaxFailures = 0
SYMMETRY Symmetry
CHECK_DEADLOCK FALSE
SPECIFICATION Spec
INVARIANT MembersComeBack
