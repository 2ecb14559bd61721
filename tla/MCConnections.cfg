\* Three connections of one user, others that take the lock, one call that
\* throws; each handler ends before the next begins, as in a network that is slow
\* against Redis.  The client may stop for good.
CONSTANTS
  Sockets = {s1, s2, s3}
  None = None
  MaxHandlers = 1
  Contended = TRUE
  MaxFailures = 1
SYMMETRY Symmetry
CHECK_DEADLOCK FALSE
SPECIFICATION Spec
INVARIANT TypeOK
INVARIANT RecordIsTheLiveSocket
INVARIANT RoomIsRemembered
INVARIANT PlayerIsAsConnected
INVARIANT ConnectionsAreAnswered
