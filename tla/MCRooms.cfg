\* One user more than the room has places, one call that fails or one crash.
\* No user is bound to send a command, but somebody always may.
CONSTANTS
  Users = {host, u1, u2, u3, u4}
  Host = host
  None = None
  MaxPlayers = 4
  MaxFailures = 1
SYMMETRY Symmetry
SPECIFICATION Spec
INVARIANT TypeOK
INVARIANT SeatsHoldTheRoom
INVARIANT RoomIsItsTimeline
INVARIANT StartedRoomIsDealt
INVARIANT RolesAreOnRecord
