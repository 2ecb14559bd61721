\* The mafia and a citizen, three messages, two of each channel kept, one
\* reconnect, one call that throws.  Nobody is bound to speak.
CONSTANTS
  Users = {m, c}
  Mafia = {m}
  Limit = 2
  ScreenLimit = 2
  MaxMessages = 3
  MaxDrops = 1
  MaxFailures = 1
CHECK_DEADLOCK FALSE
SPECIFICATION Spec
INVARIANT TypeOK
INVARIANT CacheIsRecent
INVARIANT NothingIsMissed
INVARIANT ReadersOnly
