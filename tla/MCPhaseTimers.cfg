\* Two instances poll, one host sends NEXT_PHASE and one other command takes the
\* lock; one call throws and one handler dies.
CONSTANTS
  Pollers = {a, b}
  Hosts = {h}
  MaxDeadline = 4
  MaxCommands = 1
  MaxFailedCalls = 1
  MaxCrashes = 1
\* The handler that reaches MaxDeadline waits there, and a game that has lost its
\* timer stands still.
CHECK_DEADLOCK FALSE
SPECIFICATION FairSpec
INVARIANT TypeOK
INVARIANT AnnouncesCurrentDeadline
INVARIANT DeadlineIsScheduled
PROPERTY PhaseProgress
PROPERTY FinishedLeavesNoTimer
PROPERTY LockIsReleased
