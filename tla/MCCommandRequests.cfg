\* Three handlers at a time; events, completed records, releases and handlers
\* may be lost, twice.
CONSTANTS
  Votes <- OwnIdVotes
  Chats <- GhostChat
  Handlers = {h1, h2, h3}
  Faults = {"record", "complete", "release", "crash"}
  MaxSends = 4
  MaxFaults = 2
SYMMETRY Symmetry
\* No message is ever bound to be sent.
CHECK_DEADLOCK FALSE
SPECIFICATION Spec
INVARIANT TypeOK
INVARIANT OneExecution
INVARIANT AcceptedVoteIsCast
INVARIANT RejectedVoteIsNotCast
INVARIANT NoRetryIsStuck
