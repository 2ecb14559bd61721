\* Any call may throw, twice, and no instance dies.
CONSTANTS
  Votes <- OwnIdVotes
  Chats <- GhostChat
  Handlers = {h1, h2}
  Faults = {"begin", "acquire", "record", "complete", "release"}
  MaxSends = 3
  MaxFaults = 2
\* No message is ever bound to be sent.
CHECK_DEADLOCK FALSE
SPECIFICATION FairSpec
PROPERTY EveryVoteIsAnswered
