SPECIFICATION FairSpec
CONSTANTS
  Clients = {c1, c2, c3}
  Polls = {p1, p2}
  CounterLimit = 1
  CounterRange = 3
INVARIANTS TypeOK OpenIsConnected ServerIsSynced
PROPERTIES PollingEnds
CONSTRAINT ClientsInOrder
ACTION_CONSTRAINT PollsInOrder
