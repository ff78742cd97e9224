SPECIFICATION FairSpec
CONSTANTS
  Forms = {f1, f2}
  Seconds = 3
  STA_CONNECT_TIMEOUT = 3
  BusyConnect = {"ignored", "error"}
  MaxQueue = 4
  Lists <- MCLists
INVARIANTS TypeOK FlagFollowsLink FirstAnswerIsTrue ScanAnswerIsTrue
PROPERTIES OperationRecovers ScanIsAnswered
