SPECIFICATION Spec
CONSTANTS
  Forms = {f1, f2}
  Seconds = 3
  STA_CONNECT_TIMEOUT = 3
  BusyConnect = {"ignored"}
  MaxQueue = 4
  Lists <- MCNoList
INVARIANTS ConnectAnswerIsTrue
