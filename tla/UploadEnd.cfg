SPECIFICATION FairSpec
CONSTANTS
  Requests <- MCRequests
  MG_MAX_HTTP_REQUEST_SIZE = 3
  FieldSize = 3
PROPERTY EndIsDelivered
CHECK_DEADLOCK FALSE
