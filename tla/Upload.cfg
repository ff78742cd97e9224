SPECIFICATION FairSpec
CONSTANTS
  Requests <- MCRequests
  MG_MAX_HTTP_REQUEST_SIZE = 3
  FieldSize = 3
INVARIANTS TypeOK AnsweredOnce FormIsWhole FieldsAreRead
PROPERTIES ImplementsEvents ParserAdvances WholeIsAnswered
CHECK_DEADLOCK FALSE
