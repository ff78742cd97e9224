SPECIFICATION FairSpec
CONSTANTS
  Forms <- MCOneForm
  Brokers = {b1}
  ButtonTasks = {t1}
  PointerReads = {"stored"}
  NvsErrors = FALSE
INVARIANTS SetupAnswerIsTrue
PROPERTIES ResetAnswerIsTrue ImplementsJoinTarget HeldButtonRestarts HandlerEnds
