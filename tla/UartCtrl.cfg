SPECIFICATION FairSpec
CONSTANTS
  Registers = 2
  Tries = 3
  SendCountdown = 2
  RxCountdown = 2
  MaxPending = 3
INVARIANTS TypeOK OneTroubleIsSurvived AnswerIsFresh
PROPERTIES ReadEnds
