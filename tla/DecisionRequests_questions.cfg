SPECIFICATION FairSpec
CONSTANTS
  MaxRequests = 2
  Bound = {2}
  MaxAttempts = 2
  MaxContinuations = 2
  MaxHeads = 1
  MaxCrashes = 1
INVARIANTS TypeOK DeliveredWasShown ResumedOnce ResumptionsBounded
PROPERTIES QuestionHoldsStage AnswerArrives StageReleased
CHECK_DEADLOCK FALSE
