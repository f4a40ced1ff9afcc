SPECIFICATION FairSpec
CONSTANTS
  MaxRetries = 2
  MaxCalls = 6
  MaxCost = 3
  CallCost = 1
  EnableCodegen = TRUE
  Modes <- MC_Both
  MaxRuns = 2
  Drafts <- MC_Drafts
  Task <- MC_Tasks
  StageOf <- MC_Of
  MaxAgain = 1
INVARIANTS
  BreakerHolds
  ServedIsTried
  RecordIsTrue
PROPERTIES
  AnswersStages
  EveryCallAnswered
CHECK_DEADLOCK FALSE
