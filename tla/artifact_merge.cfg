CONSTANTS
  Drivers = {"sequential", "kaggle", "parallel"}
  Sizes = {1, 3}
  Gpus = {1, 2, 3}
  Widths = {1, 2}
  MaxAttempts = 2
  MaxFailures = 1
SPECIFICATION FairSpec
INVARIANTS TypeOK PublishedMatches PublishedCovers SuccessIsReadable PackedSurvives
PROPERTIES FinishedIsFinal AttemptsEnd
CHECK_DEADLOCK FALSE
