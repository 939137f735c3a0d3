CONSTANTS
  MaxSteps = 7
  MaxUsd = 2
  MaxCost = 2
SPECIFICATION FairSpec
INVARIANTS TypeOK SpendBounded SuccessHasArtifact
PROPERTIES Terminates
CHECK_DEADLOCK FALSE
