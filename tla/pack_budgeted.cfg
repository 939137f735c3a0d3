SPECIFICATION FairSpec
CONSTANTS
  N = 4
  Kind <- BudgetedKind
  UnlistedPassthrough = TRUE
  MaxTensors = 4
  PartCount = 0
  PartIndex = 0
  Bytes <- BudgetedBytes
  Budget = 2
  Stages <- BudgetedStages
  Compensable = {3}
  Giants = {}
  Saturated = {}
  EmPasses = 1
  Rescaled = {1}
  PrefetchDepth = 1
  WriterDepth = 2
  FinalizeDepth = 1
  Failures = {"load", "gpu", "write"}
INVARIANTS
  TypeOK
  CommittedIsDecodable
  EntriesMatchDisk
  ScalesFitFinal
  BudgetCountsResident
  OverBudgetAlone
PROPERTIES
  Terminates
