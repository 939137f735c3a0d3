SPECIFICATION FairSpec
CONSTANTS
  N = 7
  Kind <- FailuresKind
  UnlistedPassthrough = FALSE
  MaxTensors = 2
  PartCount = 2
  PartIndex = 0
  Bytes <- FailuresBytes
  Budget = 0
  Stages <- FailuresStages
  Compensable = {}
  Giants = {}
  Saturated <- FailuresSaturated
  EmPasses = 2
  Rescaled = {}
  PrefetchDepth = 1
  WriterDepth = 2
  FinalizeDepth = 1
  Failures = {"load", "gpu", "write", "finalize"}
INVARIANTS
  CommitComplete
  ErrorsSurface
PROPERTIES
  Terminates
