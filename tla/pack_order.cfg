SPECIFICATION FairSpec
CONSTANTS
  N = 5
  Kind <- OrderKind
  UnlistedPassthrough = FALSE
  MaxTensors = 5
  PartCount = 0
  PartIndex = 0
  Bytes <- OrderBytes
  Budget = 0
  Stages <- OrderStages
  Compensable = {}
  Giants = {}
  Saturated = {}
  EmPasses = 0
  Rescaled = {}
  PrefetchDepth = 1
  WriterDepth = 2
  FinalizeDepth = 1
  Failures = {"load", "finalize"}
PROPERTIES
  KeepsPromise
INVARIANTS
  TakenBounded
