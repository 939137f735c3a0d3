SPECIFICATION FairSpec
CONSTANTS
  N = 2
  Kind <- TightKind
  UnlistedPassthrough = TRUE
  MaxTensors = 2
  PartCount = 0
  PartIndex = 0
  Bytes <- TightBytes
  Budget = 2
  Stages <- TightStages
  Compensable = {}
  Giants = {}
  Saturated = {}
  EmPasses = 0
  Rescaled = {}
  PrefetchDepth = 4
  WriterDepth = 4
  FinalizeDepth = 1
  Failures = {"finalize"}
PROPERTIES
  Terminates
