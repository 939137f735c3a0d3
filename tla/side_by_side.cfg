CONSTANTS
  Threads = {t1, t2, t3}
  Models = {m1, m2, m3}
  NoModel = none
  MemoMax = 1
  Savers = {p1, p2, p3}
  PackIds = {a, b, c}
  Capped = {a}
  PackWrites = 1
  RenormBits = 4
  Precisions = {2, 3, 4}
  Streams <- AllStreams
  Counts = {1, 7, 8, 9, 17, 24, 25}
  Widths = {1, 3, 8, 9, 11, 13}
  Chunks = {8, 16}
  Rates = {1, 2}
  Weights <- RowWeights
  Rows = {1, 2, 4}
  NTensors = 3
  Specs <- SpecTable
  Numels = {1, 3}
  Curves <- CurveSet
  Budgets = {2, 6, 9, 13, 30}
  Lambdas = {0, 1, 2, 4}
SPECIFICATION Spec
INVARIANTS MemoBounded PublishedWhole SessionHonest DecoderRetraces UnpackRestores TrellisOptimal AllocationSpends
CHECK_DEADLOCK FALSE
