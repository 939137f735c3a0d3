CONSTANTS
  J = 2
  MaxStarts = 2
  MaxEvents = 1
  Clients = {c1}
SPECIFICATION FairSpec
INVARIANT StreamExact
CHECK_DEADLOCK FALSE
